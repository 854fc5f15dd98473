--------------------------- MODULE SignalEnsemble ---------------------------
(***************************************************************************)
(* signals/ensemble.py and scanner/opportunity.py for one underlying: what *)
(* the strategies, the model, the regime and the deep analysis say is      *)
(* combined into one decision, from scratch in every cycle.  From one      *)
(* cycle to the next a piece of the evidence changes.                      *)
(* Weights and probabilities are in hundredths, sums of discounted weights *)
(* in ten-thousandths.                                                     *)
(***************************************************************************)
EXTENDS MarketEvidence, FiniteSetsExt

CONSTANTS
    FamilyOf,                   \* FamilyOf[s] is a correlation group, or Alone
    Weights,                    \* confidence times health, 0 to 100
    Price, StopDistance,        \* the price, and how far from it a strategy sets its stop
    DiscountAt,                 \* powers of correlation_discount, by rank
    Servings,                   \* what the models make of the features
    Readings,                   \* what the analysis measures
    Distributions,              \* regimes by probability, and their entropy
    MinAgreement, MinAgreeing, MinConfidence, MinProbability, MinConviction,
    StrategyWeight, ModelWeight, Influence,
    ScannerWeights,             \* of the seven components of an opportunity
    Execution, RewardToRisk,    \* of the quote and the levels: liquidity and quality; R:R
    MinOpportunity

Alone == "alone"
Silent == [weight |-> -1]       \* no actionable signal
NoServing == [age |-> 0, complete |-> TRUE, models |-> [d \in {Long, Short} |-> NoModel]]

\* EnsembleConfig: fractions, and the two weights share one whole.
EnsembleConfig ==
    /\ {MinAgreement, MinConfidence, StrategyWeight, ModelWeight} \subseteq 0..100
    /\ StrategyWeight + ModelWeight = 100
    /\ MinAgreeing \in Nat \ {0}
    /\ \A rank \in 1..Cardinality(Strategies) : DiscountAt[rank] \in 1..100

\* ScannerConfig: so do the weights of the components.
ScannerConfig ==
    /\ SumFunction(ScannerWeights) = 100
    /\ MinOpportunity \in 0..100

ASSUME EnsembleAssumption ==
    /\ EnsembleConfig /\ ScannerConfig
    /\ IsFiniteSet(Strategies) /\ Weights \subseteq 0..100
    /\ FamilyOf \in [Strategies -> STRING]
    /\ Price \in Nat /\ StopDistance \in [Strategies -> Nat]
    /\ Servings \subseteq Serving /\ Readings \subseteq Reading
    /\ Distributions \subseteq Distribution
    /\ Influence \in 0..100

VARIABLES
    opinions,       \* what each strategy says
    serving,        \* what the models say
    reading,        \* what the analysis measures, NoReading when it failed or is disabled
    distribution,   \* of the regimes
    verdict         \* the EnsembleResult

evidence == <<opinions, serving, reading, distribution>>
ensembleVars == <<evidence, verdict>>

Opinions == {Silent} \union [weight : Weights, direction : {Long, Short}]
NoTrade == [direction |-> 0]
Results == [direction : {Long, Short}, stop : Int, confidence : 0..10000, score : 0..10000,
            actionable : BOOLEAN]

-----------------------------------------------------------------------------
\* Mutant: a score is kept from below only.
ClippedBelow(n) == IF n < 0 THEN 0 ELSE n

Clipped(n) == Between0And(n, 10000)

\* _signal_weight: conviction and health, by the fit to the regime.
Weighted(said, state) ==
    [s \in Strategies |->
        IF said[s] = Silent THEN Silent ELSE [said[s] EXCEPT !.weight = Pct(@, Fit(s, state))]]

\* A signal that health or regime fit weighs zero is no evidence for its side.
Side(said, d) ==
    {s \in Strategies : said[s] # Silent /\ said[s].weight > 0 /\ said[s].direction = d}

\* _side_score: within a family the largest weight counts in full, the next are
\* discounted by their rank.  The weight of a rank is the largest that at least so
\* many members reach.
Reach(said, members, rank) ==
    {said[s].weight : s \in {s \in members :
        Cardinality({t \in members : said[t].weight >= said[s].weight}) >= rank}}

FamilyScore(said, members) ==
    SumFunction([rank \in 1..Cardinality(members) |->
                    Max(Reach(said, members, rank)) * DiscountAt[rank]])

SideScore(said, d) ==
    LET side     == Side(said, d)
        families == {FamilyOf[s] : s \in side} \ {Alone}
    IN SumFunction([s \in {s \in side : FamilyOf[s] = Alone} |-> 100 * said[s].weight])
       + SumFunction([f \in families |-> FamilyScore(said, {s \in side : FamilyOf[s] = f})])

\* "No model is not the same as a bad model": without one the component is 0.35.
ModelComponent(prediction) ==
    IF prediction = NoForecast THEN 3500 ELSE Clipped(200 * (prediction.probability - 50))

Favoured(said) == IF SideScore(said, Long) >= SideScore(said, Short) THEN Long ELSE Short

StrategyComponent(said, d) == Clipped(SideScore(said, d) \div Cardinality(Side(said, d)))

Calibrated(said, d, breadth, prediction, state) ==
    LET total == SideScore(said, Long) + SideScore(said, Short) IN
    (25 * StrategyComponent(said, d)
     + 20 * ((10000 * SideScore(said, d)) \div total)
     + 20 * (100 * state.confidence)
     + 15 * AtMost(2500 * breadth, 10000)
     + 20 * (IF prediction = NoForecast THEN 3000 ELSE 100 * prediction.confidence)) \div 100

\* Mutant: the breadth of agreement counts everyone who spoke.
ConfidenceOfAll(said, d, prediction, state) ==
    Calibrated(said, d, Cardinality(Side(said, Long) \union Side(said, Short)), prediction, state)

\* _confidence: strategies, agreement, regime, breadth of agreement and model.
Confidence(said, d, prediction, state) ==
    Calibrated(said, d, Cardinality(Side(said, d)), prediction, state)

\* The gates of the deep analysis: a veto, an opposing bias, too little conviction.
AnalysisAllows(report, d) ==
    report # NoReading =>
        /\ ~report.vetoed
        /\ Bias(report) \in {d, 0}
        /\ report.conviction >= 100 * MinConviction

\* 1 + influence * (2 * support - 1), in hundredths.
Adjustment(report, d) ==
    IF report = NoReading THEN 100
    ELSE 100 + Pct(Influence, (2 * Supports(report, d)) \div 100 - 100)

\* _levels and _aggregate_levels: the tightest stop of the agreeing strategies.
StopAt(s, d) == Price - d * StopDistance[s]
TightestStop(agreeing, d) == d * Max({d * StopAt(s, d) : s \in agreeing})

EnoughEvidence(voices, said, prediction, report, state, d) ==
    LET total == SideScore(said, Long) + SideScore(said, Short) IN
    /\ ~state.uncertain
    /\ total > 0
    /\ 100 * SideScore(said, d) >= MinAgreement * total
    /\ voices >= MinAgreeing
    /\ prediction # NoForecast =>
         prediction.direction = d /\ prediction.probability >= MinProbability
    /\ AnalysisAllows(report, d)
    /\ Confidence(said, d, prediction, state) >= 100 * MinConfidence

\* Mutant: an analysis that agrees counts as one more strategy.
PassesWithVoice(said, prediction, report, state, d) ==
    LET voice == IF report # NoReading /\ Bias(report) = d THEN 1 ELSE 0 IN
    EnoughEvidence(Cardinality(Side(said, d)) + voice, said, prediction, report, state, d)

Passes(said, prediction, report, state, d) ==
    EnoughEvidence(Cardinality(Side(said, d)), said, prediction, report, state, d)

Result(said, prediction, report, state, d) ==
    LET blend == (StrategyWeight * StrategyComponent(said, d)
                    + ModelWeight * ModelComponent(prediction)) \div 100
    IN [direction |-> d, stop |-> TightestStop(Side(said, d), d),
        confidence |-> Confidence(said, d, prediction, state),
        score |-> Clipped((blend * Adjustment(report, d)) \div 100), actionable |-> FALSE]

\* OpportunityScanner.score: the components of a tradable result, in ten-thousandths;
\* a missing model counts 0.3 and a missing analysis 0.4.
OpportunityScore(result, prediction, report, state) ==
    LET parts ==
          [strategy |-> result.score,
           ml |-> IF prediction = NoForecast THEN 3000
                  ELSE Clipped(250 * (prediction.probability - 50)),
           regime_fit |-> 100 * state.confidence,
           analysis |-> IF report = NoReading THEN 4000 ELSE Supports(report, result.direction),
           liquidity |-> 100 * Execution.liquidity,
           execution_quality |-> 100 * Execution.quality,
           expected_return |-> Clipped(50 * (RewardToRisk - 100))]
    IN SumFunction([k \in DOMAIN parts |-> (ScannerWeights[k] * parts[k]) \div 100])

Scored(result, prediction, report, state) ==
    [result EXCEPT !.actionable =
        OpportunityScore(result, prediction, report, state) >= 100 * MinOpportunity]

\* combine: the side with more evidence, long on a tie, if every gate lets it through.
Combine(said, prediction, report, state) ==
    LET d == Favoured(said) IN
    IF Passes(said, prediction, report, state, d)
      THEN Scored(Result(said, prediction, report, state, d), prediction, report, state)
      ELSE NoTrade

\* _evaluate_underlying: the analysis first, which may fail, then the regime, the
\* strategies, the models and the ensemble.
Evaluated(said, served, measured, likely) ==
    LET state == Finalized(likely) IN
    Combine(Weighted(said, state), Predicted(served, state),
            IF measured = NoReading THEN NoReading ELSE Report(measured), state)

-----------------------------------------------------------------------------
EnsembleInit ==
    /\ opinions = [s \in Strategies |-> Silent]
    /\ serving = NoServing /\ reading = NoReading
    /\ distribution \in Distributions
    /\ verdict = NoTrade

\* A strategy changes its mind, its health its weight, or it raises and is left out.
OpinionChanges(s) ==
    /\ \E o \in Opinions \ {opinions[s]} :
         /\ opinions' = [opinions EXCEPT ![s] = o]
         /\ verdict' = Evaluated(opinions', serving, reading, distribution)
    /\ UNCHANGED <<serving, reading, distribution>>

ServingChanges ==
    /\ serving' \in (Servings \union {NoServing}) \ {serving}
    /\ verdict' = Evaluated(opinions, serving', reading, distribution)
    /\ UNCHANGED <<opinions, reading, distribution>>

ReadingChanges ==
    /\ reading' \in (Readings \union {NoReading}) \ {reading}
    /\ verdict' = Evaluated(opinions, serving, reading', distribution)
    /\ UNCHANGED <<opinions, serving, distribution>>

DistributionChanges ==
    /\ distribution' \in Distributions \ {distribution}
    /\ verdict' = Evaluated(opinions, serving, reading, distribution')
    /\ UNCHANGED <<opinions, serving, reading>>

EnsembleNext ==
    \/ \E s \in Strategies : OpinionChanges(s)
    \/ ServingChanges \/ ReadingChanges \/ DistributionChanges

EnsembleSpec == EnsembleInit /\ [][EnsembleNext]_ensembleVars

-----------------------------------------------------------------------------
EnsembleTypeOK ==
    /\ opinions \in [Strategies -> Opinions]
    /\ serving \in Servings \union {NoServing}
    /\ reading \in Readings \union {NoReading} /\ distribution \in Distributions
    /\ verdict # NoTrade => verdict \in Results

\* A strategy that speaks up against the direction never helps it: when the decision
\* stands after a silent strategy has dissented, it stood before, with no less
\* confidence and the same stop.
DissentOnlyHinders ==
    [][\A s \in Strategies :
         (/\ verdict' # NoTrade
          /\ opinions[s] = Silent /\ opinions'[s] # Silent
          /\ opinions'[s].direction = -verdict'.direction)
         => /\ verdict.direction = verdict'.direction
            /\ verdict.confidence >= verdict'.confidence
            /\ verdict.stop = verdict'.stop]_ensembleVars

\* The analysis "cannot manufacture a trade the strategies and the model did not
\* already agree on": whatever it reports, the same evidence without a report gives
\* the same decision with the same confidence and stop; only the score and with it
\* the rank in the scan move.
AnalysisOnlyRestricts ==
    verdict # NoTrade =>
        LET without == Evaluated(opinions, serving, NoReading, distribution) IN
        /\ without # NoTrade
        /\ [without EXCEPT !.score = 0, !.actionable = FALSE]
             = [verdict EXCEPT !.score = 0, !.actionable = FALSE]

=============================================================================
