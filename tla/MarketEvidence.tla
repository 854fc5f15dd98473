--------------------------- MODULE MarketEvidence ---------------------------
(***************************************************************************)
(* What the ensemble is given beside the strategies, for one underlying in *)
(* one cycle: the regime (regime/engine.py), the forecast of the models    *)
(* (ml/predict.py) and the report of the deep analysis                     *)
(* (analysis/confluence.py, analysis/engine.py).  Each is computed from    *)
(* scratch from what was measured.  Probabilities and shares are in        *)
(* hundredths, scores and convictions of the analysis in ten-thousandths.  *)
(***************************************************************************)
EXTENDS Integers, FiniteSets, Functions

CONSTANTS
    Regimes,                    \* but UNCERTAIN
    Strategies, FitOf,          \* FitOf[s][r]: REGIME_STRATEGY_FIT
    MinRegimeConfidence, MaxEntropy,
    MaxForecastAge,
    DimensionWeight,            \* of each dimension of the analysis
    MinDimensions, ConflictPenalty,
    VetoLimit                   \* of each measure that can forbid a trade

Long == 1
Short == -1
Uncertain == "uncertain"
NoModel == [loaded |-> FALSE]
NoForecast == [usable |-> FALSE]
NoReading == [absent |-> TRUE]

\* AnalysisConfig: no weight is negative, and one at least is not zero.
AnalysisConfig ==
    /\ IsFiniteSet(DOMAIN DimensionWeight)
    /\ \A d \in DOMAIN DimensionWeight : DimensionWeight[d] \in Nat
    /\ \E d \in DOMAIN DimensionWeight : DimensionWeight[d] > 0
    /\ MinDimensions \in 1..8 /\ ConflictPenalty \in 0..100

ASSUME EvidenceAssumption ==
    /\ AnalysisConfig
    /\ {MinRegimeConfidence, MaxEntropy} \subseteq 0..100 /\ MaxForecastAge \in Nat
    /\ IsFiniteSet(Regimes) /\ Regimes # {}
    /\ FitOf \in [Strategies -> [Regimes \union {Uncertain} -> 0..100]]

\* What can be measured: a distribution of the regimes, what models are loaded and how
\* fresh their features are, and the dimensions with what may veto.
Distribution == [probabilities : [Regimes -> 0..100], entropy : 0..100]
Model == {NoModel} \union [probability : 0..100, uncertainty : Nat]
Serving == [age : Nat, complete : BOOLEAN, models : [{Long, Short} -> Model]]
Reading == [dims : [DOMAIN DimensionWeight -> [score : -100..100, confidence : 0..100]],
            measures : [DOMAIN VetoLimit -> Int]]

Pct(n, share) == (n * share) \div 100
AtMost(n, top) == IF n > top THEN top ELSE n
Between0And(n, top) == IF n < 0 THEN 0 ELSE AtMost(n, top)
Size(n) == IF n < 0 THEN -n ELSE n

-----------------------------------------------------------------------------
\* _finalize: the likeliest regime, unless it is too unlikely or the distribution too even:
\* then UNCERTAIN joins the distribution, which is normalised again.
Finalized(distribution) ==
    LET p        == distribution.probabilities
        dominant == CHOOSE r \in DOMAIN p : \A other \in DOMAIN p : p[r] >= p[other]
        refused  == p[dominant] < MinRegimeConfidence \/ distribution.entropy > MaxEntropy
        total    == 200 - p[dominant]
        share    == (100 * (100 - p[dominant])) \div total
    IN IF refused
         THEN [uncertain |-> TRUE, confidence |-> share,
               probabilities |-> [r \in DOMAIN p \union {Uncertain} |->
                                    IF r = Uncertain THEN share ELSE (100 * p[r]) \div total]]
         ELSE [uncertain |-> FALSE, confidence |-> p[dominant], probabilities |-> p]

\* regime_fit: the fit to each regime, weighted by how likely it is.
Fit(s, state) ==
    LET p == state.probabilities IN SumFunction([r \in DOMAIN p |-> Pct(FitOf[s][r], p[r])])

-----------------------------------------------------------------------------
\* PredictionEngine._confidence: the edge, the agreement of the models, the regime.
ForecastConfidence(output, state) ==
    (45 * AtMost(2 * Size(output.probability - 50), 100)
     + 35 * Between0And(100 - 3 * output.uncertainty, 100)
     + 20 * state.confidence) \div 100

\* predict: no forecast from old or incomplete features, nor when the models of both sides
\* see an edge and neither a clear one; else the better of the two, long on a tie.
Predicted(served, state) ==
    LET loaded == {d \in {Long, Short} : served.models[d] # NoModel}
        p(d)   == served.models[d].probability
        better == CHOOSE d \in loaded :
                     \A e \in loaded : p(d) > p(e) \/ (p(d) = p(e) /\ d >= e)
        both   == loaded = {Long, Short} /\ p(Long) > 50 /\ p(Short) > 50
                    /\ Size(p(Long) - p(Short)) < 8
    IN IF loaded = {} \/ served.age > MaxForecastAge \/ ~served.complete \/ both THEN NoForecast
       ELSE [direction |-> better, probability |-> p(better),
             confidence |-> ForecastConfidence(served.models[better], state)]

-----------------------------------------------------------------------------
\* _vetoes: the spread, toxic flow, a jump, a series without structure, the age of the
\* quote or the pin risk beyond its limit; what was not measured vetoes nothing.
Vetoes(measures) == {m \in DOMAIN measures : measures[m] > VetoLimit[m]}

Reporting(dims) == {d \in DOMAIN dims : dims[d].confidence > 5}

\* The confidence-weighted mean of the scores.
NetScore(dims) ==
    LET part   == [d \in Reporting(dims) |-> DimensionWeight[d] * dims[d].confidence]
        weight == SumFunction(part)
        sum    == SumFunction([d \in Reporting(dims) |-> part[d] * dims[d].score])
    IN IF weight = 0 THEN 0
       ELSE IF sum < 0 THEN -((100 * (-sum)) \div weight) ELSE (100 * sum) \div weight

Directional(dims) == {d \in Reporting(dims) : Size(dims[d].score) > 10}
AgreeingDimensions(dims) == {d \in Directional(dims) : dims[d].score * NetScore(dims) > 0}

\* The net score, scaled by the agreement, by how much of the analysis reported and on
\* how much data, and by the conflict; three fifths of it when too little reported.
Conviction(dims) ==
    LET reporting == Cardinality(Reporting(dims))
        agreeing  == Cardinality(AgreeingDimensions(dims))
        conflict  == Cardinality(Directional(dims)) - agreeing
        of(n)     == IF agreeing + conflict = 0 THEN 0 ELSE (100 * n) \div (agreeing + conflict)
        coverage  == (100 * reporting) \div Cardinality(DOMAIN dims)
        quality   == SumFunction([d \in Reporting(dims) |-> dims[d].confidence]) \div reporting
    IN IF reporting = 0 THEN 0
       ELSE Pct(Pct(Pct(Pct(Pct(Size(NetScore(dims)),
                  40 + Pct(60, of(agreeing))),
                  50 + coverage \div 2),
                  50 + quality \div 2),
                  Between0And(100 - Pct(ConflictPenalty, of(conflict)), 100)),
                  IF reporting < MinDimensions THEN 60 ELSE 100)

\* ConfluenceEngine.combine.
Report(measured) ==
    LET vetoed == Vetoes(measured.measures) # {} IN
    [vetoed |-> vetoed, net |-> NetScore(measured.dims),
     conviction |-> IF vetoed THEN 0 ELSE Conviction(measured.dims)]

Bias(report) ==
    IF report.vetoed THEN 0
    ELSE IF report.net > 1200 THEN Long ELSE IF report.net < -1200 THEN Short ELSE 0

\* supports: nothing for a direction the analysis opposes.
Supports(report, d) ==
    IF report.vetoed \/ d * report.net <= 0 THEN 0
    ELSE (AtMost(d * report.net, 10000) * report.conviction) \div 10000

=============================================================================
