--------------------------- MODULE StrategyHealth ---------------------------
(***************************************************************************)
(* strategies/health.py for one strategy: every closed trade of it is an   *)
(* outcome, the mean of the last ones moves the state, and the state gates *)
(* its entries.  Trades already open when a strategy is paused go on and   *)
(* close later.  R multiples are in hundredths.                            *)
(***************************************************************************)
EXTENDS Integers, Sequences, SequencesExt

CONSTANTS
    Outcomes,       \* R multiples a trade may close with
    Lookback,       \* lookback_trades
    MinTrades,      \* min_trades_for_judgement
    ReduceBelow, PauseBelow, DisableBelow,
    PauseFor,       \* pause_duration
    LastMinute,     \* bound: the time the model runs for
    MaxRunning      \* bound: open trades of the strategy

\* StrategyHealthConfig: the worse the expectancy, the harder the consequence.
StrategyHealthConfig ==
    /\ {Lookback, MinTrades, PauseFor} \subseteq Nat \ {0}
    /\ {ReduceBelow, PauseBelow, DisableBelow} \subseteq Int
    /\ DisableBelow < PauseBelow /\ PauseBelow < ReduceBelow

ASSUME HealthAssumption ==
    StrategyHealthConfig /\ Outcomes \subseteq Int /\ MaxRunning \in Nat \ {0} /\ LastMinute \in Nat

VARIABLES
    minute,      \* now
    results,     \* the last Lookback outcomes
    state,       \* StrategyState
    pausedUntil, \* or NoPause
    running,     \* open trades of the strategy
    sentence     \* history: what the last judgement owes, see Sentence

healthVars == <<minute, results, state, pausedUntil, running, sentence>>

States == {"ACTIVE", "REDUCED", "PAUSED", "DISABLED"}
NoPause == -1

\* until: a paused strategy owes its pause; barred: a disabled one owes a manual
\* reset; leftover: the pause it was serving when it was disabled is still noted.
Free == [until |-> NoPause, barred |-> FALSE, leftover |-> FALSE]

Latest(outcomes) ==
    SubSeq(outcomes, IF Len(outcomes) > Lookback THEN Len(outcomes) - Lookback + 1 ELSE 1,
           Len(outcomes))
TotalOf(outcomes) == FoldSeq(+, 0, outcomes)
\* expectancy_r <= threshold, without the division
AtOrBelow(outcomes, threshold) == TotalOf(outcomes) <= threshold * Len(outcomes)
Magnitude(n) == IF n < 0 THEN -n ELSE n

\* The bar a strategy that is not ACTIVE has to clear: half the reduce threshold.
Recovered(outcomes) == 2 * TotalOf(outcomes) >= Magnitude(ReduceBelow) * Len(outcomes)

\* _transition: the state and the pause after the judgement of outcomes.
Judged(outcomes) ==
    IF AtOrBelow(outcomes, DisableBelow) THEN [state |-> "DISABLED", pause |-> pausedUntil]
    ELSE IF AtOrBelow(outcomes, PauseBelow)
      THEN [state |-> "PAUSED", pause |-> minute + PauseFor]
    ELSE IF AtOrBelow(outcomes, ReduceBelow) THEN [state |-> "REDUCED", pause |-> pausedUntil]
    ELSE IF state = "ACTIVE" \/ Recovered(outcomes)
      THEN [state |-> "ACTIVE", pause |-> NoPause]
    ELSE [state |-> state, pause |-> pausedUntil]

\* Mutant: every judgement moves the state, also of a disabled strategy.
TransitionAnyway(outcomes) ==
    IF Len(outcomes) < MinTrades
      THEN [state |-> state, pause |-> pausedUntil] ELSE Judged(outcomes)

Transition(outcomes) ==
    IF state = "DISABLED" \/ Len(outcomes) < MinTrades
      THEN [state |-> state, pause |-> pausedUntil] ELSE Judged(outcomes)

\* What the judgement of outcomes sentences the strategy to.
Sentence(outcomes) ==
    IF sentence.barred \/ Len(outcomes) < MinTrades THEN sentence
    ELSE IF AtOrBelow(outcomes, DisableBelow)
      THEN [sentence EXCEPT !.barred = TRUE, !.leftover = pausedUntil # NoPause]
    ELSE IF AtOrBelow(outcomes, PauseBelow) THEN [Free EXCEPT !.until = minute + PauseFor]
    ELSE IF AtOrBelow(outcomes, ReduceBelow) \/ ~Recovered(outcomes) THEN sentence
    ELSE Free

\* can_trade: a pause that is over leaves the strategy REDUCED, whatever it was.
Expired == pausedUntil # NoPause /\ minute >= pausedUntil
Asked == IF Expired THEN [state |-> "REDUCED", pause |-> NoPause]
         ELSE [state |-> state, pause |-> pausedUntil]
CanTrade ==
    /\ pausedUntil # NoPause => minute >= pausedUntil
    /\ Asked.state \in {"ACTIVE", "REDUCED"}

-----------------------------------------------------------------------------
HealthInit ==
    /\ minute = 0 /\ results = <<>> /\ state = "ACTIVE" /\ pausedUntil = NoPause
    /\ running = 0 /\ sentence = Free

MinutePasses ==
    /\ minute < LastMinute
    /\ minute' = minute + 1
    /\ UNCHANGED <<results, state, pausedUntil, running, sentence>>

\* The loop asks the monitor and enters, or skips the strategy.
Ask ==
    /\ state' = Asked.state /\ pausedUntil' = Asked.pause
    /\ IF CanTrade /\ running < MaxRunning THEN running' \in {running, running + 1}
       ELSE UNCHANGED running
    /\ UNCHANGED <<minute, results, sentence>>

\* record, when a trade of the strategy has closed.
Record(r) ==
    LET outcomes == Latest(Append(results, r)) IN
    /\ running > 0
    /\ running' = running - 1
    /\ results' = outcomes
    /\ state' = Transition(outcomes).state
    /\ pausedUntil' = Transition(outcomes).pause
    /\ sentence' = Sentence(outcomes)
    /\ UNCHANGED minute

\* reset, by the operator: the strategy starts over.
Reset ==
    /\ results' = <<>> /\ state' = "ACTIVE" /\ pausedUntil' = NoPause /\ sentence' = Free
    /\ UNCHANGED <<minute, running>>

HealthNext == MinutePasses \/ Ask \/ Reset \/ \E r \in Outcomes : Record(r)

HealthSpec == HealthInit /\ [][HealthNext]_healthVars

-----------------------------------------------------------------------------
HealthTypeOK ==
    /\ minute \in 0..LastMinute /\ results \in BoundedSeq(Outcomes, Lookback)
    /\ state \in States /\ running \in 0..MaxRunning
    /\ pausedUntil \in {NoPause} \union 0..(LastMinute + PauseFor)
    /\ sentence \in [until : {NoPause} \union 0..(LastMinute + PauseFor),
                     barred : BOOLEAN, leftover : BOOLEAN]

\* A strategy enters only after it has served what the judgement of its trades owes:
\* a pause until its end, a disablement until a reset.  The exception is a strategy
\* that was disabled by a trade that closed during its pause: the end of the pause
\* re-enables it.
SentencesAreServed ==
    [][running' > running =>
          /\ sentence.until <= minute
          /\ ~sentence.barred \/ sentence.leftover]_healthVars

=============================================================================
