----------------------------- MODULE WalkForward -----------------------------
(***************************************************************************)
(* The evidence a strategy or a model is judged on: ml/dataset.py cuts the *)
(* labelled history into folds, ml/train.py scores every model family on   *)
(* them, and backtest/walkforward.py does the same with replays.  Time is  *)
(* a count; a day has DayLength of it and bars only in its first           *)
(* SessionLength.                                                          *)
(***************************************************************************)
EXTENDS Integers, FiniteSets, FiniteSetsExt

CONSTANTS
    DayLength, SessionLength, Days,  \* bound: the history
    MaxMissing,                      \* bound: bars the history lacks
    Warmup,                          \* bars before the features are defined
    Horizons,                        \* horizon_bars of the label
    Embargoes, Steps,                \* embargo and step_days
    TrainDays, ValidationDays, TestDays,
    Families,                        \* model families, or the source of a backtest
    FoldResults, FoldTrades,         \* what one fold may score, and trade
    MinWindows, MinReplayTrades            \* of a backtest's verdict

\* ModelConfig: an embargo of 0 is accepted, a window of no days is not.
ModelConfig ==
    /\ {TrainDays, ValidationDays, TestDays} \union Steps \subseteq Nat \ {0}
    /\ Embargoes \subseteq Nat

ASSUME WalkForwardAssumption ==
    /\ ModelConfig
    /\ {DayLength, SessionLength, Days} \subseteq Nat \ {0} /\ SessionLength < DayLength
    /\ {MaxMissing, Warmup, MinWindows, MinReplayTrades} \subseteq Nat
    /\ Horizons \subseteq Nat \ {0} /\ FoldTrades \subseteq Nat /\ FoldResults \subseteq Int
    /\ IsFiniteSet(Families)

VARIABLES
    method,     \* "training", "replay" or "single" (chronological_split)
    bars,       \* the times the history has a bar at
    horizon, embargo, step,
    cursor,     \* where the next fold begins, or Ended
    fold,       \* the fold the last step cut, or NoFold
    score,      \* of each family, over the folds it completed
    conclusion  \* of the run: the family selected and whether it passed

walkVars == <<method, bars, horizon, embargo, step, cursor, fold, score, conclusion>>

SessionTimes == {t \in 0..(Days * DayLength - 1) : t % DayLength < SessionLength}
BarsBefore(t) == Cardinality({b \in bars : b < t})
First(S) == Min(S)
Final(S) == Max(S)
Ended == -1
NoFold == [train |-> {}, validation |-> {}, test |-> {}]
NoScore == [folds |-> 0, judged |-> 0, profitable |-> 0, total |-> 0, trades |-> 0]
Undecided == [family |-> "none", passed |-> FALSE]

\* triple_barrier_labels, fixed_horizon_labels and build: a sample is a bar with features
\* and a label, and the label looks horizon bars ahead.
Samples == {t \in bars : BarsBefore(t) >= Warmup /\ BarsBefore(t) + horizon < Cardinality(bars)}
Resolution(t) == CHOOSE r \in bars : BarsBefore(r) = BarsBefore(t) + horizon

\* What the folds are cut from: labelled samples, or the bars a replay runs over.
Index == IF method = "replay" THEN bars ELSE Samples

Between(from, to) == {t \in Index : from <= t /\ t < to}

\* Mutant: the test window begins where the validation window ends.
RollingWithoutEmbargo(start) ==
    LET trainEnd == start + TrainDays * DayLength
        validationEnd == trainEnd + embargo + ValidationDays * DayLength
        testEnd == validationEnd + TestDays * DayLength IN
    [train |-> Between(start, trainEnd),
     validation |-> Between(trainEnd + embargo, validationEnd),
     test |-> Between(IF method = "replay" THEN trainEnd ELSE validationEnd, testEnd),
     ends |-> testEnd]

\* walk_forward_splits, and run of the replays, which have no validation window.
Rolling(start) ==
    LET trainEnd == start + TrainDays * DayLength
        validationStart == trainEnd + embargo
        validationEnd == validationStart + ValidationDays * DayLength
        testStart == IF method = "replay" THEN validationStart ELSE validationEnd + embargo
        testEnd == testStart + TestDays * DayLength IN
    [train |-> Between(start, trainEnd),
     validation |-> IF method = "replay" THEN {} ELSE Between(validationStart, validationEnd),
     test |-> Between(testStart, testEnd),
     ends |-> testEnd]

\* chronological_split: by rank, six tenths to train on and two to validate.
AtRank(k) == CHOOSE t \in Index : Cardinality({u \in Index : u < t}) = k
Chronological ==
    LET n == Cardinality(Index)
        trainEnd == AtRank(Max({0, (n * 6) \div 10 - 1}))
        validationEnd == AtRank(Max({0, (n * 8) \div 10 - 1})) IN
    [train |-> {t \in Index : t <= trainEnd},
     validation |-> {t \in Index : trainEnd + embargo <= t /\ t <= validationEnd},
     test |-> {t \in Index : validationEnd + embargo <= t}]

\* assert_split_ordering
Apart(earlier, later) ==
    (earlier # {} /\ later # {}) =>
        LET gap == First(later) - Final(earlier) IN gap > 0 /\ gap >= embargo
Ordered(f) ==
    /\ Apart(f.train, f.validation) /\ Apart(f.validation, f.test) /\ Apart(f.train, f.test)

\* add: the fold's result joins those of the family.
Joined(s, result, trades) ==
    [folds |-> s.folds + 1, judged |-> s.judged + 1,
     profitable |-> s.profitable + (IF result > 0 THEN 1 ELSE 0),
     total |-> s.total + result, trades |-> s.trades + trades]

\* _train_fold and _score: a family that cannot be fitted leaves no fold; where the model
\* clears its threshold on no sample of the test, the fold has no expected value.
Trained(s) ==
    {s, [s EXCEPT !.folds = @ + 1]} \union {Joined(s, result, 0) : result \in FoldResults}

\* A window of a replay is closed with its P&L and its trades.
Replayed(s) == {Joined(s, result, trades) : result \in FoldResults, trades \in FoldTrades}

-----------------------------------------------------------------------------
WalkInit ==
    /\ method \in {"training", "replay", "single"}
    /\ \E missing \in SUBSET SessionTimes :
         Cardinality(missing) <= MaxMissing /\ bars = SessionTimes \ missing
    /\ horizon \in Horizons /\ embargo \in Embargoes /\ step \in Steps
    /\ method = "single" => embargo > 0   \* no caller passes 0: it would share the bar at a cut
    /\ cursor = IF Index = {} THEN Ended ELSE First(Index)
    /\ fold = NoFold
    /\ score = [f \in Families |-> NoScore] /\ conclusion = Undecided

\* One turn of the loop: cut the window, score it unless a part is empty or, in training,
\* the ordering is refused or the family cannot be fitted, and roll on.
Cut ==
    LET window == Rolling(cursor)
        usable == window.train # {} /\ window.test # {}
        scored == usable /\ (method = "training" => Ordered(window)) IN
    /\ method # "single" /\ cursor # Ended
    /\ window.ends <= Final(Index)
    /\ cursor' = cursor + step * DayLength
    /\ fold' = IF usable THEN [train |-> window.train, validation |-> window.validation,
                               test |-> window.test] ELSE NoFold
    /\ IF ~scored THEN UNCHANGED score
       ELSE IF method = "training"
         THEN score' \in {s \in [Families -> UNION {Trained(score[f]) : f \in Families}] :
                             \A f \in Families : s[f] \in Trained(score[f])}
         ELSE \E f \in Families : \E s \in Replayed(score[f]) :   \* one report for them all
                score' = [g \in Families |-> s]
    /\ UNCHANGED <<method, bars, horizon, embargo, step, conclusion>>

CutOnce ==
    /\ method = "single" /\ cursor # Ended
    /\ cursor' = Ended
    /\ fold' = Chronological
    /\ UNCHANGED <<method, bars, horizon, embargo, step, score, conclusion>>

\* WalkForwardReport.summary and verdict: over the folds with an expected value, the mean
\* is positive and six tenths are profitable.
Consistent(s) == s.judged > 0 /\ s.total > 0 /\ s.profitable * 10 >= s.judged * 6

\* WalkForwardBacktestReport.verdict asks for enough windows and trades as well.
Conclusive(s) == s.folds >= MinWindows /\ s.trades >= MinReplayTrades

Passes(s) == Consistent(s) /\ (method = "replay" => Conclusive(s))

\* The family with the best mean is the one the run stands for; Python's max keeps the
\* first of them when that one has no mean at all.
BestMean(f) ==
    /\ score[f].folds > 0
    /\ \/ score[f].judged = 0
       \/ \A g \in Families : score[g].judged > 0 =>
            score[g].total * score[f].judged <= score[f].total * score[g].judged

\* In training the model of that family is fitted once more, on the last fold, and a run
\* in which that fails has not passed.
Conclude ==
    /\ method # "single" /\ cursor # Ended /\ Rolling(cursor).ends > Final(Index)
    /\ cursor' = Ended /\ fold' = NoFold
    /\ IF \A f \in Families : score[f].folds = 0 THEN UNCHANGED conclusion
       ELSE \E f \in Families, refitted \in BOOLEAN :
              /\ BestMean(f)
              /\ method = "replay" => refitted
              /\ conclusion' = [family |-> f, passed |-> Passes(score[f]) /\ refitted]
    /\ UNCHANGED <<method, bars, horizon, embargo, step, score>>

WalkNext == Cut \/ CutOnce \/ Conclude

WalkSpec == WalkInit /\ [][WalkNext]_walkVars

-----------------------------------------------------------------------------
WalkTypeOK ==
    /\ method \in {"training", "replay", "single"}
    /\ bars \subseteq SessionTimes /\ cursor \in Int
    /\ UNION {fold.train, fold.validation, fold.test} \subseteq Index
    /\ \A f \in Families : score[f].profitable \in 0..score[f].judged
                           /\ score[f].judged \in 0..score[f].folds
    /\ conclusion.family \in Families \union {"none"} /\ conclusion.passed \in BOOLEAN

\* What a model is tested on, it has not seen: a sample of an earlier part of a fold has
\* its outcome known before the first sample of a later part, whenever the horizon of
\* its label, counted in bars, takes no longer than the embargo, counted in time.  A
\* label that crosses the close of the session takes the night as well, and the
\* embargo of an hour does not keep it out.
NoFoldLeaks ==
    LET resolved(t) == t \in Samples /\ Resolution(t) - t <= embargo
        before(earlier, later) ==
            \A t \in earlier, u \in later : t < u /\ (resolved(t) => Resolution(t) <= u) IN
    /\ before(fold.train, fold.validation)
    /\ before(fold.validation, fold.test)
    /\ before(fold.train, fold.test)

=============================================================================
