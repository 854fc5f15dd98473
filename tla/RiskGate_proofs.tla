-------------------------- MODULE RiskGate_proofs --------------------------
(***************************************************************************)
(* Proofs about the drawdown ladder and the entry gate, for every account, *)
(* every threshold and every limit.                                        *)
(***************************************************************************)
EXTENDS RiskGate, TLAPS

USE RiskConfigAssumption, MaxOpenAssumption

-----------------------------------------------------------------------------
(* The ladder's operators *)

\* The larger of two naturals is a natural at least as large as both.
LEMMA HigherOfNat ==
    ASSUME NEW a \in Nat, NEW b \in Nat
    PROVE  HigherOf(a, b) \in Nat /\ HigherOf(a, b) >= a /\ HigherOf(a, b) >= b
BY DEF HigherOf

\* The ladder asks for one of the four levels.
LEMMA TargetIsLevel ==
    ASSUME NEW pk, NEW eq, NEW ds, NEW pnl
    PROVE  Target(pk, eq, ds, pnl) \in Levels
BY DEF Target, HigherOf, Levels, NORMAL, REDUCED, PAUSED, SHUTDOWN

\* The ratchet returns a level no milder than the target.
LEMMA LadderReachesTarget ==
    ASSUME NEW lv \in Levels, NEW target \in Levels, NEW pk, NEW eq
    PROVE  /\ ApplyLadder(lv, target, pk, eq) \in Levels
           /\ ApplyLadder(lv, target, pk, eq) >= target
BY DEF ApplyLadder, Levels, NORMAL, REDUCED, PAUSED, SHUTDOWN

\* It only comes down from a level whose buffer has been cleared.
LEMMA LadderEasesPastBuffer ==
    ASSUME NEW lv \in Levels, NEW target \in Levels, NEW pk, NEW eq,
           ApplyLadder(lv, target, pk, eq) < lv
    PROVE  ClearedBuffer(lv, pk, eq)
BY DEF ApplyLadder, Levels, NORMAL, REDUCED, PAUSED, SHUTDOWN

\* A drawdown of level 4 asks for SHUTDOWN.
LEMMA Level4AsksShutdown ==
    ASSUME NEW pk, NEW eq, NEW ds, NEW pnl, DrawdownAtLeast(Level4Pct, pk, eq)
    PROVE  Target(pk, eq, ds, pnl) = SHUTDOWN
BY DEF Target, HigherOf, NORMAL, REDUCED, PAUSED, SHUTDOWN

-----------------------------------------------------------------------------
(* The ladder on its own *)

\* Every operation of DrawdownProtection keeps the types and the high-water mark.
LEMMA LadderTypeStep == LadderTypeOK /\ [LadderNext]_ladderVars => LadderTypeOK'
<1> SUFFICES ASSUME LadderTypeOK, [LadderNext]_ladderVars
             PROVE  LadderTypeOK'
    OBVIOUS
<1> USE DEF LadderTypeOK
<1>1. ASSUME NEW e \in Equities, StartSession(e) PROVE LadderTypeOK'
    BY <1>1, HigherOfNat DEF StartSession, Levels, NORMAL, REDUCED, PAUSED, SHUTDOWN
<1>2. ASSUME NEW e \in Equities, UpdateEquity(e) PROVE LadderTypeOK'
    <2>1. e \in Nat /\ peak' \in Nat /\ peak' >= peak /\ peak' >= e
        BY <1>2, HigherOfNat DEF UpdateEquity
    <2>2. level' \in Levels
        BY <1>2, TargetIsLevel, LadderReachesTarget DEF UpdateEquity
    <2> QED BY <1>2, <2>1, <2>2 DEF UpdateEquity
<1>3. CASE RecordWin BY <1>3 DEF RecordWin
<1>4. CASE RecordLoss
    BY <1>4 DEF RecordLoss, Levels, NORMAL, PAUSED, SHUTDOWN
<1>5. CASE EmergencyShutdown
    BY <1>5 DEF EmergencyShutdown, Levels, NORMAL, SHUTDOWN
<1>6. CASE ResetShutdown
    BY <1>6 DEF ResetShutdown, Levels, NORMAL, SHUTDOWN
<1>7. CASE PassMinute BY <1>7 DEF PassMinute
<1>8. CASE UNCHANGED ladderVars BY <1>8 DEF ladderVars
<1> QED BY <1>1, <1>2, <1>3, <1>4, <1>5, <1>6, <1>7, <1>8 DEF LadderNext

\* Type correctness of the ladder (risk/drawdown.py).
THEOREM LadderTypeCorrect == LadderSpec => []LadderTypeOK
<1>1. LadderInit => LadderTypeOK
    BY DEF LadderInit, LadderTypeOK, Levels, NORMAL, SHUTDOWN
<1> QED BY <1>1, LadderTypeStep, PTL DEF LadderSpec

\* update_equity never leaves the ladder milder than the loss it has just read.
THEOREM LadderCoversEveryLoss == LadderSpec => LadderCoversLoss
<1>1. LadderTypeOK /\ [LadderNext]_ladderVars
        => [\A e \in Equities :
               UpdateEquity(e)
                 => level' >= Target(peak', equity', dayStart', dailyPnl')]_ladderVars
    <2> SUFFICES ASSUME LadderTypeOK, NEW e \in Equities, UpdateEquity(e)
                 PROVE  level' >= Target(peak', equity', dayStart', dailyPnl')
        OBVIOUS
    <2> QED BY TargetIsLevel, LadderReachesTarget DEF UpdateEquity, LadderTypeOK
<1> QED BY <1>1, LadderTypeCorrect, PTL DEF LadderSpec, LadderCoversLoss

\* Within a session, risk comes back only once the drawdown has cleared the buffer.
THEOREM EasingOnlyAfterRecovery == LadderSpec => EasingNeedsRecovery
<1> DEFINE Eased == level \in {REDUCED, PAUSED} /\ level' < level
           Recovered == \/ ClearedBuffer(level, peak', equity')
                        \/ \E e \in Equities : StartSession(e)
<1>1. LadderTypeOK /\ [LadderNext]_ladderVars => [Eased => Recovered]_ladderVars
    <2> SUFFICES ASSUME LadderTypeOK, LadderNext, Eased
                 PROVE  Recovered
        OBVIOUS
    <2>1. ASSUME NEW e \in Equities, UpdateEquity(e) PROVE Recovered
        BY <2>1, TargetIsLevel, LadderEasesPastBuffer DEF UpdateEquity, LadderTypeOK
    <2>2. CASE RecordWin BY <2>2 DEF RecordWin, LadderTypeOK, Levels
    <2>3. CASE RecordLoss
        BY <2>3 DEF RecordLoss, LadderTypeOK, Levels, NORMAL, REDUCED, PAUSED, SHUTDOWN
    <2>4. CASE EmergencyShutdown
        BY <2>4 DEF EmergencyShutdown, REDUCED, PAUSED, SHUTDOWN
    <2>5. CASE ResetShutdown BY <2>5 DEF ResetShutdown, REDUCED, PAUSED, SHUTDOWN
    <2>6. CASE PassMinute BY <2>6 DEF PassMinute, LadderTypeOK, Levels
    <2> QED BY <2>1, <2>2, <2>3, <2>4, <2>5, <2>6 DEF LadderNext
<1> QED BY <1>1, LadderTypeCorrect, PTL DEF LadderSpec, EasingNeedsRecovery

-----------------------------------------------------------------------------
(* The gate *)

\* Why the gate is safe: the persisted switch remembers level 4, an engine in
\* SHUTDOWN has engaged it, the level the cycle works with covers the loss last
\* read (or blocks entries anyway), and entries of the session are positions
\* still open, exits counted or positions dropped.
GateInv ==
    /\ TypeOK
    /\ pc # "managing" => toManage = 0
    /\ breached => killed
    /\ level = SHUTDOWN /\ pc # "down" => killed
    /\ pc \in {"managing", "entering"} =>
          \/ level >= Target(peak, equity, dayStart, dailyPnl)
          \/ level >= PAUSED
    /\ pc = "entering" => ~killed
    /\ sessionEntries <= open + tradesToday + dropped
    /\ EntriesBounded

LEMMA GateInit == Init => GateInv
<1> SUFFICES ASSUME Init PROVE GateInv
    OBVIOUS
<1>1. LadderTypeOK
    BY DEF Init, LadderInit, LadderTypeOK, Levels, NORMAL, SHUTDOWN
<1>2. TypeOK
    <2>1. killed \in BOOLEAN /\ breached \in BOOLEAN
        BY DEF Init
    <2>2. /\ open \in 0..MaxOpenPositions /\ adopted \in Nat
          /\ toManage \in Nat /\ adopted + toManage <= open /\ sessionEntries \in Nat /\ dropped \in Nat
        BY DEF Init
    <2> QED BY <1>1, <2>1, <2>2 DEF Init, TypeOK
<1>3. breached => killed
    BY DEF Init
<1>4. tradesToday = 0 /\ sessionEntries = 0 /\ toManage = 0 /\ pc = "down"
    BY DEF Init, LadderInit
<1> QED BY <1>2, <1>3, <1>4 DEF GateInv, TypeOK, EntriesBounded

LEMMA GateStep == GateInv /\ [Next]_vars => GateInv'
<1> SUFFICES ASSUME GateInv, [Next]_vars
             PROVE  GateInv'
    OBVIOUS
<1> USE DEF GateInv, TypeOK, EntriesBounded
<1>1. ASSUME NEW e \in Equities, Start(e) PROVE GateInv'
    <2>1. PICK n \in {0, open} : open' = n /\ adopted' = n
        BY <1>1 DEF Start
    <2>2. n \in 0..MaxOpenPositions /\ n \in Nat
        OBVIOUS
    <2>3. /\ toManage' = 0 /\ sessionEntries' = 0 /\ dropped' = 0 /\ tradesToday' = 0
          /\ pc' = "idle" /\ level' = NORMAL
        BY <1>1 DEF Start
    <2>4. LadderTypeOK'
        BY <1>1 DEF Start, LadderTypeOK, Levels, NORMAL, SHUTDOWN
    <2>5. UNCHANGED <<killed, breached>> /\ level' # SHUTDOWN
        BY <1>1, <2>3 DEF Start, NORMAL, SHUTDOWN
    <2>6. TypeOK' /\ EntriesBounded'
        BY <2>1, <2>2, <2>3, <2>4, <2>5
    <2> QED BY <2>1, <2>2, <2>3, <2>5, <2>6
<1>2. ASSUME NEW e \in Equities, Rollover(e) PROVE GateInv'
    <2>1. LadderTypeOK' BY <1>2, LadderTypeStep DEF Rollover, LadderNext
    <2>2. (level' = SHUTDOWN => level = SHUTDOWN) /\ tradesToday' = 0
        BY <1>2 DEF Rollover, StartSession, NORMAL, SHUTDOWN
    <2> QED BY <1>2, <2>1, <2>2 DEF Rollover, LadderTypeOK
<1>3. ASSUME NEW e \in Equities, Mark(e) PROVE GateInv'
    <2>1. LadderTypeOK' BY <1>3, LadderTypeStep DEF Mark, LadderNext
    <2>2. level' >= Target(peak', equity', dayStart', dailyPnl')
        BY <1>3, TargetIsLevel, LadderReachesTarget DEF Mark, UpdateEquity, LadderTypeOK
    <2>3. breached' => killed'
        <3>1. CASE DrawdownAtLeast(Level4Pct, peak', e)
            <4>1. level' >= SHUTDOWN
                BY <1>3, <2>2, <3>1, Level4AsksShutdown DEF Mark, UpdateEquity
            <4> QED BY <1>3, <2>1, <4>1 DEF Mark, LadderTypeOK, Levels, SHUTDOWN, NORMAL
        <3>2. CASE ~DrawdownAtLeast(Level4Pct, peak', e)
            BY <1>3, <3>2 DEF Mark
        <3> QED BY <3>1, <3>2
    <2>4. killed' \in BOOLEAN /\ breached' \in BOOLEAN BY <1>3 DEF Mark
    <2>5. level' = SHUTDOWN => killed' BY <1>3 DEF Mark
    <2> QED BY <1>3, <2>1, <2>2, <2>3, <2>4, <2>5 DEF Mark, UpdateEquity, LadderTypeOK
<1>4. ASSUME NEW won \in BOOLEAN, NEW whole \in BOOLEAN, CloseTrade(won, whole)
      PROVE  GateInv'
    <2>1. LadderTypeOK'
        BY <1>4, LadderTypeStep DEF CloseTrade, LadderNext
    <2>2. /\ UNCHANGED <<peak, equity, dayStart, dailyPnl>>
          /\ level' = level \/ level' = PAUSED
          /\ tradesToday' = tradesToday + 1
        BY <1>4 DEF CloseTrade, RecordWin, RecordLoss
    <2>3. /\ open' \in 0..MaxOpenPositions /\ open' >= open - 1
          /\ adopted' \in Nat /\ toManage' \in Nat /\ adopted' + toManage' <= open'
        BY <1>4 DEF CloseTrade
    <2>4. PAUSED >= PAUSED /\ PAUSED # SHUTDOWN BY DEF PAUSED, SHUTDOWN
    <2>5. level' = SHUTDOWN => killed'
        BY <1>4, <2>2, <2>4 DEF CloseTrade
    <2> QED BY <1>4, <2>1, <2>2, <2>3, <2>4, <2>5 DEF CloseTrade, LadderTypeOK
<1>5. CASE Gate
    BY <1>5 DEF Gate, ladderVars, LadderTypeOK
<1>6. CASE Enter
    BY <1>6 DEF Enter, RiskControls, CanTrade, ladderVars, LadderTypeOK
<1>7. CASE FinishCycle BY <1>7 DEF FinishCycle, ladderVars, LadderTypeOK
<1>8. CASE Minute
    <2>1. LadderTypeOK' BY <1>8, LadderTypeStep DEF Minute, LadderNext
    <2> QED BY <1>8, <2>1 DEF Minute, PassMinute, gateVars, LadderTypeOK
<1>9. CASE Stop BY <1>9 DEF Stop, ladderVars, LadderTypeOK
<1>10. CASE OperatorResume BY <1>10 DEF OperatorResume, ladderVars, LadderTypeOK
<1>11. CASE OperatorKill BY <1>11 DEF OperatorKill, ladderVars, LadderTypeOK
<1>12. CASE DropPosition
    <2>1. PICK n \in {adopted, adopted - 1} : n \in 0..(open - 1) /\ adopted' = n
        BY <1>12 DEF DropPosition
    <2>2. /\ open' = open - 1 /\ open - 1 \in 0..MaxOpenPositions /\ toManage' = 0
          /\ dropped' = dropped + 1 /\ sessionEntries' = sessionEntries /\ pc' = "idle"
        BY <1>12 DEF DropPosition
    <2>3. /\ LadderTypeOK' /\ tradesToday' = tradesToday
          /\ UNCHANGED <<killed, breached, level>>
        BY <1>12 DEF DropPosition, ladderVars, LadderTypeOK
    <2>4. TypeOK'
        BY <2>1, <2>2, <2>3
    <2>5. EntriesBounded' /\ (sessionEntries <= open + tradesToday + dropped)'
        BY <2>2, <2>3 DEF LadderTypeOK
    <2>6. (breached => killed)' /\ (level = SHUTDOWN /\ pc # "down" => killed)'
        BY <1>12, <2>2, <2>3 DEF DropPosition
    <2>7. pc' \notin {"managing", "entering"} /\ toManage' = 0
        BY <2>2
    <2> QED BY <2>4, <2>5, <2>6, <2>7
<1>13. CASE CycleFails BY <1>13 DEF CycleFails, ladderVars, LadderTypeOK
<1>14. CASE UNCHANGED vars BY <1>14 DEF vars, gateVars, ladderVars, LadderTypeOK
<1> QED BY <1>1, <1>2, <1>3, <1>4, <1>5, <1>6, <1>7, <1>8, <1>9, <1>10, <1>11, <1>12, <1>13,
        <1>14
        DEF Next

\* The inductive invariant holds in every reachable state.
THEOREM GateInvariant == Spec => []GateInv
BY GateInit, GateStep, PTL DEF Spec

\* Type correctness of the gate (orchestrator.run_cycle, RiskEngine).
THEOREM TypeCorrect == Spec => []TypeOK
<1>1. GateInv => TypeOK BY DEF GateInv
<1> QED BY <1>1, GateInvariant, PTL

\* max_trades_per_day and max_open_positions together bound a session's entries.
THEOREM SessionEntriesBounded == Spec => []EntriesBounded
<1>1. GateInv => EntriesBounded BY DEF GateInv
<1> QED BY <1>1, GateInvariant, PTL

\* Of the steps of the gate only Enter opens a position.
LEMMA OnlyEnterOpens ==
    ASSUME TypeOK, Next, NewPosition
    PROVE  Enter
BY DEF TypeOK, NewPosition, Next, Start, Rollover, DropPosition, Mark, CloseTrade, Gate,
       FinishCycle, CycleFails, Minute, Stop, OperatorResume, OperatorKill, gateVars

\* After level 4 no entry is made before an operator resumes.
THEOREM Level4StopsEntries == Spec => NoEntryAfterLevel4
<1>1. GateInv /\ [Next]_vars => [NewPosition => ~breached]_vars
    <2> SUFFICES ASSUME GateInv, Next, NewPosition
                 PROVE  ~breached
        OBVIOUS
    <2> QED BY OnlyEnterOpens DEF GateInv, Enter
<1> QED BY <1>1, GateInvariant, PTL DEF Spec, NoEntryAfterLevel4

\* In a running process risk comes back only with a new session or past the buffer.
THEOREM GateEasingRecovered == Spec => GateEasesAfterRecovery
<1> DEFINE Recovered == \/ \E e \in Equities : Start(e) \/ Rollover(e)
                        \/ ClearedBuffer(level, peak', equity')
                        \/ level = SHUTDOWN /\ level' = PAUSED /\ killed
<1>1. GateInv /\ [Next]_vars => [level' < level => Recovered]_vars
    <2> SUFFICES ASSUME GateInv, Next, level' < level
                 PROVE  Recovered
        OBVIOUS
    <2> USE DEF GateInv, TypeOK, LadderTypeOK
    <2>1. ASSUME NEW e \in Equities, Start(e) \/ Rollover(e) PROVE Recovered
        BY <2>1
    <2>2. ASSUME NEW e \in Equities, Mark(e) PROVE Recovered
        BY <2>2, TargetIsLevel, LadderEasesPastBuffer DEF Mark, UpdateEquity
    <2>3. ASSUME NEW won \in BOOLEAN, NEW whole \in BOOLEAN, CloseTrade(won, whole)
          PROVE  Recovered
        <3>1. level' = PAUSED /\ pc = "managing"
            BY <2>3 DEF CloseTrade, RecordWin, RecordLoss, Levels
        <3>2. level = SHUTDOWN
            BY <3>1 DEF Levels, NORMAL, PAUSED, SHUTDOWN
        <3> QED BY <3>1, <3>2
    <2>4. level' = level => FALSE
        BY DEF Levels
    <2>5. CASE \/ DropPosition \/ Gate \/ Enter \/ FinishCycle \/ CycleFails \/ Stop
               \/ OperatorResume \/ OperatorKill
        BY <2>4, <2>5 DEF DropPosition, Gate, Enter, FinishCycle, CycleFails, Stop, OperatorResume, OperatorKill, ladderVars
    <2>6. CASE Minute
        BY <2>4, <2>6 DEF Minute, PassMinute
    <2> QED BY <2>1, <2>2, <2>3, <2>5, <2>6 DEF Next
<1> QED BY <1>1, GateInvariant, PTL DEF Spec, GateEasesAfterRecovery

\* Entries respect the drawdown and the daily loss the process last read.
THEOREM EntriesRespectLadder == Spec => EntryRespectsLadder
<1> DEFINE WithinLimits ==
               /\ ~DrawdownAtLeast(Level3Pct, peak, equity)
               /\ ~DailyLossAtLeast(MaxDailyLossPct, dayStart, dailyPnl)
               /\ DrawdownAtLeast(Level2Pct, peak, equity) => level = REDUCED
<1>1. GateInv /\ [Next]_vars => [NewPosition => WithinLimits]_vars
    <2> SUFFICES ASSUME GateInv, Next, NewPosition
                 PROVE  WithinLimits
        OBVIOUS
    <2>1. Enter BY OnlyEnterOpens DEF GateInv
    <2>2. /\ level \in {NORMAL, REDUCED}
          /\ ~DailyLossAtLeast(MaxDailyLossPct, dayStart, dailyPnl)
        BY <2>1 DEF Enter, RiskControls, CanTrade
    <2>3. level >= Target(peak, equity, dayStart, dailyPnl)
        BY <2>1, <2>2 DEF GateInv, Enter, NORMAL, REDUCED, PAUSED
    <2> QED BY <2>2, <2>3 DEF Target, NORMAL, REDUCED, PAUSED, SHUTDOWN
<1> QED BY <1>1, GateInvariant, PTL DEF Spec, EntryRespectsLadder
=============================================================================
