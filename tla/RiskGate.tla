----------------------------- MODULE RiskGate -----------------------------
(***************************************************************************)
(* The entry gate of one trading process across its cycles and restarts:   *)
(* orchestrator.run_cycle marks the equity, manages the open positions,    *)
(* asks _entry_blocked and then enters what RiskEngine.evaluate approves.  *)
(* The drawdown ladder is DrawdownProtection; its state dies with the      *)
(* process.  The GLOBAL kill switch is on disk and survives.               *)
(***************************************************************************)
EXTENDS DrawdownProtection

CONSTANTS
    MaxOpenPositions,  \* max_open_positions
    MaxDropped         \* bound: positions reconciliation drops in a session

ASSUME MaxOpenAssumption == MaxOpenPositions \in Nat \ {0} /\ MaxDropped \in Nat

VARIABLES
    pc,             \* where the process is in its cycle; "down" when not running
    killed,         \* the GLOBAL kill switch, persisted
    open,           \* positions open at the broker and tracked
    adopted,        \* how many of them were adopted at the start
    toManage,       \* positions this cycle has yet to look at
    sessionEntries, \* history: entries since the session started
    dropped,        \* history: positions dropped in the session without an exit
    breached        \* history: a reading reached level 4 and no operator has resumed since

gateVars == <<pc, killed, open, adopted, toManage, sessionEntries, dropped, breached>>
vars == <<ladderVars, gateVars>>

-----------------------------------------------------------------------------
Init ==
    /\ LadderInit
    /\ pc = "down" /\ killed = FALSE
    /\ open \in 0..MaxOpenPositions /\ adopted = 0 /\ toManage = 0
    /\ sessionEntries = 0 /\ dropped = 0 /\ breached = FALSE

\* start(): refuses while GLOBAL is engaged; a new process has a new ladder, and
\* adopts the positions reconciliation finds, or fails to.
Start(e) ==
    /\ pc = "down" /\ ~killed
    /\ pc' = "idle"
    /\ level' = NORMAL /\ losses' = 0 /\ tradesToday' = 0 /\ cooldown' = 0
    /\ peak' = e /\ equity' = e /\ dayStart' = e /\ dailyPnl' = 0
    /\ open' \in {0, open} /\ adopted' = open'
    /\ sessionEntries' = 0 /\ dropped' = 0
    /\ UNCHANGED <<killed, toManage, breached>>

\* The first cycle of a new day (the session rollover of run_cycle).
Rollover(e) ==
    /\ pc = "idle"
    /\ StartSession(e)
    /\ sessionEntries' = 0 /\ dropped' = 0
    /\ UNCHANGED <<pc, killed, open, adopted, toManage, breached>>

\* _reconcile_positions drops a position the broker no longer holds: closed by the
\* operator, or an exit whose fill the loop did not see.  It counts as no trade.
DropPosition ==
    /\ pc = "idle" /\ open > 0 /\ dropped < MaxDropped
    /\ open' = open - 1
    /\ adopted' \in {adopted, adopted - 1} \intersect 0..open'
    /\ dropped' = dropped + 1
    /\ UNCHANGED <<ladderVars, pc, killed, toManage, sessionEntries, breached>>

\* Mutant: level 4 stays in the memory of the ladder.
MarkWithoutKill(e) ==
    /\ pc = "idle"
    /\ UpdateEquity(e)
    /\ breached' = (breached \/ DrawdownAtLeast(Level4Pct, peak', e))
    /\ pc' = "managing" /\ toManage' = open - adopted
    /\ UNCHANGED <<killed, open, adopted, sessionEntries, dropped>>

\* _refresh_equity and RiskEngine.on_equity_update: level 4 engages GLOBAL.
Mark(e) ==
    /\ pc = "idle"
    /\ UpdateEquity(e)
    /\ killed' = (killed \/ level' = SHUTDOWN)
    /\ breached' = (breached \/ DrawdownAtLeast(Level4Pct, peak', e))
    /\ pc' = "managing" /\ toManage' = open - adopted
    /\ UNCHANGED <<open, adopted, sessionEntries, dropped>>

\* _exit of _manage_positions: a filled exit, whole or partial, is recorded as a
\* trade (on_trade_closed); only a whole one untracks the position.  Each position
\* is looked at once a cycle, and the exits of an emergency are whole.  That of an
\* adopted position raises before it is recorded (CycleFails).
CloseTrade(won, whole) ==
    /\ pc = "managing" /\ toManage > 0
    /\ whole \/ ~killed
    /\ toManage' = toManage - 1
    /\ IF won THEN RecordWin ELSE RecordLoss
    /\ open' = IF whole THEN open - 1 ELSE open
    /\ UNCHANGED <<pc, killed, adopted, sessionEntries, dropped, breached>>

\* _entry_blocked, once every position has been looked at.
Gate ==
    /\ pc = "managing"
    /\ toManage' = 0
    /\ pc' = IF CanTrade /\ ~killed /\ open < MaxOpenPositions THEN "entering" ELSE "idle"
    /\ UNCHANGED <<ladderVars, killed, open, adopted, sessionEntries, dropped, breached>>

\* The controls of RiskEngine.evaluate this state decides.  seen is the number of
\* positions the broker reports: none when get_positions fails.
RiskControls(seen) ==
    /\ ~killed
    /\ CanTrade
    /\ ~DailyLossAtLeast(MaxDailyLossPct, dayStart, dailyPnl)
    /\ losses < MaxConsecutiveLosses
    /\ seen < MaxOpenPositions

\* Mutant: the loop over the opportunities leaves the limit to the risk gate.
EnterUncapped ==
    /\ pc = "entering"
    /\ \E seen \in {0, open} : RiskControls(seen)
    /\ open' = open + 1
    /\ sessionEntries' = sessionEntries + 1
    /\ UNCHANGED <<ladderVars, pc, killed, adopted, toManage, dropped, breached>>

\* _enter: an opportunity that passes is executed and filled; the loop of
\* run_cycle stops at max_open_positions.
Enter ==
    /\ pc = "entering"
    /\ open < MaxOpenPositions
    /\ \E seen \in {0, open} : RiskControls(seen)
    /\ open' = open + 1
    /\ sessionEntries' = sessionEntries + 1
    /\ UNCHANGED <<ladderVars, pc, killed, adopted, toManage, dropped, breached>>

FinishCycle ==
    /\ pc = "entering"
    /\ pc' = "idle"
    /\ UNCHANGED <<ladderVars, killed, open, adopted, toManage, sessionEntries, dropped, breached>>

\* An exception ends the cycle where it is, and the supervisor goes on to the next.
CycleFails ==
    /\ pc \in {"managing", "entering"}
    /\ pc' = "idle" /\ toManage' = 0
    /\ UNCHANGED <<ladderVars, killed, open, adopted, sessionEntries, dropped, breached>>

Minute ==
    /\ pc = "idle"
    /\ PassMinute
    /\ UNCHANGED gateVars

\* The process ends: a shutdown, or a crash at any point of a cycle.
Stop ==
    /\ pc # "down"
    /\ pc' = "down" /\ adopted' = 0 /\ toManage' = 0
    /\ UNCHANGED <<ladderVars, killed, open, sessionEntries, dropped, breached>>

\* `aqtp resume --scope global`, `aqtp kill --scope global` between two runs.
OperatorResume ==
    /\ pc = "down" /\ killed
    /\ killed' = FALSE /\ breached' = FALSE
    /\ UNCHANGED <<ladderVars, pc, open, adopted, toManage, sessionEntries, dropped>>

OperatorKill ==
    /\ pc = "down" /\ ~killed
    /\ killed' = TRUE
    /\ UNCHANGED <<ladderVars, pc, open, adopted, toManage, sessionEntries, dropped, breached>>

Next ==
    \/ \E e \in Equities : Start(e)
    \/ \E e \in Equities : Rollover(e)
    \/ DropPosition
    \/ \E e \in Equities : Mark(e)
    \/ \E won, whole \in BOOLEAN : CloseTrade(won, whole)
    \/ Gate
    \/ Enter
    \/ FinishCycle
    \/ CycleFails
    \/ Minute
    \/ Stop
    \/ OperatorResume
    \/ OperatorKill

Spec == Init /\ [][Next]_vars

-----------------------------------------------------------------------------
TypeOK ==
    /\ LadderTypeOK
    /\ pc \in {"down", "idle", "managing", "entering"}
    /\ killed \in BOOLEAN /\ breached \in BOOLEAN
    /\ open \in 0..MaxOpenPositions
    /\ adopted \in Nat /\ toManage \in Nat /\ adopted + toManage <= open
    /\ sessionEntries \in Nat /\ dropped \in Nat

NewPosition == open' > open

\* Once a reading of the equity has reached level 4, no entry is made until an
\* operator resumes -- not after a restart, which forgets the ladder, nor after a
\* losing exit, which moves the ladder from SHUTDOWN to PAUSED.
NoEntryAfterLevel4 == [][NewPosition => ~breached]_vars

\* An entry is made only at a drawdown under level 3 and a loss of the day under
\* its limit, and at half size once the drawdown is at level 2, whatever the
\* exits of the same cycle and the rollover did to the level in between.
EntryRespectsLadder ==
    [][NewPosition =>
          /\ ~DrawdownAtLeast(Level3Pct, peak, equity)
          /\ ~DailyLossAtLeast(MaxDailyLossPct, dayStart, dailyPnl)
          /\ DrawdownAtLeast(Level2Pct, peak, equity) => level = REDUCED]_vars

\* In a running process risk comes back only with a new session, or once the
\* drawdown is under 80% of the threshold of the level it leaves -- but for the
\* losing exit that moves SHUTDOWN to PAUSED while the GLOBAL switch is engaged.
GateEasesAfterRecovery ==
    [][level' < level =>
          \/ \E e \in Equities : Start(e) \/ Rollover(e)
          \/ ClearedBuffer(level, peak', equity')
          \/ level = SHUTDOWN /\ level' = PAUSED /\ killed]_vars

\* max_trades_per_day counts exits, not entries, and not the positions that
\* reconciliation drops; what it does bound is the entries of a session: the
\* limit plus the positions still open and those dropped.
EntriesBounded == sessionEntries <= MaxTradesPerDay + MaxOpenPositions - 1 + dropped

=============================================================================
