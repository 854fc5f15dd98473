----------------------------- MODULE Supervisor -----------------------------
(***************************************************************************)
(* runtime/supervisor.py: the loop that runs the cycles of the             *)
(* orchestrator, the watchdog thread beside it, the reconnection of the    *)
(* broker session, the square-off of the day and the shutdown policy.  Of  *)
(* a cycle the model keeps what the supervisor interferes with: exits, the *)
(* gate, and entries one by one.                                           *)
(***************************************************************************)
EXTENDS Naturals

CONSTANTS
    Configs,      \* the RuntimeConfigs to run under
    MaxOpen,      \* max_open_positions
    MaxErrors,    \* max_consecutive_cycle_errors
    MaxAttempts   \* max_reconnect_attempts

WatchdogActions == {"alert", "halt", "flatten"}
RuntimeConfig == [watchdogAction : WatchdogActions,
                  squareOffOnShutdown : BOOLEAN,
                  autoSquareOff : BOOLEAN]

ASSUME SupervisorAssumption ==
    /\ Configs \subseteq RuntimeConfig
    /\ MaxOpen \in Nat /\ MaxErrors \in Nat \ {0} /\ MaxAttempts \in Nat \ {0}

VARIABLES
    config,       \* self.runtime
    pc,           \* where the loop is
    left,         \* positions to flatten, or opportunities to try, still to come
    entryTime,    \* the cycle's own reading of the clock allows entries
    open,         \* positions tracked
    allowed,      \* orchestrator.trading_allowed
    application,  \* the APPLICATION switch, in memory
    errors,       \* state.consecutive_errors, up to MaxErrors
    attempts,     \* reconnections tried since the session was lost
    stop,         \* self._stop
    watchdog,     \* where the watchdog thread is
    completed,    \* state.last_cycle_at is set
    overdue,      \* the watchdog timeout has passed since last_cycle_at
    hung,         \* a call of the loop does not return
    phase,        \* the time of day
    squaredOff,   \* state.squared_off
    flatToday,    \* history: a square-off has run since the market last opened
    haltedEntries,\* history: entries sent since the watchdog engaged APPLICATION
    flattens      \* history: the shutdown asked for every position to be closed

loopVars == <<pc, left, entryTime>>
book == <<open, allowed>>
session == <<errors, attempts>>
watch == <<watchdog, completed, overdue>>
clock == <<phase, squaredOff, flatToday>>
vars == <<config, loopVars, book, application, session, stop, watch, hung, clock,
          haltedEntries, flattens>>

-----------------------------------------------------------------------------
\* The order _ordered of SessionConfig requires.  "trading": entries allowed;
\* "late": past no_new_entries_after; "squareOff": past square_off_time with the
\* market open.
Phases == {"closed", "trading", "late", "squareOff"}
NextPhase == [closed |-> "trading", trading |-> "late", late |-> "squareOff",
              squareOff |-> "closed"]

CyclePcs == {"cycle", "gate", "entering", "approved"}

Init ==
    /\ config \in Configs
    /\ pc = "top" /\ left = 0 /\ entryTime = FALSE
    /\ open \in 0..MaxOpen /\ allowed \in BOOLEAN /\ application = FALSE
    /\ errors = 0 /\ attempts = 0 /\ stop = FALSE
    /\ watchdog = "watching" /\ completed = FALSE /\ overdue = FALSE /\ hung = FALSE
    /\ phase \in Phases /\ squaredOff = FALSE /\ flatToday = FALSE
    /\ haltedEntries = 0 /\ flattens = FALSE

-----------------------------------------------------------------------------
(* The loop. *)

\* The top of the loop, with the square-off when it is due.
StartCycle ==
    /\ pc = "top" /\ ~stop
    /\ IF config.autoSquareOff /\ ~squaredOff /\ phase = "squareOff"
         THEN pc' = "squaring" /\ left' = open /\ squaredOff' = TRUE /\ flatToday' = TRUE
         ELSE pc' = "cycle" /\ UNCHANGED <<left, squaredOff, flatToday>>
    /\ UNCHANGED <<config, entryTime, book, application, session, stop, watch, hung, phase,
                   haltedEntries, flattens>>

\* flatten: each position in turn; an exit that fails leaves its position open.
Flatten ==
    /\ pc \in {"squaring", "closing"} /\ left > 0
    /\ left' = left - 1
    /\ open' = open \/ open' = open - 1
    /\ UNCHANGED <<config, pc, entryTime, allowed, application, session, stop, watch, hung,
                   clock, haltedEntries, flattens>>

FlattenDone ==
    /\ pc = "squaring" /\ left = 0
    /\ pc' = "cycle"
    /\ UNCHANGED <<config, left, entryTime, book, application, session, stop, watch, hung,
                   clock, haltedEntries, flattens>>

\* run_cycle up to the gate: its own reading of the clock, the periodic
\* reconciliation, which only ever blocks, and the exits.
Manage ==
    /\ pc = "cycle"
    /\ entryTime' = (phase = "trading")
    /\ allowed' = allowed \/ allowed' = FALSE
    /\ open' \in 0..open
    /\ pc' = "gate"
    /\ UNCHANGED <<config, left, application, session, stop, watch, hung, clock,
                   haltedEntries, flattens>>

\* Mutant: the gate leaves the times of the session to the strategies.
GateAtAnyTime ==
    /\ pc = "gate"
    /\ pc' = "entering"
    /\ left' = IF allowed /\ ~application THEN MaxOpen - open ELSE 0
    /\ UNCHANGED <<config, entryTime, book, application, session, stop, watch, hung, clock,
                   haltedEntries, flattens>>

\* _entry_blocked, and the opportunities there is room for.
Gate ==
    /\ pc = "gate"
    /\ pc' = "entering"
    /\ left' = IF allowed /\ ~application /\ entryTime THEN MaxOpen - open ELSE 0
    /\ UNCHANGED <<config, entryTime, book, application, session, stop, watch, hung, clock,
                   haltedEntries, flattens>>

\* Mutant: the risk gate leaves the switches to the gate of the cycle.
EvaluateUnswitched ==
    /\ pc = "entering" /\ left > 0
    /\ left' = left - 1
    /\ pc' \in {"entering", "approved"}
    /\ UNCHANGED <<config, entryTime, book, application, session, stop, watch, hung, clock,
                   haltedEntries, flattens>>

\* RiskEngine.evaluate: refuses, and always under the switch, or approves.
Evaluate ==
    /\ pc = "entering" /\ left > 0
    /\ left' = left - 1
    /\ pc' \in {"entering"} \union (IF application THEN {} ELSE {"approved"})
    /\ UNCHANGED <<config, entryTime, book, application, session, stop, watch, hung, clock,
                   haltedEntries, flattens>>

\* The order is sent: filled, not filled, or unknown, which blocks the entries.
Submit ==
    /\ pc = "approved"
    /\ pc' = "entering"
    /\ \/ open' = open + 1 /\ UNCHANGED allowed
       \/ (allowed' = allowed \/ allowed' = FALSE) /\ UNCHANGED open
    /\ haltedEntries' = IF application THEN haltedEntries + 1 ELSE haltedEntries
    /\ UNCHANGED <<config, left, entryTime, application, session, stop, watch, hung, clock,
                   flattens>>

\* The iteration is over: heartbeat, snapshot, wait.
EndIteration == pc' = "wait" /\ left' = 0 /\ entryTime' = FALSE

CompleteCycle ==
    /\ pc = "entering" /\ left = 0
    /\ EndIteration
    /\ errors' = 0
    /\ completed' = TRUE /\ overdue' = FALSE
    /\ UNCHANGED <<config, book, application, attempts, stop, watchdog, hung, clock,
                   haltedEntries, flattens>>

CountError == errors' = IF errors < MaxErrors THEN errors + 1 ELSE errors

\* Mutant: a failed cycle is forgotten by the next one.
CycleFailsUncounted ==
    /\ pc \in CyclePcs
    /\ EndIteration
    /\ UNCHANGED <<config, book, application, session, stop, watch, hung, clock,
                   haltedEntries, flattens>>

\* An exception that is not a BrokerError.
CycleFails ==
    /\ pc \in CyclePcs
    /\ CountError
    /\ stop' = (stop \/ errors' >= MaxErrors)
    /\ EndIteration
    /\ UNCHANGED <<config, book, application, attempts, watch, hung, clock,
                   haltedEntries, flattens>>

BrokerFails ==
    /\ pc \in CyclePcs
    /\ CountError
    /\ pc' = "reconnect" /\ attempts' = 0
    /\ left' = 0 /\ entryTime' = FALSE
    /\ UNCHANGED <<config, book, application, stop, watch, hung, clock, haltedEntries, flattens>>

-----------------------------------------------------------------------------
(* _reconnect. *)

\* The session is restored; reconciliation drops what is no longer held, and
\* decides about entries.
Reconnected ==
    /\ pc = "reconnect" /\ ~stop
    /\ allowed' \in BOOLEAN /\ open' \in 0..open
    /\ attempts' = 0
    /\ EndIteration
    /\ UNCHANGED <<config, application, errors, stop, watch, hung, clock,
                   haltedEntries, flattens>>

\* Mutant: one attempt more than max_reconnect_attempts.
AttemptFailsOnceMore ==
    /\ pc = "reconnect" /\ ~stop
    /\ IF attempts < MaxAttempts
         THEN attempts' = attempts + 1 /\ UNCHANGED <<loopVars, stop>>
         ELSE attempts' = 0 /\ stop' = TRUE /\ EndIteration
    /\ UNCHANGED <<config, book, application, errors, watch, hung, clock, haltedEntries,
                   flattens>>

AttemptFails ==
    /\ pc = "reconnect" /\ ~stop
    /\ IF attempts + 1 < MaxAttempts
         THEN attempts' = attempts + 1 /\ UNCHANGED <<loopVars, stop>>
         ELSE attempts' = 0 /\ stop' = TRUE /\ EndIteration
    /\ UNCHANGED <<config, book, application, errors, watch, hung, clock, haltedEntries,
                   flattens>>

\* Mutant: the attempts go on through a stop.
ReconnectIgnoresStop ==
    /\ pc = "reconnect" /\ stop
    /\ UNCHANGED vars

\* A stop during the backoff ends the attempts.
ReconnectAborted ==
    /\ pc = "reconnect" /\ stop
    /\ attempts' = 0
    /\ EndIteration
    /\ UNCHANGED <<config, book, application, errors, stop, watch, hung, clock,
                   haltedEntries, flattens>>

Wait ==
    /\ pc = "wait"
    /\ pc' = "top"
    /\ UNCHANGED <<config, left, entryTime, book, application, session, stop, watch, hung,
                   clock, haltedEntries, flattens>>

\* _shutdown: after a stop, or when the heartbeat raises, which nothing catches.
BeginShutdown ==
    /\ (pc = "top" /\ stop) \/ pc = "wait"
    /\ stop' = TRUE
    /\ pc' = "closing"
    /\ left' = IF config.squareOffOnShutdown THEN open ELSE 0
    /\ flattens' = config.squareOffOnShutdown
    /\ UNCHANGED <<config, entryTime, book, application, session, watch, hung, clock,
                   haltedEntries>>

Finish ==
    /\ pc = "closing" /\ left = 0
    /\ pc' = "done"
    /\ UNCHANGED <<config, left, entryTime, book, application, session, stop, watch, hung,
                   clock, haltedEntries, flattens>>

-----------------------------------------------------------------------------
(* The watchdog, a daemon thread: it dies with the loop. *)

\* Mutant: the watchdog looks at the errors of the loop, not at its cycles.
TripOnErrors ==
    /\ watchdog = "watching" /\ ~stop /\ completed /\ overdue /\ errors > 0
    /\ watchdog' = "tripped"
    /\ allowed' = (allowed /\ config.watchdogAction # "halt")
    /\ UNCHANGED <<config, loopVars, open, application, session, stop, completed, overdue,
                   hung, clock, haltedEntries, flattens>>

\* It trips once; before the first completed cycle it does not look.
Trip ==
    /\ watchdog = "watching" /\ ~stop /\ completed /\ overdue
    /\ watchdog' = "tripped"
    /\ allowed' = (allowed /\ config.watchdogAction # "halt")
    /\ UNCHANGED <<config, loopVars, open, application, session, stop, completed, overdue,
                   hung, clock, haltedEntries, flattens>>

\* "alert" has nothing more to do; the others engage APPLICATION ...
Engage ==
    /\ watchdog = "tripped"
    /\ application' = (application \/ config.watchdogAction # "alert")
    /\ watchdog' = "engaged"
    /\ UNCHANGED <<config, loopVars, book, session, stop, completed, overdue, hung, clock,
                   haltedEntries, flattens>>

\* ... and "flatten" asks the loop to stop.  The thread ends.
Leave ==
    /\ watchdog = "engaged"
    /\ stop' = (stop \/ config.watchdogAction = "flatten")
    /\ watchdog' = "gone"
    /\ UNCHANGED <<config, loopVars, book, application, session, completed, overdue, hung,
                   clock, haltedEntries, flattens>>

-----------------------------------------------------------------------------
(* Around the process. *)

\* SIGTERM, SIGINT, or the requested number of cycles.
RequestStop ==
    /\ ~stop
    /\ stop' = TRUE
    /\ UNCHANGED <<config, loopVars, book, application, session, watch, hung, clock,
                   haltedEntries, flattens>>

\* A call to the broker blocks, and may return later or never.
Block ==
    /\ pc \in CyclePcs \union {"squaring", "closing", "reconnect"}
    /\ hung' = ~hung
    /\ UNCHANGED <<config, loopVars, book, application, session, stop, watch, clock,
                   haltedEntries, flattens>>

TimeoutPasses ==
    /\ completed /\ ~overdue
    /\ overdue' = TRUE
    /\ UNCHANGED <<config, loopVars, book, application, session, stop, watchdog, completed,
                   hung, clock, haltedEntries, flattens>>

Tick ==
    /\ phase' = NextPhase[phase]
    /\ flatToday' = (flatToday /\ phase # "closed")
    /\ UNCHANGED <<config, loopVars, book, application, session, stop, watch, hung, squaredOff,
                   haltedEntries, flattens>>

-----------------------------------------------------------------------------
Loop ==
    /\ ~hung
    /\ \/ StartCycle \/ Flatten \/ FlattenDone
       \/ Manage \/ Gate \/ Evaluate \/ Submit \/ CompleteCycle
       \/ CycleFails \/ BrokerFails
       \/ Reconnected \/ AttemptFails \/ ReconnectAborted
       \/ Wait \/ BeginShutdown \/ Finish

Watchdog == Trip \/ Engage \/ Leave

Next ==
    \/ Loop
    \/ /\ pc # "done"
       /\ Watchdog \/ RequestStop \/ Block \/ TimeoutPasses \/ Tick

\* The two threads are scheduled, and time passes.  Nothing makes a blocked call
\* return, a signal arrive or the market open.
Spec ==
    /\ Init /\ [][Next]_vars
    /\ WF_vars(Loop)
    /\ WF_vars(pc # "done" /\ Watchdog)
    /\ WF_vars(pc # "done" /\ TimeoutPasses)

-----------------------------------------------------------------------------
CountsOK ==
    /\ pc \in CyclePcs \union {"top", "squaring", "reconnect", "wait", "closing", "done"}
    /\ left \in 0..MaxOpen /\ open \in 0..MaxOpen
    /\ pc \in {"squaring", "closing"} => left <= open
    /\ pc = "entering" => left + open <= MaxOpen
    /\ pc = "approved" => left + open < MaxOpen
    /\ errors \in 0..MaxErrors /\ attempts \in 0..(MaxAttempts - 1)
    /\ haltedEntries \in Nat

FlagsOK ==
    /\ config \in Configs
    /\ watchdog \in {"watching", "tripped", "engaged", "gone"}
    /\ phase \in Phases
    /\ allowed \in BOOLEAN /\ application \in BOOLEAN /\ entryTime \in BOOLEAN
    /\ stop \in BOOLEAN /\ completed \in BOOLEAN /\ overdue \in BOOLEAN /\ hung \in BOOLEAN
    /\ squaredOff \in BOOLEAN /\ flatToday \in BOOLEAN /\ flattens \in BOOLEAN

\* Every variable has its type, and neither a flattening nor a scan has more left
\* than there are positions, or room for them.
TypeOK == CountsOK /\ FlagsOK

\* Once the watchdog has engaged APPLICATION, the stalled loop sends at most the
\* one order it had approved, wherever it wakes up, and even though a later
\* reconnection sets trading_allowed again.
HaltStopsEntries == haltedEntries <= 1

\* After the square-off of the day no order opens a position until the next day:
\* what the square-off has closed stays closed.
SquaredOffStaysFlat == [][open' > open => ~flatToday]_vars

\* A requested stop ends the process, from wherever the loop is, unless a call
\* of the loop blocks: the flag is only looked at between iterations and between
\* attempts to reconnect.
StopIsHonoured == stop ~> (pc = "done" \/ hung)

\* A loop that blocks for good, once a first cycle has completed, trips the
\* watchdog, if it has not tripped before and nobody has asked for a stop.
StallIsNoticed == (hung /\ completed) ~> (~hung \/ watchdog # "watching" \/ stop)

\* The loop does not fail for ever: again and again a cycle completes or the
\* session is restored, or the process ends, or a call blocks.
NeverFailsForever ==
    \/ <>(pc = "done")
    \/ []<>hung
    \/ []<><<CompleteCycle \/ Reconnected>>_vars

\* "alert / halt / flatten": a process that its watchdog told to flatten does not
\* end without having asked for its positions to be closed.
WatchdogFlattens ==
    (pc = "done" /\ watchdog = "gone" /\ config.watchdogAction = "flatten") => flattens \/ open = 0

=============================================================================
