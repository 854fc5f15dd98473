------------------------- MODULE Supervisor_proofs -------------------------
(***************************************************************************)
(* Type correctness of the supervisor, the halt of the watchdog and the    *)
(* square-off of the day, for every configuration and every limit.         *)
(***************************************************************************)
EXTENDS Supervisor, TLAPS

-----------------------------------------------------------------------------
LEMMA TypeInit == Init => TypeOK
<1>1. Init => CountsOK
  BY SupervisorAssumption DEF Init, CountsOK, CyclePcs
<1>2. Init => FlagsOK
  BY DEF Init, FlagsOK
<1> QED
  BY <1>1, <1>2 DEF TypeOK

LEMMA CountsStep == TypeOK /\ [Next]_vars => CountsOK'
<1> SUFFICES ASSUME TypeOK, [Next]_vars
             PROVE  CountsOK'
  OBVIOUS
<1> USE SupervisorAssumption DEF TypeOK, CountsOK
<1>1. CASE StartCycle
  BY <1>1 DEF StartCycle, book, session, watch, CyclePcs
<1>2. CASE Flatten
  BY <1>2 DEF Flatten, session, watch, clock, CyclePcs
<1>3. CASE FlattenDone
  BY <1>3 DEF FlattenDone, book, session, watch, clock, CyclePcs
<1>4. CASE Manage
  BY <1>4 DEF Manage, session, watch, clock, CyclePcs
<1>5. CASE Gate
  BY <1>5 DEF Gate, book, session, watch, clock, CyclePcs
<1>6. CASE Evaluate
  BY <1>6 DEF Evaluate, book, session, watch, clock, CyclePcs
<1>7. CASE Submit
  BY <1>7 DEF Submit, session, watch, clock, CyclePcs
<1>8. CASE CompleteCycle
  BY <1>8 DEF CompleteCycle, EndIteration, book, clock, CyclePcs
<1>9. CASE CycleFails
  BY <1>9 DEF CycleFails, EndIteration, CountError, book, watch, clock, CyclePcs
<1>10. CASE BrokerFails
  BY <1>10 DEF BrokerFails, CountError, book, watch, clock, CyclePcs
<1>11. CASE Reconnected
  BY <1>11 DEF Reconnected, EndIteration, watch, clock, CyclePcs
<1>12. CASE AttemptFails
  BY <1>12 DEF AttemptFails, EndIteration, loopVars, book, watch, clock, CyclePcs
<1>13. CASE ReconnectAborted
  BY <1>13 DEF ReconnectAborted, EndIteration, book, watch, clock, CyclePcs
<1>14. CASE Wait
  BY <1>14 DEF Wait, book, session, watch, clock, CyclePcs
<1>15. CASE BeginShutdown
  BY <1>15 DEF BeginShutdown, book, session, watch, clock, CyclePcs
<1>16. CASE Finish
  BY <1>16 DEF Finish, book, session, watch, clock, CyclePcs
<1>17. CASE Watchdog
  BY <1>17 DEF Watchdog, Trip, Engage, Leave, loopVars, book, session, clock
<1>18. CASE RequestStop \/ Block \/ TimeoutPasses
  BY <1>18 DEF RequestStop, Block, TimeoutPasses, loopVars, book, session, watch, clock
<1>19. CASE Tick
  BY <1>19 DEF Tick, Phases, NextPhase, loopVars, book, session, watch
<1>20. CASE UNCHANGED vars
  BY <1>20 DEF vars, loopVars, book, session, watch, clock
<1> QED
  BY <1>1, <1>2, <1>3, <1>4, <1>5, <1>6, <1>7, <1>8, <1>9, <1>10, <1>11, <1>12, <1>13,
     <1>14, <1>15, <1>16, <1>17, <1>18, <1>19, <1>20 DEF Next, Loop

LEMMA FlagsStep == TypeOK /\ [Next]_vars => FlagsOK'
<1> SUFFICES ASSUME TypeOK, [Next]_vars
             PROVE  FlagsOK'
  OBVIOUS
<1> USE DEF TypeOK, FlagsOK
<1>1. CASE StartCycle
  <2>1. squaredOff' \in BOOLEAN /\ flatToday' \in BOOLEAN
    BY <1>1 DEF StartCycle
  <2>2. UNCHANGED <<config, watchdog, phase, allowed, application, entryTime, stop, completed,
                    overdue, hung, flattens>>
    BY <1>1 DEF StartCycle, book, session, watch
  <2> QED
    BY <2>1, <2>2
<1>2. CASE Flatten
  BY <1>2 DEF Flatten, session, watch, clock
<1>3. CASE FlattenDone
  BY <1>3 DEF FlattenDone, book, session, watch, clock
<1>4. CASE Manage
  <2>1. allowed' \in BOOLEAN /\ entryTime' \in BOOLEAN
    BY <1>4 DEF Manage
  <2>2. UNCHANGED <<config, watchdog, phase, application, stop, completed, overdue, hung,
                    squaredOff, flatToday, flattens>>
    BY <1>4 DEF Manage, session, watch, clock
  <2> QED
    BY <2>1, <2>2
<1>5. CASE Gate
  BY <1>5 DEF Gate, book, session, watch, clock
<1>6. CASE Evaluate
  BY <1>6 DEF Evaluate, book, session, watch, clock
<1>7. CASE Submit
  <2>1. allowed' \in BOOLEAN
    BY <1>7 DEF Submit
  <2>2. UNCHANGED <<config, watchdog, phase, application, entryTime, stop, completed, overdue,
                    hung, squaredOff, flatToday, flattens>>
    BY <1>7 DEF Submit, session, watch, clock
  <2> QED
    BY <2>1, <2>2
<1>8. CASE CompleteCycle
  BY <1>8 DEF CompleteCycle, EndIteration, book, clock
<1>9. CASE CycleFails
  BY <1>9 DEF CycleFails, EndIteration, CountError, book, watch, clock
<1>10. CASE BrokerFails
  BY <1>10 DEF BrokerFails, CountError, book, watch, clock
<1>11. CASE Reconnected
  BY <1>11 DEF Reconnected, EndIteration, watch, clock
<1>12. CASE AttemptFails
  <2>1. entryTime' \in BOOLEAN /\ stop' \in BOOLEAN
    BY <1>12 DEF AttemptFails, EndIteration, loopVars
  <2>2. UNCHANGED <<config, watchdog, phase, allowed, application, completed, overdue, hung,
                    squaredOff, flatToday, flattens>>
    BY <1>12 DEF AttemptFails, book, watch, clock
  <2> QED
    BY <2>1, <2>2
<1>13. CASE ReconnectAborted
  BY <1>13 DEF ReconnectAborted, EndIteration, book, watch, clock
<1>14. CASE Wait
  BY <1>14 DEF Wait, book, session, watch, clock
<1>15. CASE BeginShutdown
  BY <1>15, SupervisorAssumption DEF BeginShutdown, RuntimeConfig, book, session, watch, clock
<1>16. CASE Finish
  BY <1>16 DEF Finish, book, session, watch, clock
<1>17. CASE Watchdog
  <2>1. CASE Trip
    BY <2>1 DEF Trip, loopVars, book, session, clock
  <2>2. CASE Engage
    BY <2>2 DEF Engage, loopVars, book, session, clock
  <2>3. CASE Leave
    BY <2>3 DEF Leave, loopVars, book, session, clock
  <2> QED
    BY <1>17, <2>1, <2>2, <2>3 DEF Watchdog
<1>18. CASE RequestStop \/ Block \/ TimeoutPasses
  <2>1. CASE RequestStop
    BY <2>1 DEF RequestStop, loopVars, book, session, watch, clock
  <2>2. CASE Block
    BY <2>2 DEF Block, loopVars, book, session, watch, clock
  <2>3. CASE TimeoutPasses
    BY <2>3 DEF TimeoutPasses, loopVars, book, session, watch, clock
  <2> QED
    BY <1>18, <2>1, <2>2, <2>3
<1>19. CASE Tick
  BY <1>19 DEF Tick, Phases, NextPhase, loopVars, book, session, watch
<1>20. CASE UNCHANGED vars
  BY <1>20 DEF vars, loopVars, book, session, watch, clock
<1> QED
  BY <1>1, <1>2, <1>3, <1>4, <1>5, <1>6, <1>7, <1>8, <1>9, <1>10, <1>11, <1>12, <1>13,
     <1>14, <1>15, <1>16, <1>17, <1>18, <1>19, <1>20 DEF Next, Loop

LEMMA TypeStep == TypeOK /\ [Next]_vars => TypeOK'
  BY CountsStep, FlagsStep DEF TypeOK

\* Every variable keeps its type, and neither a flattening nor a scan has more
\* left than there are positions, or room for them (run, run_cycle).
THEOREM SupervisorTypeCorrect == Spec => []TypeOK
  BY TypeInit, TypeStep, PTL DEF Spec

-----------------------------------------------------------------------------
\* One order may be in the loop's hands when the switch is engaged; after that
\* nothing is approved.
HaltInv ==
    /\ ~application => haltedEntries = 0
    /\ haltedEntries \in {0, 1}
    /\ haltedEntries = 1 => pc # "approved"

LEMMA HaltStep == HaltInv /\ [Next]_vars => HaltInv'
<1> SUFFICES ASSUME HaltInv, [Next]_vars
             PROVE  HaltInv'
  OBVIOUS
<1> USE DEF HaltInv
<1>1. CASE Evaluate
  BY <1>1 DEF Evaluate
<1>2. CASE Submit
  BY <1>2 DEF Submit
<1>3. CASE StartCycle \/ Flatten \/ FlattenDone \/ Manage \/ Gate \/ CompleteCycle
  BY <1>3 DEF StartCycle, Flatten, FlattenDone, Manage, Gate, CompleteCycle, EndIteration
<1>4. CASE CycleFails \/ BrokerFails \/ Reconnected \/ ReconnectAborted
  BY <1>4 DEF CycleFails, BrokerFails, Reconnected, ReconnectAborted, EndIteration
<1>5. CASE AttemptFails
  BY <1>5 DEF AttemptFails, EndIteration, loopVars
<1>6. CASE Wait \/ BeginShutdown \/ Finish
  BY <1>6 DEF Wait, BeginShutdown, Finish
<1>7. CASE Watchdog
  BY <1>7 DEF Watchdog, Trip, Engage, Leave, loopVars
<1>8. CASE RequestStop \/ Block \/ TimeoutPasses \/ Tick
  BY <1>8 DEF RequestStop, Block, TimeoutPasses, Tick, loopVars
<1>9. CASE UNCHANGED vars
  BY <1>9 DEF vars, loopVars
<1> QED
  BY <1>1, <1>2, <1>3, <1>4, <1>5, <1>6, <1>7, <1>8, <1>9 DEF Next, Loop

\* After the watchdog has engaged APPLICATION at most the order already approved
\* is sent, whatever a reconnection does to trading_allowed (_watchdog_loop,
\* _reconnect, RiskEngine.evaluate).
THEOREM WatchdogHaltSticks == Spec => []HaltStopsEntries
<1>1. Init => HaltInv
  BY DEF Init, HaltInv
<1>2. HaltInv => HaltStopsEntries
  BY DEF HaltInv, HaltStopsEntries
<1> QED
  BY <1>1, <1>2, HaltStep, PTL DEF Spec

-----------------------------------------------------------------------------
\* An order is approved only in a cycle that began in the hours of entry, and the
\* square-off of the day leaves no such cycle behind.
FlatInv ==
    /\ pc \notin {"gate", "entering", "approved"} => ~entryTime
    /\ pc = "approved" \/ (pc = "entering" /\ left # 0) => entryTime
    /\ flatToday => ~entryTime /\ phase \in {"squareOff", "closed"}

LEMMA FlatInit == Init => FlatInv
  BY DEF Init, FlatInv

LEMMA FlatStep == TypeOK /\ FlatInv /\ [Next]_vars => FlatInv'
<1> SUFFICES ASSUME TypeOK, FlatInv, [Next]_vars
             PROVE  FlatInv'
  OBVIOUS
<1> USE DEF FlatInv
<1>1. CASE StartCycle
  BY <1>1 DEF StartCycle
<1>2. CASE Manage
  BY <1>2 DEF Manage, clock
<1>3. CASE Gate
  BY <1>3 DEF Gate, clock
<1>4. CASE Evaluate
  BY <1>4 DEF Evaluate, clock, TypeOK, CountsOK
<1>5. CASE Submit
  BY <1>5 DEF Submit, clock
<1>6. CASE Flatten \/ FlattenDone
  BY <1>6 DEF Flatten, FlattenDone, clock
<1>7. CASE CompleteCycle \/ CycleFails \/ BrokerFails \/ Reconnected \/ ReconnectAborted
  BY <1>7 DEF CompleteCycle, CycleFails, BrokerFails, Reconnected, ReconnectAborted,
              EndIteration, clock
<1>8. CASE AttemptFails
  BY <1>8 DEF AttemptFails, EndIteration, loopVars, clock
<1>9. CASE Wait \/ BeginShutdown \/ Finish
  BY <1>9 DEF Wait, BeginShutdown, Finish, clock
<1>10. CASE Watchdog
  BY <1>10 DEF Watchdog, Trip, Engage, Leave, loopVars, clock
<1>11. CASE RequestStop \/ Block \/ TimeoutPasses
  BY <1>11 DEF RequestStop, Block, TimeoutPasses, loopVars, clock
<1>12. CASE Tick
  BY <1>12 DEF Tick, Phases, NextPhase, loopVars, TypeOK, FlagsOK
<1>13. CASE UNCHANGED vars
  BY <1>13 DEF vars, loopVars, clock
<1> QED
  BY <1>1, <1>2, <1>3, <1>4, <1>5, <1>6, <1>7, <1>8, <1>9, <1>10, <1>11, <1>12, <1>13
  DEF Next, Loop

LEMMA OnlySubmitOpens == TypeOK /\ [Next]_vars /\ open' > open => Submit
<1> SUFFICES ASSUME TypeOK, [Next]_vars, open' > open
             PROVE  Submit
  OBVIOUS
<1> USE SupervisorAssumption DEF TypeOK, CountsOK
<1>1. CASE StartCycle \/ FlattenDone \/ Gate \/ Evaluate
  BY <1>1 DEF StartCycle, FlattenDone, Gate, Evaluate, book
<1>2. CASE Flatten \/ Manage \/ Reconnected
  <2>1. CASE Flatten
    BY <2>1 DEF Flatten
  <2>2. CASE Manage
    BY <2>2 DEF Manage
  <2>3. CASE Reconnected
    BY <2>3 DEF Reconnected
  <2> QED
    BY <1>2, <2>1, <2>2, <2>3
<1>3. CASE CompleteCycle \/ CycleFails \/ BrokerFails \/ AttemptFails \/ ReconnectAborted
  BY <1>3 DEF CompleteCycle, CycleFails, BrokerFails, AttemptFails, ReconnectAborted, book
<1>4. CASE Wait \/ BeginShutdown \/ Finish
  BY <1>4 DEF Wait, BeginShutdown, Finish, book
<1>5. CASE Watchdog
  BY <1>5 DEF Watchdog, Trip, Engage, Leave, book
<1>6. CASE RequestStop \/ Block \/ TimeoutPasses \/ Tick
  BY <1>6 DEF RequestStop, Block, TimeoutPasses, Tick, book
<1>7. CASE UNCHANGED vars
  BY <1>7 DEF vars, book
<1> QED
  BY <1>1, <1>2, <1>3, <1>4, <1>5, <1>6, <1>7 DEF Next, Loop

\* Nothing is opened between the square-off of a day and the next morning
\* (_maybe_square_off, _entry_blocked, SessionConfig._ordered).
THEOREM SquareOffHolds == Spec => SquaredOffStaysFlat
<1>1. TypeOK /\ FlatInv /\ [Next]_vars => (open' > open => ~flatToday)
  BY OnlySubmitOpens DEF FlatInv, Submit
<1>2. TypeOK /\ FlatInv /\ [Next]_vars => [open' > open => ~flatToday]_vars
  BY <1>1
<1> QED
  BY <1>2, TypeInit, TypeStep, FlatInit, FlatStep, PTL DEF Spec, SquaredOffStaysFlat

=============================================================================
