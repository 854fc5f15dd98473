----------------------- MODULE OrderExecution_proofs -----------------------
(***************************************************************************)
(* Proofs about the order path, for every quantity, number of minutes and  *)
(* number of orders: what holds under any fault, and what holds once the   *)
(* faults that break it are ruled out.                                     *)
(***************************************************************************)
EXTENDS OrderExecution, TLAPS

-----------------------------------------------------------------------------
(* Types. *)

\* The order the engine starts from is a key.
LEMMA NoOrderIsKey == NoOrder \in Keys /\ NoView \in [filled : Nat, open : BOOLEAN]
  BY EnvironmentAssumption DEF NoOrder, NoView, Keys, Ops

\* Setting a row's status keeps the journal well formed.
LEMMA StatusTyped ==
    ASSUME NEW k \in Keys, NEW s \in Statuses, rows \in [Keys -> Rows], SetStatus(k, s)
    PROVE  rows' \in [Keys -> Rows]
  BY DEF SetStatus, Rows

LEMMA IntentTyped ==
    ASSUME NEW k \in Keys, rows \in [Keys -> Rows], RecordIntent(k)
    PROVE  rows' \in [Keys -> Rows]
  BY DEF RecordIntent, Rows, Statuses

LEMMA ResolveTyped ==
    ASSUME NEW failed, rows \in [Keys -> Rows], ResolveIntents(failed)
    PROVE  rows' \in [Keys -> Rows] /\ tradingAllowed' \in BOOLEAN
  BY DEF ResolveIntents, Rows, Statuses

\* TypeOK is inductive.
LEMMA TypeInit == Init => TypeOK
<1> SUFFICES ASSUME Init PROVE TypeOK
  OBVIOUS
<1>1. rows \in [Keys -> Rows]
  BY DEF Init, NoRow, Rows, Statuses
<1>2. tradingAllowed \in BOOLEAN /\ unmanaged \in BOOLEAN
  BY DEF Init
<1> QED BY <1>1, <1>2, NoOrderIsKey, EnvironmentAssumption DEF Init, TypeOK

LEMMA TypeStep == TypeOK /\ [Next]_vars => TypeOK'
<1> SUFFICES ASSUME TypeOK, [Next]_vars PROVE TypeOK'
  OBVIOUS
<1> USE NoOrderIsKey, EnvironmentAssumption
<1>1. CASE Tick
  BY <1>1 DEF Tick, TypeOK, broker, process
<1>2. ASSUME NEW k \in Keys, Fill(k) \/ Expire(k) \/ Arrive(k) PROVE TypeOK'
  <2>1. CASE Fill(k)
    BY <2>1 DEF Fill, TypeOK, process, Sign
  <2>2. CASE Expire(k)
    BY <2>2 DEF Expire, TypeOK, process
  <2>3. CASE Arrive(k)
    BY <2>3 DEF Arrive, PlaceOrder, TypeOK, process
  <2> QED BY <1>2, <2>1, <2>2, <2>3
<1>3. CASE BeginEntry
  <2>1. cur' \in Keys
    BY <1>3 DEF BeginEntry, TypeOK, Keys, Ops
  <2>2. rows' \in [Keys -> Rows]
    BY <1>3, <2>1 DEF BeginEntry, RecordIntent, TypeOK, Rows, Statuses
  <2> QED BY <1>3, <2>1, <2>2 DEF BeginEntry, TypeOK, broker, process
<1>4. CASE MarkSubmitted
  <2>1. rows' \in [Keys -> Rows]
    BY <1>4, StatusTyped DEF MarkSubmitted, TypeOK, Statuses
  <2> QED BY <1>4, <2>1 DEF MarkSubmitted, TypeOK, broker, process
<1>5. ASSUME NEW q \in 1..MaxQty, BeginExit(q) PROVE TypeOK'
  <2>1. cur' \in Keys
    BY <1>5 DEF BeginExit, TypeOK, Keys, Ops
  <2>2. rows' \in [Keys -> Rows]
    BY <1>5, <2>1 DEF BeginExit, RecordIntent, TypeOK, Rows, Statuses
  <2> QED BY <1>5, <2>1, <2>2 DEF BeginExit, TypeOK, broker, process
<1>6. CASE GuardRefuses
  <2>1. rows' \in [Keys -> Rows]
    BY <1>6, StatusTyped DEF GuardRefuses, TypeOK, Statuses
  <2> QED BY <1>6, <2>1 DEF GuardRefuses, Return, Forget, TypeOK, broker, process
<1>7. CASE SubmitAnswered \/ SubmitAnswerLost
  <2>1. view' \in [filled : Nat, open : BOOLEAN]
    <3>1. CASE SubmitAnswered
      BY <3>1 DEF SubmitAnswered
    <3>2. CASE SubmitAnswerLost
      BY <3>2 DEF SubmitAnswerLost, TypeOK
    <3> QED BY <1>7, <3>1, <3>2
  <2>2. tradingAllowed' \in BOOLEAN /\ unmanaged' \in BOOLEAN
    BY <1>7 DEF SubmitAnswered, SubmitAnswerLost, Send, TypeOK
  <2>3. placed' \in [Keys -> Nat] /\ live' \subseteq Keys /\ guard' \subseteq Keys
    BY <1>7 DEF SubmitAnswered, SubmitAnswerLost, PlaceOrder, TypeOK
  <2> QED BY <1>7, <2>1, <2>2, <2>3
          DEF SubmitAnswered, SubmitAnswerLost, Send, PlaceOrder, TypeOK
<1>8. CASE SubmitLost
  BY <1>8 DEF SubmitLost, Send, TypeOK
<1>9. CASE SubmitRejected \/ SubmitGarbled
  <2>1. rows' \in [Keys -> Rows]
    BY <1>9, StatusTyped DEF SubmitRejected, SubmitGarbled, TypeOK, Statuses
  <2> QED BY <1>9, <2>1 DEF SubmitRejected, SubmitGarbled, Send, PlaceOrder, Return, Forget,
                            TypeOK, broker
<1>10. CASE SubmitWithoutId
  <2>1. rows' \in [Keys -> Rows]
    BY <1>10, StatusTyped DEF SubmitWithoutId, TypeOK, Statuses
  <2>2. tradingAllowed' \in BOOLEAN /\ unmanaged' \in BOOLEAN
    BY <1>10 DEF SubmitWithoutId, Send, TypeOK
  <2>3. placed' \in [Keys -> Nat] /\ live' \subseteq Keys /\ guard' \subseteq Keys
    BY <1>10 DEF SubmitWithoutId, PlaceOrder, TypeOK
  <2> QED BY <1>10, <2>1, <2>2, <2>3
          DEF SubmitWithoutId, Send, PlaceOrder, Return, Forget, TypeOK
<1>11. CASE LookupFinds
  BY <1>11 DEF LookupFinds, SeenNow, TypeOK, broker, process
<1>12. CASE AdapterFindsNothing \/ AdapterLookupFails
  <2>1. rows' \in [Keys -> Rows]
    BY <1>12, StatusTyped DEF AdapterFindsNothing, AdapterLookupFails, TypeOK, Statuses
  <2> QED BY <1>12, <2>1 DEF AdapterFindsNothing, AdapterLookupFails, Return, Forget, TypeOK,
                             broker, process
<1>13. CASE EngineGivesUp
  BY <1>13 DEF EngineGivesUp, Return, Forget, TypeOK, broker
<1>14. CASE JournalAck
  BY <1>14 DEF JournalAck, TypeOK, broker, process, Rows, Statuses
<1>15. CASE Poll
  BY <1>15 DEF Poll, SeenNow, TypeOK, broker, process
<1>16. CASE StopWaiting
  BY <1>16 DEF StopWaiting, Return, Forget, TypeOK, broker, process
<1>17. CASE CancelRemainder
  BY <1>17 DEF CancelRemainder, Return, Forget, TypeOK, process
<1>18. CASE Record
  <2>1. tracked' \in Int
    BY <1>18 DEF Record, TypeOK, Sign, Keys
  <2> QED BY <1>18, <2>1 DEF Record, Return, Forget, TypeOK, broker, Rows, Statuses
<1>19. CASE Crash
  <2>1. tradingAllowed' \in BOOLEAN /\ unmanaged' \in BOOLEAN
    BY <1>19 DEF Crash
  <2> QED BY <1>19, <2>1 DEF Crash, Forget, TypeOK, broker
<1>20. CASE Start
  BY <1>20 DEF Start, TypeOK, broker
<1>21. CASE FinishStart
  <2>1. rows' \in [Keys -> Rows] /\ tradingAllowed' \in BOOLEAN
    BY <1>21, ResolveTyped DEF FinishStart, TypeOK
  <2>2. unmanaged' \in BOOLEAN
    BY <1>21 DEF FinishStart
  <2> QED BY <1>21, <2>1, <2>2 DEF FinishStart, TypeOK, broker
<1>22. CASE Reconnect
  <2>1. rows' \in [Keys -> Rows] /\ tradingAllowed' \in BOOLEAN
    BY <1>22, ResolveTyped DEF Reconnect, TypeOK
  <2> QED BY <1>22, <2>1 DEF Reconnect, CorrectTracked, TypeOK, broker
<1>23. CASE Reconcile \/ ReconcileFails
  BY <1>23 DEF Reconcile, ReconcileFails, CorrectTracked, TypeOK, broker
<1>24. CASE UNCHANGED vars
  BY <1>24 DEF vars, TypeOK, broker, process
<1> QED
  BY <1>1, <1>2, <1>3, <1>4, <1>5, <1>6, <1>7, <1>8, <1>9, <1>10, <1>11, <1>12, <1>13, <1>14,
     <1>15, <1>16, <1>17, <1>18, <1>19, <1>20, <1>21, <1>22, <1>23, <1>24
     DEF Next, BrokerNext, EngineNext, SubmitNext

\* The order path keeps its types.
THEOREM OrderTypeCorrect == Spec => []TypeOK
  BY TypeInit, TypeStep, PTL DEF Spec

-----------------------------------------------------------------------------
(* The journal: what a step may do to a row, and to the broker's book. *)

Busy == pc \in {"intent", "submit", "adapterLookup", "engineLookup", "acked", "await",
                "cancel", "record"}

\* No step removes a row, or the broker id of a row.
RowKept(k) ==
    /\ rows[k].status # "none" => rows'[k].status # "none"
    /\ rows[k].hasId => rows'[k].hasId

LEMMA StatusKept ==
    ASSUME TypeOK, NEW j \in Keys, NEW s \in Statuses \ {"none"}, SetStatus(j, s)
    PROVE  \A k \in Keys : RowKept(k) /\ rows'[k].hasId = rows[k].hasId
  BY DEF SetStatus, RowKept, TypeOK, Rows

LEMMA IntentKept ==
    ASSUME TypeOK, NEW j \in Keys, RecordIntent(j)
    PROVE  /\ \A k \in Keys : RowKept(k) /\ rows'[k].hasId = rows[k].hasId
           /\ \A k \in Keys \ {j} : rows'[k] = rows[k]
           /\ rows'[j].status # "none"
  BY DEF RecordIntent, RowKept, TypeOK, Rows

LEMMA AckKept ==
    ASSUME TypeOK, NEW j \in Keys,
           rows' = [rows EXCEPT ![j] = [status |-> "BROKER", hasId |-> TRUE]]
    PROVE  /\ \A k \in Keys : RowKept(k)
           /\ \A k \in Keys \ {j} : rows'[k] = rows[k]
           /\ rows'[j].hasId
  BY DEF RowKept, TypeOK, Rows

\* A resolution closes pending rows only; what it gives an id is at the broker.
LEMMA ResolveKept ==
    ASSUME TypeOK, NEW failed, ResolveIntents(failed)
    PROVE  \A k \in Keys :
              /\ RowKept(k)
              /\ rows[k].status = "none" => rows'[k] = rows[k]
              /\ (rows'[k].hasId /\ ~rows[k].hasId) => placed[k] > 0
  BY DEF ResolveIntents, RowKept, Pending, TypeOK, Rows

LEMMA RowsKept ==
    ASSUME TypeOK, [Next]_vars
    PROVE  \A k \in Keys : RowKept(k)
<1>1. CASE UNCHANGED rows
  BY <1>1 DEF RowKept
<1>2. CASE BeginEntry \/ \E q \in 1..MaxQty : BeginExit(q)
  <2>1. cur' \in Keys
    BY <1>2, TypeStep DEF TypeOK
  <2> QED BY <1>2, <2>1, IntentKept DEF BeginEntry, BeginExit
<1>3. CASE \E st \in Statuses \ {"none"} : SetStatus(cur, st)
  BY <1>3, StatusKept DEF TypeOK
<1>4. CASE JournalAck \/ Record
  <2>1. CASE UNCHANGED rows
    BY <2>1 DEF RowKept
  <2>2. CASE rows' = [rows EXCEPT ![cur] = [status |-> "BROKER", hasId |-> TRUE]]
    BY <2>2, AckKept DEF TypeOK
  <2> QED BY <1>4, <2>1, <2>2 DEF JournalAck, Record
<1>5. CASE FinishStart \/ Reconnect
  BY <1>5, ResolveKept DEF FinishStart, Reconnect
<1>6. MarkSubmitted \/ GuardRefuses \/ SubmitRejected \/ SubmitGarbled \/ SubmitWithoutId
         \/ AdapterFindsNothing \/ AdapterLookupFails
      => UNCHANGED rows \/ \E st \in Statuses \ {"none"} : SetStatus(cur, st)
  BY DEF MarkSubmitted, GuardRefuses, SubmitRejected, SubmitGarbled, SubmitWithoutId,
         AdapterFindsNothing, AdapterLookupFails, Statuses
<1>7. Tick \/ BrokerNext \/ SubmitAnswered \/ SubmitAnswerLost \/ SubmitLost \/ LookupFinds
         \/ EngineGivesUp \/ Poll \/ StopWaiting \/ CancelRemainder \/ Crash \/ Start
         \/ Reconcile \/ ReconcileFails \/ UNCHANGED vars
      => UNCHANGED rows
  BY DEF Tick, BrokerNext, Fill, Expire, Arrive, SubmitAnswered, SubmitAnswerLost, SubmitLost,
         LookupFinds, EngineGivesUp, Poll, StopWaiting, CancelRemainder, Crash, Start,
         Reconcile, ReconcileFails, vars
<1> QED
  BY <1>1, <1>2, <1>3, <1>4, <1>5, <1>6, <1>7 DEF Next, EngineNext, SubmitNext

\* A request reaches the wire only from the submission of its own key.
LEMMA NewOrders ==
    ASSUME TypeOK, [Next]_vars
    PROVE  \A k \in Keys :
              (placed'[k] > 0 \/ k \in inFlight')
                => placed[k] > 0 \/ k \in inFlight \/ (pc = "submit" /\ k = cur)
<1>1. CASE UNCHANGED <<placed, inFlight>>
  BY <1>1
<1>2. ASSUME NEW j \in Keys, Arrive(j)
      PROVE  \A k \in Keys : placed'[k] > 0 \/ k \in inFlight' => placed[k] > 0 \/ k \in inFlight
  BY <1>2 DEF Arrive, PlaceOrder, TypeOK
<1>3. CASE SubmitAnswered \/ SubmitAnswerLost \/ SubmitGarbled \/ SubmitWithoutId
  BY <1>3 DEF SubmitAnswered, SubmitAnswerLost, SubmitGarbled, SubmitWithoutId, Send,
              PlaceOrder, TypeOK
<1>4. CASE SubmitLost
  BY <1>4 DEF SubmitLost, Send
<1>5. ASSUME NEW j \in Keys, Fill(j) \/ Expire(j) PROVE UNCHANGED <<placed, inFlight>>
  BY <1>5 DEF Fill, Expire
<1>6. Tick \/ BeginEntry \/ MarkSubmitted \/ (\E q \in 1..MaxQty : BeginExit(q)) \/ GuardRefuses
         \/ SubmitRejected \/ LookupFinds \/ AdapterFindsNothing \/ AdapterLookupFails
         \/ EngineGivesUp \/ JournalAck \/ Poll \/ StopWaiting \/ CancelRemainder \/ Record
         \/ Crash \/ Start \/ FinishStart \/ Reconnect \/ Reconcile \/ ReconcileFails
         \/ UNCHANGED vars
      => UNCHANGED <<placed, inFlight>>
  BY DEF Tick, BeginEntry, MarkSubmitted, BeginExit, GuardRefuses, SubmitRejected, LookupFinds,
         AdapterFindsNothing, AdapterLookupFails, EngineGivesUp, JournalAck, Poll, StopWaiting,
         CancelRemainder, Record, Crash, Start, FinishStart, Reconnect, Reconcile,
         ReconcileFails, vars, broker
<1> QED
  BY <1>1, <1>2, <1>3, <1>4, <1>5, <1>6 DEF Next, BrokerNext, EngineNext, SubmitNext

\* While the engine executes an order, the order has a row.
BusyHasRow == Busy => rows[cur].status # "none"

LEMMA BusyStep ==
    ASSUME TypeOK, [Next]_vars, BusyHasRow
    PROVE  BusyHasRow'
<1>1. CASE BeginEntry \/ \E q \in 1..MaxQty : BeginExit(q)
  <2>1. cur' \in Keys
    BY <1>1, TypeStep DEF TypeOK
  <2> QED BY <1>1, <2>1, IntentKept DEF BeginEntry, BeginExit, BusyHasRow
<1>2. CASE Busy' => (Busy /\ cur' = cur)
  BY <1>2, RowsKept DEF BusyHasRow, RowKept, TypeOK
<1>3. Tick \/ BrokerNext \/ MarkSubmitted \/ SubmitNext \/ JournalAck \/ Poll \/ StopWaiting
         \/ CancelRemainder \/ Record \/ Crash \/ Start \/ FinishStart \/ Reconnect \/ Reconcile
         \/ ReconcileFails \/ UNCHANGED vars
      => (Busy' => (Busy /\ cur' = cur))
  BY DEF Busy, Tick, BrokerNext, Fill, Expire, Arrive, MarkSubmitted, SubmitNext, GuardRefuses,
         SubmitAnswered, SubmitAnswerLost, SubmitLost, SubmitRejected, SubmitGarbled,
         SubmitWithoutId, Send, LookupFinds, AdapterFindsNothing, AdapterLookupFails,
         EngineGivesUp, JournalAck, Poll, StopWaiting, CancelRemainder, Record, Crash, Start,
         FinishStart, Reconnect, Reconcile, ReconcileFails, Return, vars
<1> QED BY <1>1, <1>2, <1>3 DEF Next, EngineNext

JournalInv == TypeOK /\ IntentBeforeSubmit /\ BusyHasRow

LEMMA JournalInit == Init => JournalInv
<1> SUFFICES ASSUME Init PROVE IntentBeforeSubmit /\ BusyHasRow
  BY TypeInit DEF JournalInv
<1> QED BY DEF Init, IntentBeforeSubmit, BusyHasRow, Busy

LEMMA JournalStep == JournalInv /\ [Next]_vars => JournalInv'
<1> SUFFICES ASSUME JournalInv, [Next]_vars PROVE JournalInv'
  OBVIOUS
<1> USE DEF JournalInv
<1>1. TypeOK' /\ BusyHasRow'
  BY TypeStep, BusyStep
<1>2. ASSUME NEW k \in Keys, placed'[k] > 0 \/ k \in inFlight'
      PROVE  rows'[k].status # "none"
  <2>1. rows[k].status # "none"
    BY <1>2, NewOrders DEF IntentBeforeSubmit, BusyHasRow, Busy
  <2> QED BY <2>1, RowsKept DEF RowKept
<1> QED BY <1>1, <1>2 DEF IntentBeforeSubmit

THEOREM JournalInvariant == Spec => []JournalInv
  BY JournalInit, JournalStep, PTL DEF Spec

\* Under every fault, the intent of an order is on disk before the order can be
\* at the broker or on its way to it.
THEOREM IntentsBeforeSubmits == Spec => []IntentBeforeSubmit
<1>1. JournalInv => IntentBeforeSubmit
  BY DEF JournalInv
<1> QED BY <1>1, JournalInvariant, PTL

\* Under every fault, entries are unblocked only once the journal has the id of
\* every order at the broker.
THEOREM UnblockingIsReconciled == Spec => UnblockedMeansReconciled
<1>1. ASSUME JournalInv, [Next]_vars, ~tradingAllowed, tradingAllowed', NEW k \in Keys,
             placed'[k] > 0
      PROVE  rows'[k].hasId
  <2>1. PICK failed : ResolveIntents(failed) /\ UNCHANGED broker
    BY <1>1 DEF Next, BrokerNext, EngineNext, SubmitNext, Tick, Fill, Expire, Arrive, BeginEntry,
                MarkSubmitted, BeginExit, GuardRefuses, SubmitAnswered, SubmitAnswerLost,
                SubmitLost, SubmitRejected, SubmitGarbled, SubmitWithoutId, LookupFinds,
                AdapterFindsNothing, AdapterLookupFails, EngineGivesUp, JournalAck, Poll,
                StopWaiting, CancelRemainder, Record, Crash, Start, FinishStart, Reconnect,
                Reconcile, ReconcileFails, process, vars
  <2>2. failed = {} /\ placed[k] > 0
    BY <2>1, <1>1 DEF ResolveIntents, broker
  <2>3. rows[k].status # "none" /\ rows[k] \in Rows
    BY <2>2, <1>1 DEF JournalInv, IntentBeforeSubmit, TypeOK
  <2>4. CASE k \in Pending
    BY <2>1, <2>2, <2>4 DEF ResolveIntents
  <2>5. CASE k \notin Pending
    <3>1. rows[k].hasId
      BY <2>3, <2>5 DEF Pending
    <3>2. rows'[k] = rows[k]
      BY <2>1, <2>5 DEF ResolveIntents
    <3> QED BY <3>1, <3>2
  <2> QED BY <2>4, <2>5
<1>2. JournalInv /\ [Next]_vars =>
        [(~tradingAllowed /\ tradingAllowed')
            => \A k \in Keys : placed'[k] > 0 => rows'[k].hasId]_vars
  BY <1>1
<1> QED BY <1>2, JournalInvariant, PTL DEF Spec, UnblockedMeansReconciled

-----------------------------------------------------------------------------
(* At most one order under a key, when no answer is garbled and a restart     *)
(* takes longer than a minute.                                                *)

KeysNeverReused == "garbled" \notin Faults /\ "fastRestart" \notin Faults

Sent(k) == placed[k] > 0 \/ k \in inFlight

\* The key cannot be sent again: no process runs and the next starts in a later
\* minute, or this process has it in its guard, or its minute is over.
Spent(k) ==
    /\ k.bucket <= bucket
    /\ \/ pc = "down"
       \/ k \in guard
       \/ k.bucket < bucket /\ ~(pc \in {"intent", "submit"} /\ cur = k)

SentIsSpent == \A k \in Keys : Sent(k) => Spent(k)
SentOnce == \A k \in Keys : placed[k] <= 1 /\ (k \in inFlight => placed[k] = 0)
AckedIsPlaced == pc \in {"acked", "await", "cancel", "record"} => placed[cur] = 1

OneOrderInv == JournalInv /\ cur.bucket <= bucket /\ SentIsSpent /\ SentOnce /\ AckedIsPlaced

LEMMA OneOrderInit == Init => OneOrderInv
<1> SUFFICES ASSUME Init PROVE cur.bucket <= bucket /\ SentIsSpent /\ SentOnce /\ AckedIsPlaced
  BY JournalInit DEF OneOrderInv
<1> QED BY DEF Init, NoOrder, SentIsSpent, Sent, SentOnce, AckedIsPlaced

\* A step that sends nothing, keeps the guard and the minute, and does not move to
\* a submission.
LEMMA QuietStep ==
    ASSUME OneOrderInv, JournalInv', UNCHANGED <<placed, inFlight, guard, bucket>>,
           pc # "down", pc' \notin {"intent", "submit"}, cur' \in {cur, NoOrder},
           pc' \in {"acked", "await", "cancel", "record"} => placed[cur'] = 1
    PROVE  OneOrderInv'
<1> USE DEF OneOrderInv, JournalInv
<1>1. cur'.bucket <= bucket'
  BY DEF TypeOK, NoOrder
<1>2. SentIsSpent'
  BY DEF SentIsSpent, Sent, Spent, TypeOK
<1>3. SentOnce' /\ AckedIsPlaced'
  BY DEF SentOnce, AckedIsPlaced
<1> QED BY <1>1, <1>2, <1>3

\* A step that sends cur, a key that is not in the guard, and puts it there.
LEMMA SendStep ==
    ASSUME OneOrderInv, JournalInv', pc = "submit", cur \notin guard,
           guard' = guard \union {cur}, bucket' = bucket, cur' \in {cur, NoOrder},
           pc' \notin {"intent", "submit", "down"},
           \/ placed' = [placed EXCEPT ![cur] = @ + 1] /\ inFlight' = inFlight
           \/ placed' = placed /\ inFlight' \in {inFlight, inFlight \union {cur}},
           pc' \in {"acked", "await", "cancel", "record"} => placed'[cur'] # placed[cur'] /\ cur' = cur
    PROVE  OneOrderInv'
<1> USE DEF OneOrderInv, JournalInv
<1>1. placed[cur] = 0 /\ cur \notin inFlight
  BY DEF SentIsSpent, Sent, Spent, TypeOK
<1>2. cur'.bucket <= bucket'
  BY DEF TypeOK, NoOrder
<1>3. SentIsSpent'
  BY DEF SentIsSpent, Sent, Spent, TypeOK
<1>4. SentOnce'
  BY <1>1 DEF SentOnce, TypeOK
<1>5. AckedIsPlaced'
  BY <1>1 DEF AckedIsPlaced, TypeOK
<1> QED BY <1>2, <1>3, <1>4, <1>5

LEMMA OneOrderStep ==
    ASSUME KeysNeverReused, OneOrderInv, [Next]_vars
    PROVE  OneOrderInv'
<1> USE DEF OneOrderInv
<1>0. JournalInv' /\ TypeOK /\ TypeOK'
  BY JournalStep DEF JournalInv
<1>1. CASE Tick
  <2>1. bucket' = bucket + 1 /\ UNCHANGED <<placed, inFlight, guard, pc, cur>>
    BY <1>1 DEF Tick, broker, process
  <2>2. SentIsSpent' /\ cur'.bucket <= bucket'
    BY <1>0, <2>1 DEF SentIsSpent, Sent, Spent, TypeOK, Keys
  <2> QED BY <1>0, <2>1, <2>2 DEF SentOnce, AckedIsPlaced
<1>2. ASSUME NEW k \in Keys, Fill(k) \/ Expire(k) PROVE OneOrderInv'
  BY <1>0, <1>2 DEF Fill, Expire, process, SentIsSpent, Sent, Spent, SentOnce, AckedIsPlaced
<1>3. ASSUME NEW k \in Keys, Arrive(k) PROVE OneOrderInv'
  <2>0. placed[k] = 0 /\ inFlight' = inFlight \ {k} /\ placed' = [placed EXCEPT ![k] = @ + 1]
    BY <1>0, <1>3 DEF Arrive, PlaceOrder, SentOnce
  <2>1. placed[k] = 0 /\ placed' = [placed EXCEPT ![k] = 1] /\ inFlight' = inFlight \ {k}
    BY <1>0, <2>0 DEF TypeOK
  <2>2. SentIsSpent'
    BY <1>0, <1>3, <2>1 DEF Arrive, process, SentIsSpent, Sent, Spent, TypeOK
  <2>3. SentOnce' /\ AckedIsPlaced'
    BY <1>0, <1>3, <2>1 DEF Arrive, SentOnce, AckedIsPlaced, TypeOK
  <2> QED BY <1>0, <1>3, <2>2, <2>3 DEF Arrive
<1>4. CASE BeginEntry \/ \E q \in 1..MaxQty : BeginExit(q)
  <2>1. /\ pc = "idle" /\ cur'.bucket = bucket /\ pc' \in {"intent", "submit"}
        /\ UNCHANGED <<bucket, placed, inFlight, guard>>
    BY <1>4 DEF BeginEntry, BeginExit, broker, process
  <2>2. SentIsSpent'
    BY <1>0, <2>1 DEF SentIsSpent, Sent, Spent, TypeOK
  <2> QED BY <1>0, <2>1, <2>2 DEF SentOnce, AckedIsPlaced, TypeOK
<1>5. CASE MarkSubmitted
  BY <1>0, <1>5 DEF MarkSubmitted, broker, process, SentIsSpent, Sent, Spent, SentOnce,
                    AckedIsPlaced
<1>6. CASE SubmitAnswered \/ SubmitAnswerLost \/ SubmitWithoutId
  <2>1. placed' = [placed EXCEPT ![cur] = @ + 1] /\ inFlight' = inFlight
    BY <1>6 DEF SubmitAnswered, SubmitAnswerLost, SubmitWithoutId, PlaceOrder
  <2>2. /\ pc = "submit" /\ cur \notin guard /\ guard' = guard \union {cur} /\ bucket' = bucket
        /\ pc' \notin {"intent", "submit", "down"} /\ cur' \in {cur, NoOrder}
        /\ pc' \in {"acked", "await", "cancel", "record"} => cur' = cur
    BY <1>6 DEF SubmitAnswered, SubmitAnswerLost, SubmitWithoutId, Send, Return, Forget
  <2>3. placed'[cur] # placed[cur]
    BY <1>0, <2>1 DEF TypeOK
  <2> QED BY <1>0, <2>1, <2>2, <2>3, SendStep
<1>7. CASE SubmitLost
  <2>1. placed' = placed /\ inFlight' \in {inFlight, inFlight \union {cur}}
    BY <1>7 DEF SubmitLost
  <2> QED BY <1>0, <1>7, <2>1, SendStep DEF SubmitLost, Send
<1>8. CASE SubmitGarbled
  BY <1>8 DEF SubmitGarbled, KeysNeverReused
<1>9. CASE Crash
  BY <1>0, <1>9 DEF Crash, Forget, NoOrder, broker, SentIsSpent, Sent, Spent, SentOnce,
                    AckedIsPlaced, TypeOK
<1>10. CASE Start
  <2>1. bucket' = bucket + 1 /\ pc' = "starting" /\ UNCHANGED <<placed, inFlight, cur>>
    BY <1>10 DEF Start, broker, KeysNeverReused
  <2>2. SentIsSpent' /\ cur'.bucket <= bucket'
    BY <1>0, <2>1 DEF SentIsSpent, Sent, Spent, TypeOK, Keys
  <2> QED BY <1>0, <2>1, <2>2 DEF SentOnce, AckedIsPlaced
<1>11. CASE LookupFinds
  <2>1. placed[cur] = 1
    BY <1>0, <1>11 DEF LookupFinds, SentOnce, TypeOK
  <2> QED BY <1>0, <1>11, <2>1, QuietStep DEF LookupFinds, broker, process
<1>12. CASE GuardRefuses \/ SubmitRejected \/ AdapterFindsNothing \/ AdapterLookupFails
              \/ EngineGivesUp \/ JournalAck \/ Poll \/ StopWaiting \/ CancelRemainder \/ Record
              \/ FinishStart \/ Reconnect \/ Reconcile \/ ReconcileFails
  <2>1. /\ UNCHANGED <<placed, inFlight, guard, bucket>>
        /\ pc # "down" /\ pc' \notin {"intent", "submit"} /\ cur' \in {cur, NoOrder}
        /\ pc' \in {"acked", "await", "cancel", "record"}
              => pc \in {"acked", "await", "cancel", "record"} /\ cur' = cur
    BY <1>12 DEF GuardRefuses, SubmitRejected, Send, AdapterFindsNothing, AdapterLookupFails,
                 EngineGivesUp, JournalAck, Poll, StopWaiting, CancelRemainder, Record,
                 FinishStart, Reconnect, Reconcile, ReconcileFails, Return, Forget, broker, process
  <2> QED BY <1>0, <2>1, QuietStep DEF AckedIsPlaced
<1>13. CASE UNCHANGED vars
  BY <1>0, <1>13 DEF vars, broker, process, SentIsSpent, Sent, Spent, SentOnce, AckedIsPlaced
<1> QED
  BY <1>1, <1>2, <1>3, <1>4, <1>5, <1>6, <1>7, <1>8, <1>9, <1>10, <1>11, <1>12, <1>13
     DEF Next, BrokerNext, EngineNext, SubmitNext

THEOREM OneOrderInvariant ==
    ASSUME KeysNeverReused
    PROVE  Spec => []OneOrderInv
  BY OneOrderInit, OneOrderStep, PTL DEF Spec

-----------------------------------------------------------------------------
(* The refinement of OrderPromise. *)

Intended == {k \in Keys : rows[k].status # "none"}
Known == {k \in Keys : rows[k].hasId}

\* A step that begins an order adds at most its key to the intents.
LEMMA BeginStep ==
    ASSUME TypeOK, NEW j \in Keys, RecordIntent(j)
    PROVE  Known' = Known /\ Intended' \in {Intended, Intended \union {j}}
                /\ (Intended' # Intended => j \notin Intended)
  BY IntentKept DEF Intended, Known, RecordIntent, TypeOK, Rows

\* A step that writes a row which exists leaves the intents as they are.
LEMMA WriteStep ==
    ASSUME \A k \in Keys : RowKept(k),
           \A k \in Keys : rows[k].status = "none" => rows'[k].status = "none"
    PROVE  Intended' = Intended /\ Known \subseteq Known'
  BY DEF Intended, Known, RowKept

LEMMA PromiseInitially == Init => Promise!PromiseInit
  BY DEF Init, Promise!PromiseInit, NoRow

LEMMA PromiseStep ==
    ASSUME KeysNeverReused, OneOrderInv, OneOrderInv', [Next]_vars
    PROVE  [Promise!PromiseNext]_(Promise!promiseVars)
<1> USE DEF OneOrderInv, JournalInv
<1> DEFINE Stutter == placed' = placed /\ Intended' = Intended /\ Known' = Known
           Goal == [Promise!PromiseNext]_(Promise!promiseVars)
<1>a. Stutter => Goal
  BY DEF Promise!promiseVars, Intended, Known
<1>b. ASSUME NEW j \in Keys, placed' = placed, Known' = Known, j \notin Intended,
             Intended' = Intended \union {j}
      PROVE  Goal
  BY <1>b DEF Promise!PromiseNext, Promise!Intend, Intended, Known
<1>c. ASSUME NEW j \in Keys, j \in Intended, placed[j] = 0, placed' = [placed EXCEPT ![j] = 1],
             Intended' = Intended, Known' = Known
      PROVE  Goal
  BY <1>c DEF Promise!PromiseNext, Promise!Accept, Intended, Known
<1>d. ASSUME placed' = placed, Intended' = Intended, Known \subseteq Known',
             \A k \in Known' \ Known : placed[k] = 1
      PROVE  Goal
  BY <1>d DEF Promise!PromiseNext, Promise!Acknowledge, Intended, Known
<1> SUFFICES Goal
  OBVIOUS
<1> HIDE DEF Goal
<1>1. CASE BeginEntry \/ \E q \in 1..MaxQty : BeginExit(q)
  <2>1. cur' \in Keys /\ RecordIntent(cur') /\ placed' = placed
    BY <1>1 DEF BeginEntry, BeginExit, TypeOK, broker
  <2> QED BY <2>1, BeginStep, <1>a, <1>b
<1>2. CASE UNCHANGED <<placed, rows>>
  BY <1>2, <1>a DEF Intended, Known
<1>3. CASE placed' = placed /\ \E st \in Statuses \ {"none"} : SetStatus(cur, st)
              /\ Busy
  <2>1. \A k \in Keys : RowKept(k) /\ rows'[k].hasId = rows[k].hasId
    BY <1>3, StatusKept DEF TypeOK
  <2>2. \A k \in Keys : rows[k].status = "none" => rows'[k].status = "none"
    BY <1>3 DEF SetStatus, BusyHasRow, TypeOK, Rows
  <2>3. Intended' = Intended
    BY <2>1, <2>2, WriteStep
  <2>4. Known' = Known
    BY <2>1 DEF Known
  <2> QED BY <1>3, <2>3, <2>4, <1>a
<1>4. ASSUME NEW k \in Keys, Arrive(k) PROVE Goal
  <2>1. placed[k] = 0 /\ placed' = [placed EXCEPT ![k] = @ + 1] /\ rows' = rows /\ k \in Intended
    BY <1>4 DEF Arrive, PlaceOrder, SentOnce, IntentBeforeSubmit, Intended
  <2>2. placed' = [placed EXCEPT ![k] = 1]
    BY <2>1 DEF TypeOK
  <2> QED BY <2>1, <2>2, <1>c DEF Intended, Known
<1>5. CASE SubmitAnswered \/ SubmitAnswerLost \/ SubmitWithoutId
  <2>1. pc = "submit" /\ cur \notin guard /\ placed' = [placed EXCEPT ![cur] = @ + 1]
    BY <1>5 DEF SubmitAnswered, SubmitAnswerLost, SubmitWithoutId, Send, PlaceOrder
  <2>2. placed[cur] = 0 /\ cur \in Intended
    BY <2>1 DEF SentIsSpent, Sent, Spent, BusyHasRow, Busy, Intended, TypeOK
  <2>3. placed' = [placed EXCEPT ![cur] = 1]
    BY <2>1, <2>2 DEF TypeOK
  <2>4. rows' = rows \/ SetStatus(cur, "UNKNOWN")
    BY <1>5 DEF SubmitAnswered, SubmitAnswerLost, SubmitWithoutId
  <2>5. \A k \in Keys : RowKept(k) /\ rows'[k].hasId = rows[k].hasId
    BY <2>4, StatusKept DEF TypeOK, Statuses, RowKept
  <2>6. \A k \in Keys : rows[k].status = "none" => rows'[k].status = "none"
    BY <2>2, <2>4 DEF SetStatus, Intended, TypeOK, Rows
  <2>7. Intended' = Intended /\ Known' = Known
    BY <2>5, <2>6, WriteStep DEF Known
  <2> QED BY <2>2, <2>3, <2>7, <1>c DEF TypeOK
<1>6. CASE JournalAck \/ Record
  <2>1. placed' = placed /\ placed[cur] = 1 /\ cur \in Keys /\ rows[cur].status # "none"
    BY <1>6 DEF JournalAck, Record, broker, AckedIsPlaced, BusyHasRow, Busy, TypeOK
  <2>2. CASE UNCHANGED rows
    BY <2>1, <2>2, <1>a DEF Intended, Known
  <2>3. CASE rows' = [rows EXCEPT ![cur] = [status |-> "BROKER", hasId |-> TRUE]]
    <3>1. \A k \in Keys : RowKept(k) /\ (k # cur => rows'[k] = rows[k])
      BY <2>3, AckKept DEF TypeOK
    <3>2. Intended' = Intended /\ Known \subseteq Known'
      BY <3>1, <2>1, WriteStep
    <3>3. \A k \in Known' \ Known : placed[k] = 1
      BY <3>1, <2>1 DEF Known
    <3> QED BY <2>1, <3>2, <3>3, <1>d
  <2> QED BY <1>6, <2>2, <2>3 DEF JournalAck, Record
<1>7. CASE FinishStart \/ Reconnect
  <2>1. PICK failed : ResolveIntents(failed) /\ placed' = placed
    BY <1>7 DEF FinishStart, Reconnect, broker
  <2>2. Intended' = Intended /\ Known \subseteq Known'
    BY <2>1, ResolveKept, WriteStep
  <2>3. \A k \in Known' \ Known : placed[k] = 1
    BY <2>1, ResolveKept DEF Known, SentOnce, TypeOK
  <2> QED BY <2>1, <2>2, <2>3, <1>d
<1>8. ~SubmitGarbled
  BY DEF SubmitGarbled, KeysNeverReused
<1>9. MarkSubmitted \/ GuardRefuses \/ SubmitRejected \/ AdapterFindsNothing \/ AdapterLookupFails
        => placed' = placed /\ Busy
             /\ (UNCHANGED rows \/ \E st \in Statuses \ {"none"} : SetStatus(cur, st))
  BY DEF MarkSubmitted, GuardRefuses, SubmitRejected, Send, AdapterFindsNothing,
         AdapterLookupFails, broker, Statuses, Busy
<1>10. Tick \/ (\E k \in Keys : Fill(k) \/ Expire(k)) \/ SubmitLost \/ LookupFinds \/ EngineGivesUp
         \/ Poll \/ StopWaiting \/ CancelRemainder \/ Crash \/ Start \/ Reconcile \/ ReconcileFails
         \/ UNCHANGED vars
       => UNCHANGED <<placed, rows>>
  BY DEF Tick, Fill, Expire, SubmitLost, LookupFinds, EngineGivesUp, Poll, StopWaiting,
         CancelRemainder, Crash, Start, Reconcile, ReconcileFails, broker, vars
<1> QED
  BY <1>1, <1>2, <1>3, <1>4, <1>5, <1>6, <1>7, <1>8, <1>9, <1>10
     DEF Next, BrokerNext, EngineNext, SubmitNext

\* With every answer readable and no restart within the minute, the order path
\* implements OrderPromise: intent first, one order under a key, no id ever lost.
THEOREM OrderPathKeepsPromise ==
    ASSUME KeysNeverReused
    PROVE  Spec => KeepsPromise
<1>1. KeysNeverReused
  OBVIOUS
<1>2. OneOrderInv /\ OneOrderInv' /\ [Next]_vars => [Promise!PromiseNext]_(Promise!promiseVars)
  BY <1>1, PromiseStep
<1>3. Spec => []OneOrderInv
  BY <1>1, OneOrderInvariant
<1> QED BY <1>2, <1>3, PromiseInitially, PTL DEF Spec, KeepsPromise, Promise!PromiseSpec

-----------------------------------------------------------------------------
(* Entries stop at an entry order whose fate is unknown.                      *)

\* The lookups answer, no answer is garbled, and nothing arrives late.
AnswersDependable ==
    "garbled" \notin Faults /\ "late" \notin Faults /\ "lookupFails" \notin Faults

Unaccounted(k) == k.op = "enter" /\ placed[k] > 0 /\ ~rows[k].hasId

\* Entries allowed, the only order unaccounted for is the one being looked up.
OnlyCurUnaccounted ==
    tradingAllowed =>
        \A k \in Keys : Unaccounted(k) => (k = cur /\ pc \in {"adapterLookup", "acked"})

NothingPlaced == pc = "engineLookup" => placed[cur] = 0

EntryInv == JournalInv /\ inFlight = {} /\ NothingPlaced /\ OnlyCurUnaccounted

LEMMA EntryInit == Init => EntryInv
<1> SUFFICES ASSUME Init PROVE inFlight = {} /\ NothingPlaced /\ OnlyCurUnaccounted
  BY JournalInit DEF EntryInv
<1> QED BY DEF Init, NothingPlaced, OnlyCurUnaccounted

\* A step that places nothing and leaves no order to look up.
LEMMA CalmStep ==
    ASSUME EntryInv, [Next]_vars, JournalInv', UNCHANGED <<placed, inFlight>>,
           tradingAllowed' => tradingAllowed,
           pc' = "engineLookup" => placed[cur'] = 0,
           \/ pc \notin {"adapterLookup", "acked"}
           \/ pc' \in {"adapterLookup", "acked"} /\ cur' = cur
           \/ placed[cur] = 0
           \/ rows'[cur].hasId
           \/ cur.op # "enter"
    PROVE  EntryInv'
<1> USE DEF EntryInv, JournalInv
<1>1. \A k \in Keys : rows[k].hasId => rows'[k].hasId
  BY RowsKept DEF RowKept
<1>2. ASSUME tradingAllowed', NEW k \in Keys, Unaccounted(k)'
      PROVE  k = cur' /\ pc' \in {"adapterLookup", "acked"}
  <2>1. Unaccounted(k)
    BY <1>1, <1>2 DEF Unaccounted
  <2>2. k = cur /\ pc \in {"adapterLookup", "acked"}
    BY <1>2, <2>1 DEF OnlyCurUnaccounted
  <2> QED BY <1>2, <2>1, <2>2 DEF Unaccounted, TypeOK
<1>3. OnlyCurUnaccounted'
  BY <1>2 DEF OnlyCurUnaccounted
<1> QED BY <1>3 DEF NothingPlaced

LEMMA EntryStep ==
    ASSUME AnswersDependable, EntryInv, [Next]_vars
    PROVE  EntryInv'
<1> USE DEF EntryInv
<1>0. JournalInv' /\ TypeOK /\ TypeOK'
  BY JournalStep DEF JournalInv
<1>1. CASE SubmitAnswered \/ SubmitAnswerLost
  <2>1. /\ placed' = [placed EXCEPT ![cur] = @ + 1] /\ pc = "submit"
        /\ UNCHANGED <<inFlight, cur, rows, tradingAllowed>>
        /\ pc' \in {"adapterLookup", "acked"}
    BY <1>1 DEF SubmitAnswered, SubmitAnswerLost, Send, PlaceOrder
  <2>2. OnlyCurUnaccounted'
    BY <1>0, <2>1 DEF OnlyCurUnaccounted, Unaccounted, TypeOK
  <2> QED BY <1>0, <2>1, <2>2 DEF NothingPlaced
<1>2. CASE SubmitWithoutId
  <2>1. /\ placed' = [placed EXCEPT ![cur] = @ + 1] /\ pc = "submit" /\ pc' = "idle"
        /\ inFlight' = inFlight
    BY <1>2 DEF SubmitWithoutId, Send, PlaceOrder, Return
  <2>2. tradingAllowed' => tradingAllowed /\ cur.op # "enter"
    BY <1>2 DEF SubmitWithoutId
  <2>3. OnlyCurUnaccounted'
    BY <1>0, <2>1, <2>2, RowsKept DEF OnlyCurUnaccounted, Unaccounted, RowKept, TypeOK
  <2> QED BY <1>0, <2>1, <2>3 DEF NothingPlaced
<1>3. CASE FinishStart \/ Reconnect
  <2>1. PICK failed : ResolveIntents(failed) /\ UNCHANGED broker
    BY <1>3 DEF FinishStart, Reconnect
  <2>2. pc \in {"idle", "starting"} /\ pc' = "idle"
    BY <1>3 DEF FinishStart, Reconnect
  <2>3. ASSUME tradingAllowed', NEW k \in Keys PROVE ~Unaccounted(k)'
    <3>1. failed = {}
      BY <2>1, <2>3 DEF ResolveIntents
    <3>2. SUFFICES ASSUME placed[k] > 0 PROVE rows'[k].hasId
      BY <2>1 DEF broker, Unaccounted
    <3>3. rows[k].status # "none"
      BY <3>2 DEF JournalInv, IntentBeforeSubmit
    <3>4. CASE k \in Pending
      BY <2>1, <3>1, <3>2, <3>4 DEF ResolveIntents
    <3>5. CASE k \notin Pending
      <4>1. rows[k].hasId
        BY <3>3, <3>5, <1>0 DEF Pending, TypeOK, Rows
      <4> QED BY <4>1, RowsKept, <1>0 DEF RowKept
    <3> QED BY <3>4, <3>5
  <2> QED BY <1>0, <2>1, <2>2, <2>3 DEF broker, NothingPlaced, OnlyCurUnaccounted
<1>4. CASE \/ Tick \/ (\E k \in Keys : Fill(k) \/ Expire(k))
           \/ SubmitLost \/ LookupFinds \/ AdapterFindsNothing \/ UNCHANGED vars
  <2>1. /\ UNCHANGED <<placed, inFlight, tradingAllowed>>
        /\ \/ pc' = pc
           \/ pc = "submit" /\ pc' = "adapterLookup"
           \/ pc' = "acked"
           \/ pc' = "engineLookup" /\ placed[cur] = 0
        /\ cur' = cur
    BY <1>4 DEF AnswersDependable, Tick, Fill, Expire, SubmitLost, Send, LookupFinds,
                AdapterFindsNothing, broker, process, vars
  <2> QED BY <1>0, <2>1, CalmStep DEF NothingPlaced
<1>5. CASE \/ BeginEntry \/ (\E q \in 1..MaxQty : BeginExit(q)) \/ MarkSubmitted \/ GuardRefuses
           \/ SubmitRejected \/ Poll \/ StopWaiting \/ CancelRemainder \/ Record \/ Start
           \/ Reconcile \/ ReconcileFails
  <2>1. /\ UNCHANGED <<placed, inFlight>> /\ (tradingAllowed' => tradingAllowed)
        /\ pc \notin {"adapterLookup", "acked"} /\ pc' # "engineLookup"
    BY <1>5 DEF BeginEntry, BeginExit, MarkSubmitted, GuardRefuses, SubmitRejected, Send, Poll,
                StopWaiting, CancelRemainder, Record, Start, Reconcile, ReconcileFails, Return,
                broker, process
  <2> QED BY <1>0, <2>1, CalmStep
<1>6. CASE EngineGivesUp
  <2>1. /\ UNCHANGED <<placed, inFlight>> /\ (tradingAllowed' => tradingAllowed)
        /\ pc = "engineLookup" /\ pc' = "idle"
    BY <1>6 DEF EngineGivesUp, Return, broker
  <2> QED BY <1>0, <2>1, CalmStep
<1>7. CASE JournalAck
  <2>1. UNCHANGED <<placed, inFlight, tradingAllowed>> /\ pc' = "await"
    BY <1>7 DEF JournalAck, broker, process
  <2>2. cur.op = "enter" => rows'[cur].hasId
    BY <1>0, <1>7 DEF JournalAck, TypeOK
  <2> QED BY <1>0, <2>1, <2>2, CalmStep
<1>8. CASE Crash
  <2>1. UNCHANGED <<placed, inFlight>> /\ ~tradingAllowed' /\ pc' = "down"
    BY <1>8 DEF Crash, broker
  <2> QED BY <1>0, <2>1 DEF NothingPlaced, OnlyCurUnaccounted
<1>9. ~SubmitGarbled /\ ~AdapterLookupFails /\ \A k \in Keys : ~Arrive(k)
  BY DEF SubmitGarbled, AdapterLookupFails, Arrive, AnswersDependable
<1> QED
  BY <1>1, <1>2, <1>3, <1>4, <1>5, <1>6, <1>7, <1>8, <1>9
     DEF Next, BrokerNext, EngineNext, SubmitNext

\* With dependable answers, entries are allowed between two orders only while the
\* journal has the id of every entry order at the broker.
THEOREM UnknownEntriesHalt ==
    ASSUME AnswersDependable
    PROVE  Spec => []EntriesKnowTheirOrders
<1>1. EntryInv /\ [Next]_vars => EntryInv'
  BY EntryStep
<1>2. EntryInv => EntriesKnowTheirOrders
  BY DEF EntryInv, OnlyCurUnaccounted, Unaccounted, EntriesKnowTheirOrders
<1> QED BY EntryInit, <1>1, <1>2, PTL DEF Spec
=============================================================================
