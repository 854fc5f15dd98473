-------------------------- MODULE OrderExecution --------------------------
(***************************************************************************)
(* The order path for one contract: ExecutionEngine.execute and            *)
(* close_position over the Groww adapter, the journal of intents, and the  *)
(* startup and periodic reconciliation, with a broker that fills, expires  *)
(* and cancels on its own and a process that may die at any step.          *)
(* max_open_positions is 1, so an entry is tried only when nothing is      *)
(* tracked.                                                                *)
(*                                                                         *)
(* Every request may be lost, refused, or accepted with its answer lost,   *)
(* and every read may fail.  Faults adds what a run wants on top:          *)
(*   "lookupFails"  the adapter's lookup after a lost answer fails too     *)
(*   "garbled"      an accepted order is answered with a body the client   *)
(*                  cannot parse                                           *)
(*   "late"         a request given up as lost reaches the broker later    *)
(*   "fastRestart"  a new process starts in the minute the old one died in *)
(***************************************************************************)
EXTENDS Integers, Functions

CONSTANTS
    EntryQty,   \* the quantity the risk gate approves
    MaxQty,     \* bound: the largest quantity of one order
    MaxBucket,  \* bound: minutes the model runs for
    MaxOrders,  \* bound: orders the broker accepts
    Faults

ASSUME EnvironmentAssumption ==
    /\ MaxQty \in Nat \ {0} /\ EntryQty \in 1..MaxQty
    /\ MaxBucket \in Nat /\ MaxOrders \in Nat \ {0}
    /\ Faults \subseteq {"lookupFails", "garbled", "late", "fastRestart"}

VARIABLES
    bucket,          \* decision_bucket: the minute it is
    placed,          \* broker: orders accepted under each key
    filled,          \* broker: units filled under each key
    live,            \* broker: keys with an order still open
    inFlight,        \* requests that will still reach the broker
    held,            \* broker: the signed position in the contract
    rows,            \* journal: status of each key's row, and whether it has a broker id
    pc,              \* where the process is; "down" when there is none
    cur,             \* the key of the order being executed
    view,            \* the last state of that order the engine has seen
    guard,           \* IdempotencyGuard: keys sent by this process
    tracked,         \* PositionManager: the signed position it manages
    tradingAllowed,  \* orchestrator.trading_allowed
    unmanaged        \* startup: the broker reported a position

broker == <<placed, filled, live, inFlight, held>>
process == <<guard, tracked, tradingAllowed, unmanaged>>
vars == <<bucket, broker, rows, pc, cur, view, process>>

-----------------------------------------------------------------------------
\* make_client_order_id: what the key is a digest of.  An entry buys; an exit
\* sells, or buys back a short position that reconciliation took over.
Ops == {"enter", "sellOut", "buyBack"}
Keys == [op : Ops, qty : 1..MaxQty, bucket : 0..MaxBucket]
Sign(k) == IF k.op = "sellOut" THEN -1 ELSE 1

Statuses == {"none", "INTENT", "SUBMITTED", "UNKNOWN", "CLOSED", "NEVER_SUBMITTED", "BROKER"}
\* CLOSED stands for FAILED, REJECTED and DUPLICATE_BLOCKED; BROKER for whatever
\* status the broker reported.
NoRow == [status |-> "none", hasId |-> FALSE]
Rows == [status : Statuses, hasId : BOOLEAN]

\* pending_order_intents
Pending == {k \in Keys : /\ rows[k].status # "none"
                         /\ \/ rows[k].status \in {"INTENT", "SUBMITTED", "UNKNOWN"}
                            \/ ~rows[k].hasId}

AbsOf(n) == IF n < 0 THEN -n ELSE n

SetStatus(k, s) == rows' = [rows EXCEPT ![k].status = s]

\* record_order_intent: INSERT OR IGNORE.
RecordIntent(k) ==
    rows' = IF rows[k].status = "none" THEN [rows EXCEPT ![k].status = "INTENT"] ELSE rows

NoView == [filled |-> 0, open |-> FALSE]
NoOrder == [op |-> "enter", qty |-> EntryQty, bucket |-> 0]
\* Mutant: the fill of a sale is read as a negative quantity.
SeenNowSigned(k) == [filled |-> Sign(k) * filled[k], open |-> k \in live]

SeenNow(k) == [filled |-> filled[k], open |-> k \in live]

-----------------------------------------------------------------------------
Init ==
    /\ bucket = 0
    /\ placed = [k \in Keys |-> 0] /\ filled = [k \in Keys |-> 0]
    /\ live = {} /\ inFlight = {} /\ held = 0
    /\ rows = [k \in Keys |-> NoRow]
    /\ pc = "starting" /\ view = NoView
    /\ cur = NoOrder
    /\ guard = {} /\ tracked = 0 /\ tradingAllowed = FALSE /\ unmanaged = FALSE

\* Bound: a process can still start in the last minute.
Tick ==
    /\ bucket < MaxBucket
    /\ pc = "down" => bucket + 1 < MaxBucket
    /\ bucket' = bucket + 1
    /\ UNCHANGED <<broker, rows, pc, cur, view, process>>

-----------------------------------------------------------------------------
(* The broker, on its own. *)

BookHasRoom == FoldFunction(+, 0, placed) < MaxOrders

PlaceOrder(k) ==
    /\ BookHasRoom
    /\ placed' = [placed EXCEPT ![k] = @ + 1]
    /\ live' = live \union {k}
    /\ UNCHANGED <<filled, held>>

Fill(k) ==
    /\ k \in live /\ filled[k] < placed[k] * k.qty
    /\ filled' = [filled EXCEPT ![k] = @ + 1]
    /\ held' = held + Sign(k)
    /\ live' = IF filled'[k] = placed[k] * k.qty THEN live \ {k} ELSE live
    /\ UNCHANGED <<bucket, placed, inFlight, rows, pc, cur, view, process>>

\* Cancelled or refused by the exchange after it was accepted.
Expire(k) ==
    /\ k \in live
    /\ live' = live \ {k}
    /\ UNCHANGED <<bucket, placed, filled, inFlight, held, rows, pc, cur, view, process>>

Arrive(k) ==
    /\ k \in inFlight
    /\ inFlight' = inFlight \ {k}
    /\ PlaceOrder(k)
    /\ UNCHANGED <<bucket, rows, pc, cur, view, process>>

-----------------------------------------------------------------------------
(* The engine: what it knows of an order dies when it returns. *)

Forget == cur' = NoOrder /\ view' = NoView
Return == pc' = "idle" /\ Forget

(* Steps 8 and 9: the intent, then the submission. *)

BeginEntry ==
    /\ pc = "idle" /\ tradingAllowed /\ tracked = 0
    /\ cur' = [op |-> "enter", qty |-> EntryQty, bucket |-> bucket]
    /\ RecordIntent(cur')
    /\ pc' = "intent" /\ view' = NoView
    /\ UNCHANGED <<bucket, broker, process>>

MarkSubmitted ==
    /\ pc = "intent"
    /\ SetStatus(cur, "SUBMITTED")
    /\ pc' = "submit"
    /\ UNCHANGED <<bucket, broker, cur, view, process>>

\* Mutant: an exit goes out without its intent.
BeginExitUnrecorded(q) ==
    /\ pc = "idle" /\ tracked # 0 /\ q <= AbsOf(tracked)
    /\ cur' = [op |-> IF tracked > 0 THEN "sellOut" ELSE "buyBack",
               qty |-> q, bucket |-> bucket]
    /\ pc' = "submit" /\ view' = NoView
    /\ UNCHANGED <<bucket, broker, rows, process>>

\* close_position, of the whole position or of a part; no SUBMITTED row.
BeginExit(q) ==
    /\ pc = "idle" /\ tracked # 0 /\ q <= AbsOf(tracked)
    /\ cur' = [op |-> IF tracked > 0 THEN "sellOut" ELSE "buyBack",
               qty |-> q, bucket |-> bucket]
    /\ RecordIntent(cur')
    /\ pc' = "submit" /\ view' = NoView
    /\ UNCHANGED <<bucket, broker, process>>

\* IdempotencyGuard.reserve refuses a key this process has sent.
GuardRefuses ==
    /\ pc = "submit" /\ cur \in guard
    /\ SetStatus(cur, "CLOSED")
    /\ Return
    /\ UNCHANGED <<bucket, broker, process>>

\* The request is on the wire.
Send ==
    /\ pc = "submit" /\ cur \notin guard
    /\ UNCHANGED <<bucket, tracked, unmanaged>>

SubmitAnswered ==
    /\ Send /\ PlaceOrder(cur)
    /\ guard' = guard \union {cur}
    /\ pc' = "acked" /\ view' = [filled |-> 0, open |-> TRUE]
    /\ UNCHANGED <<inFlight, rows, cur, tradingAllowed>>

\* Mutant: the key is released when the answer is lost.
SubmitAnswerLostReleased ==
    /\ Send /\ PlaceOrder(cur)
    /\ pc' = "adapterLookup"
    /\ UNCHANGED <<inFlight, rows, cur, view, guard, tradingAllowed>>

SubmitAnswerLost ==
    /\ Send /\ PlaceOrder(cur)
    /\ guard' = guard \union {cur}
    /\ pc' = "adapterLookup"
    /\ UNCHANGED <<inFlight, rows, cur, view, tradingAllowed>>

SubmitLost ==
    /\ Send
    /\ guard' = guard \union {cur}
    /\ inFlight' \in {inFlight} \union (IF "late" \in Faults THEN {inFlight \union {cur}} ELSE {})
    /\ pc' = "adapterLookup"
    /\ UNCHANGED <<placed, filled, live, held, rows, cur, view, tradingAllowed>>

\* Refused by the broker (OrderRejected, rate limit, authentication): the key is
\* released.
SubmitRejected ==
    /\ Send
    /\ SetStatus(cur, "CLOSED")
    /\ Return
    /\ UNCHANGED <<broker, guard, tradingAllowed>>

\* _unwrap raises a plain BrokerError on a body it cannot parse: taken for a
\* refusal, although the order is in the book.
SubmitGarbled ==
    /\ "garbled" \in Faults
    /\ Send /\ PlaceOrder(cur)
    /\ SetStatus(cur, "CLOSED")
    /\ Return
    /\ UNCHANGED <<inFlight, guard, tradingAllowed>>

\* Mutant: an entry without an id does not halt the entries.
SubmitWithoutIdUnhalted ==
    /\ Send /\ PlaceOrder(cur)
    /\ guard' = guard \union {cur}
    /\ IF cur.op = "enter" THEN UNCHANGED rows ELSE SetStatus(cur, "UNKNOWN")
    /\ Return
    /\ UNCHANGED <<inFlight, tradingAllowed>>

\* Answered without an order id.
SubmitWithoutId ==
    /\ Send /\ PlaceOrder(cur)
    /\ guard' = guard \union {cur}
    /\ IF cur.op = "enter" THEN UNCHANGED rows ELSE SetStatus(cur, "UNKNOWN")
    /\ tradingAllowed' = (tradingAllowed /\ cur.op # "enter")
    /\ Return
    /\ UNCHANGED inFlight

-----------------------------------------------------------------------------
(* An ambiguous submission: the adapter looks the key up, then the engine. *)

LookupFinds ==
    /\ pc \in {"adapterLookup", "engineLookup"} /\ placed[cur] > 0
    /\ pc' = "acked" /\ view' = SeenNow(cur)
    /\ UNCHANGED <<bucket, broker, rows, cur, process>>

AdapterFindsNothing ==
    /\ pc = "adapterLookup" /\ placed[cur] = 0
    /\ IF cur.op = "enter" THEN SetStatus(cur, "UNKNOWN") ELSE UNCHANGED rows
    /\ pc' = "engineLookup"
    /\ UNCHANGED <<bucket, broker, cur, view, process>>

\* The lookup inside place_order raises its own BrokerError, which the engine
\* takes for a definite failure.
AdapterLookupFails ==
    /\ "lookupFails" \in Faults
    /\ pc = "adapterLookup"
    /\ SetStatus(cur, "CLOSED")
    /\ Return
    /\ UNCHANGED <<bucket, broker, process>>

\* Three lookups without an order: only an entry halts the entries.
EngineGivesUp ==
    /\ pc = "engineLookup"
    /\ tradingAllowed' = (tradingAllowed /\ cur.op # "enter")
    /\ Return
    /\ UNCHANGED <<bucket, broker, rows, guard, tracked, unmanaged>>

-----------------------------------------------------------------------------
(* Steps 10 to 13: acknowledge, wait for the fill, settle, record. *)

JournalAck ==
    /\ pc = "acked"
    /\ rows' = IF cur.op = "enter"
                 THEN [rows EXCEPT ![cur] = [status |-> "BROKER", hasId |-> TRUE]]
                 ELSE rows
    /\ pc' = "await"
    /\ UNCHANGED <<bucket, broker, cur, view, process>>

\* _await_fill: another query, while the last answer was not final.
Poll ==
    /\ pc = "await" /\ view.open
    /\ view' = SeenNow(cur)
    /\ UNCHANGED <<bucket, broker, rows, pc, cur, process>>

\* The last answer was final, or the timeout has passed.
StopWaiting ==
    /\ pc = "await"
    /\ IF cur.op = "enter" /\ view = NoView
         THEN Return
         ELSE /\ pc' = IF cur.op = "enter" /\ view.open THEN "cancel" ELSE "record"
              /\ UNCHANGED <<cur, view>>
    /\ UNCHANGED <<bucket, broker, rows, process>>

\* _cancel swallows a failure; an order closed meanwhile cannot be cancelled.
CancelRemainder ==
    /\ pc = "cancel"
    /\ live' \in {live, live \ {cur}}
    /\ IF view.filled = 0
         THEN Return
         ELSE pc' = "record" /\ UNCHANGED <<cur, view>>
    /\ UNCHANGED <<bucket, placed, filled, inFlight, held, rows, process>>

\* The journal takes the fill, then _enter tracks what the engine saw filled and
\* _exit untracks: all of the position, or the quantity asked for -- or raises
\* before it does, as it always does for an adopted position.
Record ==
    /\ pc = "record"
    /\ rows' = [rows EXCEPT ![cur] = [status |-> "BROKER", hasId |-> TRUE]]
    /\ tracked' \in IF cur.op = "enter" THEN {view.filled}
                    ELSE IF view.filled = 0 THEN {tracked}
                    ELSE {tracked, IF cur.qty = AbsOf(tracked) THEN 0
                                   ELSE tracked + Sign(cur) * cur.qty}
    /\ Return
    /\ UNCHANGED <<bucket, broker, guard, tradingAllowed, unmanaged>>

-----------------------------------------------------------------------------
(* Crash, restart, reconciliation. *)

\* Bound: the process of the last minute does not die.
Crash ==
    /\ pc # "down" /\ bucket < MaxBucket
    /\ pc' = "down" /\ Forget
    /\ guard' = {} /\ tracked' = 0 /\ tradingAllowed' = FALSE /\ unmanaged' = FALSE
    /\ UNCHANGED <<bucket, broker, rows>>

\* start(): the reconciler reads the positions first.
Start ==
    /\ pc = "down"
    /\ bucket' = IF "fastRestart" \in Faults THEN bucket ELSE bucket + 1
    /\ bucket' <= MaxBucket
    /\ unmanaged' = (held # 0)
    /\ pc' = "starting"
    /\ UNCHANGED <<broker, rows, cur, view, guard, tracked, tradingAllowed>>

\* Mutant: an intent that could not be looked up does not block.
ResolveIntentsRegardless(failed) ==
    /\ rows' = [k \in Keys |->
                 IF k \notin Pending \ failed THEN rows[k]
                 ELSE IF placed[k] > 0 THEN [status |-> "BROKER", hasId |-> TRUE]
                 ELSE [rows[k] EXCEPT !.status = "NEVER_SUBMITTED"]]
    /\ tradingAllowed' = TRUE

\* _resolve_pending_intents: every pending row is looked up; those in failed
\* could not be.
ResolveIntents(failed) ==
    /\ rows' = [k \in Keys |->
                 IF k \notin Pending \ failed THEN rows[k]
                 ELSE IF placed[k] > 0 THEN [status |-> "BROKER", hasId |-> TRUE]
                 ELSE [rows[k] EXCEPT !.status = "NEVER_SUBMITTED"]]
    /\ tradingAllowed' = (failed = {})

\* ... then the positions of that first reading are adopted, if the second
\* reading succeeds, and safe_to_trade decides about entries.
FinishStart ==
    /\ pc = "starting"
    /\ \E failed \in SUBSET Pending : ResolveIntents(failed)
    /\ tracked' \in (IF unmanaged THEN {0, held} ELSE {0})
    /\ pc' = "idle" /\ unmanaged' = FALSE
    /\ UNCHANGED <<bucket, broker, cur, view, guard>>

\* The broker is authoritative for what is tracked; what is not is only reported.
CorrectTracked == tracked' = IF tracked = 0 THEN 0 ELSE held

\* Supervisor._reconnect.
Reconnect ==
    /\ pc = "idle"
    /\ \E failed \in SUBSET Pending : ResolveIntents(failed)
    /\ CorrectTracked
    /\ UNCHANGED <<bucket, broker, pc, cur, view, guard, unmanaged>>

\* The periodic reconciliation of run_cycle.
Reconcile ==
    /\ pc = "idle"
    /\ CorrectTracked
    /\ UNCHANGED <<bucket, broker, rows, pc, cur, view, guard, tradingAllowed, unmanaged>>

\* Any of the three, when the broker cannot be read.
ReconcileFails ==
    /\ pc \in {"idle", "starting"}
    /\ pc' = "idle" /\ tradingAllowed' = FALSE /\ unmanaged' = FALSE
    /\ UNCHANGED <<bucket, broker, rows, cur, view, guard, tracked>>

-----------------------------------------------------------------------------
BrokerNext == \E k \in Keys : Fill(k) \/ Expire(k) \/ Arrive(k)

SubmitNext ==
    \/ GuardRefuses \/ SubmitAnswered \/ SubmitAnswerLost \/ SubmitLost
    \/ SubmitRejected \/ SubmitGarbled \/ SubmitWithoutId
    \/ LookupFinds \/ AdapterFindsNothing \/ AdapterLookupFails \/ EngineGivesUp

EngineNext ==
    \/ BeginEntry \/ MarkSubmitted \/ (\E q \in 1..MaxQty : BeginExit(q))
    \/ SubmitNext
    \/ JournalAck \/ Poll \/ StopWaiting \/ CancelRemainder \/ Record

Next ==
    \/ Tick \/ BrokerNext \/ EngineNext
    \/ Crash \/ Start \/ FinishStart \/ Reconnect \/ Reconcile \/ ReconcileFails

Spec == Init /\ [][Next]_vars

-----------------------------------------------------------------------------
TypeOK ==
    /\ bucket \in 0..MaxBucket
    /\ placed \in [Keys -> Nat] /\ filled \in [Keys -> Nat]
    /\ live \subseteq Keys /\ inFlight \subseteq Keys /\ held \in Int
    /\ rows \in [Keys -> Rows]
    /\ pc \in {"down", "starting", "idle", "intent", "submit", "adapterLookup",
               "engineLookup", "acked", "await", "cancel", "record"}
    /\ cur \in Keys /\ view \in [filled : Nat, open : BOOLEAN]
    /\ guard \subseteq Keys /\ tracked \in Int
    /\ tradingAllowed \in BOOLEAN /\ unmanaged \in BOOLEAN

\* The order path keeps OrderPromise: intent on disk first, at most one order
\* under a key, no journaled broker id ever lost.
Promise == INSTANCE OrderPromise WITH
    intended <- {k \in Keys : rows[k].status # "none"},
    known    <- {k \in Keys : rows[k].hasId}

KeepsPromise == Promise!PromiseSpec

\* While entries are allowed and no order is being executed, the journal has the
\* broker's id of every entry order the broker accepted: an entry whose fate is
\* unknown stops all further entries, across restarts too.
EntriesKnowTheirOrders ==
    (pc = "idle" /\ tradingAllowed) =>
        \A k \in Keys : (k.op = "enter" /\ placed[k] > 0) => rows[k].hasId

\* An intent is on disk before the request is on the wire, whatever the network
\* does: no broker order is one the next start would not ask about.
IntentBeforeSubmit ==
    \A k \in Keys : (placed[k] > 0 \/ k \in inFlight) => rows[k].status # "none"

\* Entries are unblocked (after a start or a broker session restored) only by a
\* reconciliation after which the journal has every order at the broker.
UnblockedMeansReconciled ==
    [][(~tradingAllowed /\ tradingAllowed')
          => \A k \in Keys : placed'[k] > 0 => rows'[k].hasId]_vars

\* An ambiguous submit is resolved by lookup, "never by resubmitting": no exit
\* order is accepted while the broker has an earlier exit of the same position
\* whose id the journal does not know.
AmbiguousExitNotRepeated ==
    [][\A k \in Keys : (k.op = "sellOut" /\ placed'[k] > placed[k])
          => \A j \in Keys \ {k} : ~(j.op = "sellOut" /\ placed[j] > 0 /\ ~rows[j].hasId)]_vars

=============================================================================
