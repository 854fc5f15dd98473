--------------------------- MODULE OrderPromise ---------------------------
(***************************************************************************)
(* What the order path promises about each idempotency key, whatever       *)
(* happens between the process, its journal and the broker: the intent is  *)
(* on disk before the broker can have an order, the broker gets at most    *)
(* one order under the key, and an order whose broker id is in the journal *)
(* is never lost from it again.                                            *)
(***************************************************************************)
EXTENDS Naturals

CONSTANT Keys

VARIABLES
    intended,  \* keys with an intent on disk
    placed,    \* orders the broker has accepted under each key
    known      \* keys whose broker order id is on disk

promiseVars == <<intended, placed, known>>

PromiseInit ==
    /\ intended = {} /\ known = {}
    /\ placed = [k \in Keys |-> 0]

Intend(k) ==
    /\ k \notin intended
    /\ intended' = intended \union {k}
    /\ UNCHANGED <<placed, known>>

Accept(k) ==
    /\ k \in intended /\ placed[k] = 0
    /\ placed' = [placed EXCEPT ![k] = 1]
    /\ UNCHANGED <<intended, known>>

\* One acknowledgement makes one order known; a reconciliation, several.
Acknowledge ==
    /\ known \subseteq known' /\ known' \subseteq Keys
    /\ \A k \in known' \ known : placed[k] = 1
    /\ UNCHANGED <<intended, placed>>

PromiseNext ==
    \/ \E k \in Keys : Intend(k)
    \/ \E k \in Keys : Accept(k)
    \/ Acknowledge

PromiseSpec == PromiseInit /\ [][PromiseNext]_promiseVars
=============================================================================
