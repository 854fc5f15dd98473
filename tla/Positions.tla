----------------------------- MODULE Positions -----------------------------
(***************************************************************************)
(* execution/position_manager.py and execution/reconcile.py: the positions *)
(* the loop tracks in one contract, their stops, scale-outs and exits,     *)
(* against what the broker holds of it.  Contracts are independent of each *)
(* other, so one is enough.  Prices are whole numbers of a tick that is    *)
(* larger than the tolerance of a price mismatch; quantities are in lots.  *)
(***************************************************************************)
EXTENDS Integers, Sequences, SequencesExt

CONSTANTS
    Prices,        \* prices of the contract
    Fills,         \* prices at which entries are filled
    Sizes,         \* quantities of entries
    Risk,          \* contract_risk of an entry
    Reward,        \* contract_reward of an entry
    MaxPositions,  \* positions tracked in this one contract
    MaxHeld,       \* bound: what the account may hold, long or short
    Scenarios      \* the faults a behaviour may meet, with the prices it moves among

LowestPrice == 1
Faults == {"late",    \* the rest of an order is filled after the engine gave up on it
           "manual",  \* the operator trades the contract from another terminal
           "reprice", \* the broker averages over trades the loop knows nothing of
           "restart"} \* the process ends and another one adopts what it finds

ASSUME PositionsAssumption ==
    /\ Fills \subseteq Prices /\ Prices \subseteq Nat \ {0}
    /\ Sizes \subseteq Nat \ {0}
    /\ Risk \in Nat \ {0} /\ Reward \in Nat \ {0}
    /\ MaxPositions \in Nat \ {0} /\ MaxHeld \in Nat \ {0}
    /\ Scenarios \subseteq [faults : SUBSET Faults, prices : SUBSET Prices]

VARIABLES
    scenario, \* the scenario of this behaviour
    book,     \* PositionManager._positions, in the order of insertion
    held,     \* what the broker holds, signed
    avg,      \* its average price there
    working,  \* signed: what a live rest of an order may still buy or sell
    price,    \* the last price of the contract
    allowed   \* orchestrator.trading_allowed

vars == <<scenario, book, held, avg, working, price, allowed>>

-----------------------------------------------------------------------------
(* ManagedPosition.  best is max_favourable_price, 0 before the first      *)
(* update; adopted stands for the entry time without a zone that only      *)
(* adopt_unmanaged gives; corrected is history: reconciliation changed it. *)

Position == [dir : {1, -1}, qty : Nat \ {0}, entry : Nat, stop : Int, target : Int,
             initial : Int, best : Nat, breakeven : BOOLEAN, trailing : BOOLEAN,
             partials : Nat, adopted : BOOLEAN, corrected : BOOLEAN]

NewPosition(dir, qty, entry, stop, target, adopted) ==
    [dir |-> dir, qty |-> qty, entry |-> entry, stop |-> stop, target |-> target,
     initial |-> stop, best |-> 0, breakeven |-> FALSE, trailing |-> FALSE,
     partials |-> 0, adopted |-> adopted, corrected |-> adopted]

\* a is at least as favourable as b for a position of that direction.
AtLeast(dir, a, b) == dir * a >= dir * b

RiskPerUnit(p) == IF p.entry >= p.initial THEN p.entry - p.initial ELSE p.initial - p.entry

\* r_multiple >= n / d at the last price; without risk the multiple is 0.
RAtLeast(p, n, d) ==
    RiskPerUnit(p) > 0 /\ d * p.dir * (price - p.entry) >= n * RiskPerUnit(p)

\* update: the best price so far.
Seen(p) ==
    [p EXCEPT !.best = IF p.best = 0 \/ AtLeast(p.dir, price, p.best) THEN price ELSE p.best]

StopHit(p) == AtLeast(p.dir, p.stop, price)
TargetHit(p) == AtLeast(p.dir, price, p.target)

\* _manage_stop.
Improves(p, stop) == ~AtLeast(p.dir, p.stop, stop)
BreakevenDue(p) == ~p.breakeven /\ RAtLeast(p, 1, 1) /\ Improves(p, p.entry)
TrailingStop(p) == p.best - p.dir * RiskPerUnit(p)

\* Mutant: the trail follows the price whatever the stop is already.
TrailDueAlways(p) == RAtLeast(p, 3, 2)
TrailDue(p) == RAtLeast(p, 3, 2) /\ Improves(p, TrailingStop(p))
ScaleOutDue(p) == RAtLeast(p, 2, 1) /\ p.partials = 0 /\ p.qty >= 2

-----------------------------------------------------------------------------
(* The broker's side. *)

Holdings == -MaxHeld..MaxHeld
Sign(n) == IF n > 0 THEN 1 ELSE IF n < 0 THEN -1 ELSE 0

\* The holding changes at a price: a reduction keeps the average, an addition moves
\* it somewhere between the two (bound: to one of them), and of nothing there is none.
Trades(change, at) ==
    /\ held' = held + change
    /\ held' \in Holdings
    /\ avg' \in IF held' = 0 THEN {LowestPrice}
               ELSE IF Sign(held') # Sign(held) THEN {at}
               ELSE IF Sign(change) = Sign(held) THEN {avg, at}
               ELSE {avg}

\* What is left of an order after the engine gave up on it is dead, or live for a
\* while (bound: one at a time).
LeavesRest(rest) ==
    \/ UNCHANGED working
    \/ "late" \in scenario.faults /\ working = 0 /\ working' = rest

Init ==
    /\ scenario \in Scenarios
    /\ book = <<>> /\ held = 0 /\ avg = LowestPrice /\ working = 0
    /\ price \in scenario.prices /\ allowed \in BOOLEAN

Quote ==
    /\ price' \in scenario.prices
    /\ UNCHANGED <<scenario, book, held, avg, working, allowed>>

LateFill ==
    /\ working # 0
    /\ Trades(Sign(working), price)
    /\ working' = working - Sign(working)
    /\ UNCHANGED <<scenario, book, price, allowed>>

RestDies ==
    /\ working # 0 /\ working' = 0
    /\ UNCHANGED <<scenario, book, held, avg, price, allowed>>

ManualTrade ==
    /\ "manual" \in scenario.faults
    /\ \E change \in {1, -1} : Trades(change, price)
    /\ UNCHANGED <<scenario, book, working, price, allowed>>

Reprice ==
    /\ "reprice" \in scenario.faults /\ held # 0
    /\ avg' \in Fills
    /\ UNCHANGED <<scenario, book, held, working, price, allowed>>

-----------------------------------------------------------------------------
(* Entries. *)

\* A fill, whole or partial, is tracked at its own price; the rest is cancelled.
Enter ==
    /\ allowed /\ Len(book) < MaxPositions
    /\ \E size \in Sizes, fill \in Fills : \E filled \in 1..size :
         /\ Trades(filled, fill)
         /\ LeavesRest(size - filled)
         /\ LET stop == IF fill - Risk >= LowestPrice THEN fill - Risk ELSE LowestPrice
            IN book' = Append(book, NewPosition(1, filled, fill, stop, fill + Reward, FALSE))
    /\ UNCHANGED <<scenario, price, allowed>>

\* Nothing is filled in time: nothing is tracked, and the order is cancelled.
EnterUnfilled ==
    /\ allowed /\ Len(book) < MaxPositions
    /\ \E size \in Sizes : LeavesRest(size)
    /\ UNCHANGED <<scenario, book, held, avg, price, allowed>>

\* The outcome is unknown: nothing is tracked and entries halt.
EnterUnknown ==
    /\ allowed /\ Len(book) < MaxPositions
    /\ \E size \in Sizes, fill \in Fills : \E filled \in 0..size : Trades(filled, fill)
    /\ allowed' = FALSE
    /\ UNCHANGED <<scenario, book, working, price>>

-----------------------------------------------------------------------------
(* _manage_positions for one position: evaluate, then act on the decision. *)

\* Neither stop nor target is reached, nor is there another reason to exit: the
\* time the position is held is computed, and then its stop is managed.
Unexited(p) == ~StopHit(p) /\ ~TargetHit(p)
Managed(p) == Unexited(p) /\ ~p.adopted

\* now - entry_time raises for an adopted position, and the cycle ends.
Raise(i) ==
    LET p == Seen(book[i]) IN
    /\ Unexited(p) /\ p.adopted
    /\ book' = [book EXCEPT ![i] = p]
    /\ UNCHANGED <<scenario, held, avg, working, price, allowed>>

Hold(i) ==
    LET p == Seen(book[i]) IN
    /\ Managed(p) /\ ~BreakevenDue(p) /\ ~TrailDue(p) /\ ~ScaleOutDue(p)
    /\ book' = [book EXCEPT ![i] = p]
    /\ UNCHANGED <<scenario, held, avg, working, price, allowed>>

MoveToBreakeven(i) ==
    LET p == Seen(book[i]) IN
    /\ Managed(p) /\ BreakevenDue(p)
    /\ book' = [book EXCEPT ![i] = [p EXCEPT !.stop = p.entry, !.breakeven = TRUE]]
    /\ UNCHANGED <<scenario, held, avg, working, price, allowed>>

Trail(i) ==
    LET p == Seen(book[i]) IN
    /\ Managed(p) /\ ~BreakevenDue(p) /\ TrailDue(p)
    /\ book' = [book EXCEPT ![i] = [p EXCEPT !.stop = TrailingStop(p), !.trailing = TRUE]]
    /\ UNCHANGED <<scenario, held, avg, working, price, allowed>>

\* A market order of that quantity against p: filled of it are, and the rest is
\* not cancelled.
Sells(p, quantity, filled) ==
    /\ Trades(-p.dir * filled, price)
    /\ LeavesRest(-p.dir * (quantity - filled))

\* Mutant: the scale-out does not wait for the trailing stop.
ScaleOutBeforeTrail(i) ==
    LET p == Seen(book[i])
        half == p.qty \div 2
    IN
    /\ Managed(p) /\ ~BreakevenDue(p) /\ ScaleOutDue(p)
    /\ \E filled \in 0..half :
         /\ Sells(p, half, filled)
         /\ book' = [book EXCEPT ![i] =
                IF filled = 0 THEN p ELSE [p EXCEPT !.qty = @ - half, !.partials = @ + 1]]
    /\ UNCHANGED <<scenario, price, allowed>>

\* Half of the lots; apply subtracts what was decided, not what was filled.
ScaleOut(i) ==
    LET p == Seen(book[i])
        half == p.qty \div 2
    IN
    /\ Managed(p) /\ ~BreakevenDue(p) /\ ~TrailDue(p) /\ ScaleOutDue(p)
    /\ \E filled \in 0..half :
         /\ Sells(p, half, filled)
         /\ book' = [book EXCEPT ![i] =
                IF filled = 0 THEN p ELSE [p EXCEPT !.qty = @ - half, !.partials = @ + 1]]
    /\ UNCHANGED <<scenario, price, allowed>>

\* Mutant: a position is dropped only when its exit has filled completely.
CloseAllOrKeep(i) ==
    LET p == Seen(book[i]) IN
    /\ \E filled \in 0..p.qty :
         /\ Sells(p, p.qty, filled)
         /\ book' = IF filled < p.qty \/ p.adopted THEN [book EXCEPT ![i] = p]
                    ELSE RemoveAt(book, i)
    /\ UNCHANGED <<scenario, price, allowed>>

\* One of the reasons to exit, the stop and the target among them: any fill at
\* all drops the position -- but for an adopted one, where the row for the journal
\* raises between the fill and untrack.
Close(i) ==
    LET p == Seen(book[i]) IN
    /\ \E filled \in 0..p.qty :
         /\ Sells(p, p.qty, filled)
         /\ book' = IF filled = 0 \/ p.adopted THEN [book EXCEPT ![i] = p]
                    ELSE RemoveAt(book, i)
    /\ UNCHANGED <<scenario, price, allowed>>

-----------------------------------------------------------------------------
(* StateReconciler. *)

\* Mutant: the quantity is adopted, the direction is not.
CorrectQuantityOnly(p) ==
    IF p.dir * p.qty # held
      THEN [p EXCEPT !.qty = IF held > 0 THEN held ELSE -held, !.corrected = TRUE]
      ELSE IF p.entry # avg THEN [p EXCEPT !.entry = avg, !.corrected = TRUE] ELSE p

Corrected(p) ==
    IF p.dir * p.qty # held
      THEN [p EXCEPT !.qty = IF held > 0 THEN held ELSE -held, !.dir = Sign(held),
                     !.corrected = TRUE]
      ELSE IF p.entry # avg THEN [p EXCEPT !.entry = avg, !.corrected = TRUE] ELSE p

\* Mutant: a position the broker no longer holds is corrected, not dropped.
ReconcileWithoutDrop ==
    book' = IF book = <<>> THEN book
            ELSE [book EXCEPT ![Len(book)] = Corrected(book[Len(book)])]

\* _reconcile_positions: local_by_symbol keeps the last position of a contract, so
\* only that one is dropped or corrected.  A holding without any is only reported.
ReconcilePositions ==
    LET last == Len(book) IN
    book' = IF book = <<>> THEN book
            ELSE IF held = 0 THEN RemoveAt(book, last)
            ELSE [book EXCEPT ![last] = Corrected(book[last])]

\* Every discrepancy in positions counts as resolved, so a periodic
\* reconciliation decides nothing about entries ...
Reconcile ==
    /\ ReconcilePositions
    /\ UNCHANGED <<scenario, held, avg, working, price, allowed>>

\* ... unless it does not reach the broker.
ReconcileFails ==
    /\ allowed' = FALSE
    /\ UNCHANGED <<scenario, book, held, avg, working, price>>

\* After a reconnection the intents decide.
Reconnect ==
    /\ ReconcilePositions
    /\ allowed' \in BOOLEAN
    /\ UNCHANGED <<scenario, held, avg, working, price>>

\* adopt_unmanaged: a stop at 10% and a target at 20%, in whole ticks.
Adopted ==
    LET dir == Sign(held) IN
    NewPosition(dir, IF held > 0 THEN held ELSE -held, avg,
                avg - dir * (avg \div 10), avg + dir * (avg \div 5), TRUE)

\* A new process starts with an empty book and adopts what the broker holds, if
\* the second call for the positions succeeds.
Restart ==
    /\ "restart" \in scenario.faults
    /\ book' \in {<<>>} \union (IF held # 0 THEN {<<Adopted>>} ELSE {})
    /\ allowed' \in BOOLEAN
    /\ UNCHANGED <<scenario, held, avg, working, price>>

-----------------------------------------------------------------------------
Manage == \E i \in DOMAIN book :
    Hold(i) \/ Raise(i) \/ MoveToBreakeven(i) \/ Trail(i) \/ ScaleOut(i) \/ Close(i)

Next ==
    \/ Quote \/ LateFill \/ RestDies \/ ManualTrade \/ Reprice
    \/ Enter \/ EnterUnfilled \/ EnterUnknown
    \/ Manage
    \/ Reconcile \/ ReconcileFails \/ Reconnect \/ Restart

Spec == Init /\ [][Next]_vars

-----------------------------------------------------------------------------
\* A tracked position always has something to sell.
TypeOK ==
    /\ scenario \in Scenarios
    /\ book \in Seq(Position) /\ Len(book) <= MaxPositions
    /\ held \in Holdings /\ avg \in Prices \union {LowestPrice} /\ working \in Int
    /\ price \in Prices /\ allowed \in BOOLEAN

\* "Stops only ever move in our favour": neither the management of a position nor
\* the correction of its entry moves its stop back, as long as the process lives.
\* (A new process forgets the stops.)
StopNeverLoosens ==
    [][\A i \in DOMAIN book :
          (Len(book') = Len(book) /\ ~Restart /\ book'[i].dir = book[i].dir)
              => AtLeast(book[i].dir, book'[i].stop, book[i].stop)]_vars

\* What the loop has once secured of a position that reconciliation left alone
\* stays secured: no loss after the first move of the stop, and one R at least
\* for the rest once half of it is sold.
ProfitLocked ==
    \A i \in DOMAIN book : LET p == book[i] IN
        ~p.corrected =>
            /\ p.breakeven \/ p.trailing => AtLeast(p.dir, p.stop, p.entry)
            /\ p.partials > 0 => AtLeast(p.dir, p.stop, p.entry + p.dir * RiskPerUnit(p))

\* As long as no order is filled behind the back of the loop, the exits of what
\* it entered itself never sell what the account does not hold, however partial
\* their fills, and whatever reconciliation made of the quantity in between.
ExitsNeverOversell == scenario.faults \subseteq {"reprice"} => held >= 0

\* Adoption brings a position "under management", with a stop "so the position is
\* bounded": the exits of an adopted long position never leave the account short.
AdoptedStaysBounded == scenario.faults = {"restart"} => held >= 0

Tracked == FoldSeq(LAMBDA p, sum : sum + p.dir * p.qty, 0, book)

\* "When local state and broker state disagree, local state is wrong and gets
\* corrected": after a reconciliation with the broker that leaves positions
\* tracked, they add up to what the broker holds.
ReconciledMatchesBroker ==
    [][ReconcilePositions /\ UNCHANGED <<held, avg, working, price>> /\ book' # <<>>
          => Tracked' = held']_vars

=============================================================================
