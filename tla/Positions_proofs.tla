-------------------------- MODULE Positions_proofs --------------------------
(***************************************************************************)
(* Type correctness of the tracked positions; their stops never loosen;    *)
(* what is secured of a position stays secured; and exits never oversell   *)
(* when a contract has one position.  For all prices, sizes and limits.    *)
(***************************************************************************)
EXTENDS Positions, Collections_proofs

-----------------------------------------------------------------------------
(* Sequences. *)

\* The three ways a position changes the book keep its elements positions.
LEMMA BookTypes ==
    ASSUME NEW b \in Seq(Position), NEW p \in Position
    PROVE  /\ Append(b, p) \in Seq(Position) /\ Len(Append(b, p)) = Len(b) + 1
           /\ \A i \in DOMAIN b :
                /\ i \in 1..Len(b)
                /\ b[i] \in Position
                /\ [b EXCEPT ![i] = p] \in Seq(Position)
                /\ Len([b EXCEPT ![i] = p]) = Len(b)
                /\ RemoveAt(b, i) \in Seq(Position) /\ Len(RemoveAt(b, i)) = Len(b) - 1
<1>1. Append(b, p) \in Seq(Position) /\ Len(Append(b, p)) = Len(b) + 1
  BY AppendProperties
<1>2. DOMAIN b = 1..Len(b)
  BY LenProperties
<1>3. ASSUME NEW i \in DOMAIN b
      PROVE  /\ b[i] \in Position
             /\ [b EXCEPT ![i] = p] \in Seq(Position)
             /\ Len([b EXCEPT ![i] = p]) = Len(b)
  BY <1>2, <1>3, ElementOfSeq, ExceptSeq
<1>4. ASSUME NEW i \in DOMAIN b
      PROVE  RemoveAt(b, i) \in Seq(Position) /\ Len(RemoveAt(b, i)) = Len(b) - 1
  BY <1>2, <1>4, RemoveAtProperties
<1> QED
  BY <1>1, <1>2, <1>3, <1>4

-----------------------------------------------------------------------------
(* Positions. *)

\* update changes nothing but the best price, which is then at least as good as
\* the last one.
LEMMA SeenProperties ==
    ASSUME NEW p \in Position, price \in Nat
    PROVE  /\ Seen(p) \in Position
           /\ \E b \in Nat : Seen(p) = [p EXCEPT !.best = b] /\ AtLeast(p.dir, b, price)
<1> DEFINE b == IF p.best = 0 \/ AtLeast(p.dir, price, p.best) THEN price ELSE p.best
<1>1. b \in Nat
  BY DEF Position
<1>2. AtLeast(p.dir, b, price)
  <2>1. CASE p.dir = 1
    BY <2>1 DEF AtLeast, Position
  <2>2. CASE p.dir = -1
    BY <2>2 DEF AtLeast, Position
  <2> QED
    BY <2>1, <2>2 DEF Position
<1>3. Seen(p) = [p EXCEPT !.best = b]
  BY DEF Seen
<1>4. [p EXCEPT !.best = b] \in Position
  BY <1>1 DEF Position
<1> HIDE DEF b
<1> QED
  BY <1>1, <1>2, <1>3, <1>4

LEMMA NewPositionType ==
    ASSUME NEW dir \in {1, -1}, NEW qty \in Nat \ {0}, NEW entry \in Nat,
           NEW stop \in Int, NEW target \in Int, NEW adopted \in BOOLEAN
    PROVE  NewPosition(dir, qty, entry, stop, target, adopted) \in Position
BY DEF NewPosition, Position

\* A correction leaves a position, on the side the broker reports.
LEMMA CorrectedType ==
    ASSUME NEW p \in Position, held \in Int, held # 0, avg \in Nat
    PROVE  Corrected(p) \in Position
<1> DEFINE q == IF held > 0 THEN held ELSE -held
           d == Sign(held)
<1>1. \/ Corrected(p) = p
      \/ Corrected(p) = [p EXCEPT !.entry = avg, !.corrected = TRUE]
      \/ Corrected(p) = [p EXCEPT !.qty = q, !.dir = d, !.corrected = TRUE]
  BY DEF Corrected
<1>2. q \in Nat \ {0} /\ d \in {1, -1}
  BY DEF Sign
<1> HIDE DEF q, d
<1>3. [p EXCEPT !.entry = avg, !.corrected = TRUE] \in Position
  BY DEF Position
<1>4. [p EXCEPT !.qty = q, !.dir = d, !.corrected = TRUE] \in Position
  BY <1>2 DEF Position
<1> QED
  BY <1>1, <1>3, <1>4

-----------------------------------------------------------------------------
(* Type correctness. *)

\* Trades keeps the broker's side in its type.
LEMMA TradesType ==
    ASSUME TypeOK, NEW change \in Int, NEW at \in Prices, Trades(change, at)
    PROVE  held' \in Holdings /\ avg' \in Prices \union {LowestPrice}
BY DEF TypeOK, Trades

\* What the rest of an order leaves working is a number.
LEMMA RestType ==
    ASSUME TypeOK, NEW rest \in Int, LeavesRest(rest)
    PROVE  working' \in Int
BY DEF TypeOK, LeavesRest

\* The actions of the broker's side and of the entries.
LEMMA OutsideType ==
    ASSUME TypeOK,
           Quote \/ LateFill \/ RestDies \/ ManualTrade \/ Reprice \/ Enter
           \/ EnterUnfilled \/ EnterUnknown
    PROVE  TypeOK'
<1> USE PositionsAssumption
<1>0. price \in Prices /\ scenario.prices \subseteq Prices /\ MaxHeld \in Nat
  BY DEF TypeOK
<1>1. CASE Quote
  BY <1>0, <1>1 DEF Quote, TypeOK
<1>2. CASE LateFill
  <2>1. Sign(working) \in Int
    BY DEF Sign
  <2>2. held' \in Holdings /\ avg' \in Prices \union {LowestPrice}
    BY <1>0, <1>2, <2>1, TradesType DEF LateFill
  <2>3. working' \in Int
    BY <1>2, <2>1 DEF LateFill, TypeOK
  <2> QED
    BY <1>2, <2>2, <2>3 DEF LateFill, TypeOK
<1>3. CASE RestDies
  BY <1>3 DEF RestDies, TypeOK
<1>4. CASE ManualTrade
  <2>1. held' \in Holdings /\ avg' \in Prices \union {LowestPrice}
    <3>1. PICK change \in {1, -1} : Trades(change, price)
      BY <1>4 DEF ManualTrade
    <3>2. change \in Int
      OBVIOUS
    <3> QED
      BY <1>0, <3>1, <3>2, TradesType
  <2> QED
    BY <1>4, <2>1 DEF ManualTrade, TypeOK
<1>5. CASE Reprice
  BY <1>5 DEF Reprice, TypeOK
<1>6. CASE Enter
  <2>0. PICK size \in Sizes, fill \in Fills : \E filled \in 1..size :
          /\ Trades(filled, fill) /\ LeavesRest(size - filled)
          /\ LET stop == IF fill - Risk >= LowestPrice THEN fill - Risk ELSE LowestPrice
             IN book' = Append(book, NewPosition(1, filled, fill, stop, fill + Reward, FALSE))
    BY <1>6 DEF Enter
  <2>1. PICK filled \in 1..size :
          /\ Trades(filled, fill) /\ LeavesRest(size - filled)
          /\ LET stop == IF fill - Risk >= LowestPrice THEN fill - Risk ELSE LowestPrice
             IN book' = Append(book, NewPosition(1, filled, fill, stop, fill + Reward, FALSE))
    BY <2>0
  <2> DEFINE stop == IF fill - Risk >= LowestPrice THEN fill - Risk ELSE LowestPrice
             new == NewPosition(1, filled, fill, stop, fill + Reward, FALSE)
  <2>2. /\ size \in Nat /\ filled \in Nat \ {0} /\ fill \in Prices /\ fill \in Nat
        /\ stop \in Int /\ fill + Reward \in Int /\ size - filled \in Int
    BY DEF LowestPrice
  <2>3. new \in Position
    <3> HIDE DEF stop
    <3> QED
      BY <2>2, NewPositionType
  <2>4. book' = Append(book, new)
    BY <2>1
  <2> HIDE DEF new, stop
  <2>5. book' \in Seq(Position) /\ Len(book') = Len(book) + 1
    BY <2>3, <2>4, BookTypes DEF TypeOK
  <2>6. Len(book') <= MaxPositions
    BY <1>6, <2>5, LenProperties DEF Enter, TypeOK
  <2>7. held' \in Holdings /\ avg' \in Prices \union {LowestPrice} /\ working' \in Int
    BY <2>1, <2>2, TradesType, RestType
  <2> QED
    BY <1>6, <2>5, <2>6, <2>7 DEF Enter, TypeOK
<1>7. CASE EnterUnknown
  <2>0. PICK size \in Sizes, fill \in Fills : \E filled \in 0..size : Trades(filled, fill)
    BY <1>7 DEF EnterUnknown
  <2>1. PICK filled \in 0..size : Trades(filled, fill)
    BY <2>0
  <2>2. filled \in Int /\ fill \in Prices
    OBVIOUS
  <2>3. held' \in Holdings /\ avg' \in Prices \union {LowestPrice}
    BY <2>1, <2>2, TradesType
  <2> QED
    BY <1>7, <2>3 DEF EnterUnknown, TypeOK
<1>8. CASE EnterUnfilled
  <2>1. PICK size \in Sizes : LeavesRest(size)
    BY <1>8 DEF EnterUnfilled
  <2>2. working' \in Int
    BY <2>1, PositionsAssumption DEF LeavesRest, TypeOK
  <2> QED
    BY <1>8, <2>2 DEF EnterUnfilled, TypeOK
<1> QED
  BY <1>1, <1>2, <1>3, <1>4, <1>5, <1>6, <1>7, <1>8

\* The management of one position.
LEMMA ManageType ==
    ASSUME TypeOK, NEW i \in DOMAIN book,
           Hold(i) \/ Raise(i) \/ MoveToBreakeven(i) \/ Trail(i) \/ ScaleOut(i) \/ Close(i)
    PROVE  TypeOK'
<1> DEFINE p == Seen(book[i])
<1>0. /\ price \in Prices /\ price \in Nat /\ book \in Seq(Position)
      /\ Len(book) \in Nat /\ Len(book) <= MaxPositions /\ MaxPositions \in Nat
  BY PositionsAssumption, LenProperties DEF TypeOK
<1>1. book[i] \in Position
  BY <1>0, LenProperties, ElementOfSeq
<1>2. p \in Position
  BY <1>0, <1>1, SeenProperties
<1> HIDE DEF p
<1>3. ASSUME NEW q \in Position
      PROVE  /\ [book EXCEPT ![i] = q] \in Seq(Position)
             /\ Len([book EXCEPT ![i] = q]) <= MaxPositions
             /\ RemoveAt(book, i) \in Seq(Position) /\ Len(RemoveAt(book, i)) <= MaxPositions
  BY <1>0, BookTypes
<1>4. CASE Hold(i) \/ Raise(i)
  <2>1. book' = [book EXCEPT ![i] = p]
    BY <1>4 DEF Hold, Raise, p
  <2> QED
    BY <1>2, <1>3, <1>4, <2>1 DEF Hold, Raise, TypeOK
<1>5. CASE MoveToBreakeven(i)
  <2>1. book' = [book EXCEPT ![i] = [p EXCEPT !.stop = p.entry, !.breakeven = TRUE]]
    BY <1>5 DEF MoveToBreakeven, p
  <2>2. [p EXCEPT !.stop = p.entry, !.breakeven = TRUE] \in Position
    <3>1. p.entry \in Int
      BY <1>2 DEF Position
    <3>2. ASSUME NEW s \in Int
          PROVE  [p EXCEPT !.stop = s, !.breakeven = TRUE] \in Position
      BY <1>2 DEF Position
    <3> QED
      BY <3>1, <3>2
  <2> QED
    BY <1>3, <1>5, <2>1, <2>2 DEF MoveToBreakeven, TypeOK
<1>6. CASE Trail(i)
  <2>1. book' = [book EXCEPT ![i] = [p EXCEPT !.stop = TrailingStop(p), !.trailing = TRUE]]
    BY <1>6 DEF Trail, p
  <2>2. TrailingStop(p) \in Int
    BY <1>2 DEF TrailingStop, RiskPerUnit, Position
  <2>3. [p EXCEPT !.stop = TrailingStop(p), !.trailing = TRUE] \in Position
    BY <1>2, <2>2 DEF Position
  <2> QED
    BY <1>3, <1>6, <2>1, <2>3 DEF Trail, TypeOK
<1>7. ASSUME NEW quantity \in Nat, NEW filled \in 0..quantity, Sells(p, quantity, filled)
      PROVE  held' \in Holdings /\ avg' \in Prices \union {LowestPrice} /\ working' \in Int
  <2>1. -p.dir * filled \in Int /\ -p.dir * (quantity - filled) \in Int
    <3>0. p.dir \in {1, -1}
      BY <1>2 DEF Position
    <3>1. p.dir = 1 \/ p.dir = -1
      BY <3>0
    <3>2. filled \in Int /\ quantity - filled \in Int
      OBVIOUS
    <3> QED
      BY <3>1, <3>2
  <2> QED
    BY <1>0, <1>7, <2>1, TradesType, RestType DEF Sells
<1>8. CASE ScaleOut(i)
  <2> DEFINE half == p.qty \div 2
  <2>1. half \in Nat /\ p.qty \in Nat \ {0} /\ half < p.qty
    BY <1>2 DEF Position
  <2>2. PICK filled \in 0..half :
          /\ Sells(p, half, filled)
          /\ book' = [book EXCEPT ![i] =
                 IF filled = 0 THEN p ELSE [p EXCEPT !.qty = @ - half, !.partials = @ + 1]]
    BY <1>8 DEF ScaleOut, p
  <2>3. [p EXCEPT !.qty = @ - half, !.partials = @ + 1] \in Position
    <3> HIDE DEF half
    <3>1. p.qty - half \in Nat \ {0} /\ p.partials + 1 \in Nat
      BY <1>2, <2>1 DEF Position
    <3>2. ASSUME NEW q \in Nat \ {0}, NEW n \in Nat
          PROVE  [p EXCEPT !.qty = q, !.partials = n] \in Position
      BY <1>2 DEF Position
    <3>3. [p EXCEPT !.qty = @ - half, !.partials = @ + 1]
            = [p EXCEPT !.qty = p.qty - half, !.partials = p.partials + 1]
      BY <1>2 DEF Position
    <3> QED
      BY <3>1, <3>2, <3>3
  <2>4. held' \in Holdings /\ avg' \in Prices \union {LowestPrice} /\ working' \in Int
    <3> HIDE DEF half
    <3> QED
      BY <1>7, <2>1, <2>2
  <2>5. book' \in Seq(Position) /\ Len(book') <= MaxPositions
    <3> HIDE DEF half
    <3>1. CASE filled = 0
      BY <1>2, <1>3, <2>2, <3>1
    <3>2. CASE filled # 0
      BY <1>3, <2>2, <2>3, <3>2
    <3> QED
      BY <3>1, <3>2
  <2> QED
    BY <1>8, <2>4, <2>5 DEF ScaleOut, TypeOK
<1>9. CASE Close(i)
  <2>1. p.qty \in Nat
    BY <1>2 DEF Position
  <2>2. PICK filled \in 0..p.qty :
          /\ Sells(p, p.qty, filled)
          /\ book' = IF filled = 0 \/ p.adopted THEN [book EXCEPT ![i] = p]
                     ELSE RemoveAt(book, i)
    BY <1>9 DEF Close, p
  <2>3. held' \in Holdings /\ avg' \in Prices \union {LowestPrice} /\ working' \in Int
    BY <1>7, <2>1, <2>2
  <2>4. book' \in Seq(Position) /\ Len(book') <= MaxPositions
    BY <1>2, <1>3, <2>2
  <2> QED
    BY <1>9, <2>3, <2>4 DEF Close, TypeOK
<1> QED
  BY <1>4, <1>5, <1>6, <1>8, <1>9 DEF Manage

\* What reconciliation makes of the book is a book.
LEMMA ReconciledBook ==
    ASSUME TypeOK, ReconcilePositions
    PROVE  book' \in Seq(Position) /\ Len(book') <= MaxPositions
<1>0. /\ book \in Seq(Position) /\ Len(book) \in Nat /\ Len(book) <= MaxPositions
      /\ DOMAIN book = 1..Len(book) /\ held \in Int /\ avg \in Nat
  BY PositionsAssumption, LenProperties DEF TypeOK, Holdings, LowestPrice
<1>1. CASE book = <<>>
  BY <1>0, <1>1 DEF ReconcilePositions
<1>2. CASE book # <<>>
  <2>1. Len(book) \in DOMAIN book
    BY <1>0, <1>2, EmptySeq
  <2>2. CASE held = 0
    <3>1. book' = RemoveAt(book, Len(book))
      BY <1>2, <2>2 DEF ReconcilePositions
    <3>2. RemoveAt(book, Len(book)) \in Seq(Position) /\ Len(RemoveAt(book, Len(book))) = Len(book) - 1
      BY <1>0, <2>1, RemoveAtProperties
    <3> QED
      BY <1>0, <3>1, <3>2, PositionsAssumption
  <2>3. CASE held # 0
    <3>1. book' = [book EXCEPT ![Len(book)] = Corrected(book[Len(book)])]
      BY <1>2, <2>3 DEF ReconcilePositions
    <3>2. Corrected(book[Len(book)]) \in Position
      BY <1>0, <2>1, <2>3, ElementOfSeq, CorrectedType
    <3>3. /\ [book EXCEPT ![Len(book)] = Corrected(book[Len(book)])] \in Seq(Position)
          /\ Len([book EXCEPT ![Len(book)] = Corrected(book[Len(book)])]) = Len(book)
      BY <1>0, <2>1, <3>2, BookTypes
    <3> QED
      BY <1>0, <3>1, <3>3
  <2> QED
    BY <2>2, <2>3
<1> QED
  BY <1>1, <1>2

LEMMA AdoptedType ==
    ASSUME TypeOK, held # 0
    PROVE  Adopted \in Position
<1> DEFINE dir == Sign(held)
           q == IF held > 0 THEN held ELSE -held
<1>1. dir \in {1, -1} /\ q \in Nat \ {0} /\ avg \in Nat
  BY PositionsAssumption DEF TypeOK, Holdings, Sign, LowestPrice
<1>2. avg \div 10 \in Int /\ avg \div 5 \in Int
  BY <1>1
<1> HIDE DEF dir, q
<1>3. avg - dir * (avg \div 10) \in Int /\ avg + dir * (avg \div 5) \in Int
  BY <1>1, <1>2
<1>4. Adopted = NewPosition(dir, q, avg, avg - dir * (avg \div 10),
                            avg + dir * (avg \div 5), TRUE)
  BY DEF Adopted, dir, q
<1> QED
  BY <1>1, <1>3, <1>4, NewPositionType

LEMMA ReconcileType ==
    ASSUME TypeOK, Reconcile \/ ReconcileFails \/ Reconnect \/ Restart
    PROVE  TypeOK'
<1>1. CASE Reconcile
  BY <1>1, ReconciledBook DEF Reconcile, TypeOK
<1>2. CASE ReconcileFails
  BY <1>2 DEF ReconcileFails, TypeOK
<1>3. CASE Reconnect
  BY <1>3, ReconciledBook DEF Reconnect, TypeOK
<1>4. CASE Restart
  <2>1. book' = <<>> \/ (held # 0 /\ book' = <<Adopted>>)
    BY <1>4 DEF Restart
  <2>2. book' \in Seq(Position) /\ Len(book') <= MaxPositions
    <3>1. CASE book' = <<>>
      BY <3>1, PositionsAssumption
    <3>2. CASE held # 0 /\ book' = <<Adopted>>
      BY <3>2, AdoptedType, PositionsAssumption
    <3> QED
      BY <2>1, <3>1, <3>2
  <2> QED
    BY <1>4, <2>2 DEF Restart, TypeOK
<1> QED
  BY <1>1, <1>2, <1>3, <1>4

LEMMA TypeStep == TypeOK /\ [Next]_vars => TypeOK'
<1> SUFFICES ASSUME TypeOK, [Next]_vars
             PROVE  TypeOK'
  OBVIOUS
<1>1. CASE Quote \/ LateFill \/ RestDies \/ ManualTrade \/ Reprice \/ Enter
           \/ EnterUnfilled \/ EnterUnknown
  BY <1>1, OutsideType
<1>2. CASE Manage
  BY <1>2, ManageType DEF Manage
<1>3. CASE Reconcile \/ ReconcileFails \/ Reconnect \/ Restart
  BY <1>3, ReconcileType
<1>4. CASE UNCHANGED vars
  BY <1>4 DEF vars, TypeOK
<1> QED
  BY <1>1, <1>2, <1>3, <1>4 DEF Next

\* Whatever the prices, sizes and faults, every tracked position has a quantity to
\* sell and there are no more of them than allowed (TypeOK; apply, adopt_unmanaged
\* and the corrections of reconcile).
THEOREM PositionsTypeCorrect == Spec => []TypeOK
<1>1. Init => TypeOK
  <2> SUFFICES ASSUME Init PROVE TypeOK
    OBVIOUS
  <2>1. book \in Seq(Position) /\ Len(book) <= MaxPositions
    BY PositionsAssumption DEF Init
  <2>2. price \in Prices /\ held \in Holdings
    BY PositionsAssumption DEF Init, Holdings
  <2> QED
    BY <2>1, <2>2 DEF Init, TypeOK
<1> QED
  BY <1>1, TypeStep, PTL DEF Spec

-----------------------------------------------------------------------------
(* Stops and secured profit. *)

\* What ProfitLocked says of one position.
Locked(p) ==
    ~p.corrected =>
        /\ p.breakeven \/ p.trailing => AtLeast(p.dir, p.stop, p.entry)
        /\ p.partials > 0 => AtLeast(p.dir, p.stop, p.entry + p.dir * RiskPerUnit(p))

\* A position that another has become: its stop is no worse, and nothing secured is
\* lost.
Follows(q, p) ==
    /\ q \in Position
    /\ q.dir = p.dir => AtLeast(p.dir, q.stop, p.stop)
    /\ Locked(p) => Locked(q)

OneFollows(i) == \E q \in Position : Follows(q, book[i]) /\ book' = [book EXCEPT ![i] = q]

LEMMA AtLeastOrder ==
    ASSUME NEW d \in {1, -1}, NEW a \in Int, NEW b \in Int
    PROVE  AtLeast(d, a, a) /\ (~AtLeast(d, a, b) => AtLeast(d, b, a))
<1>1. d = 1 \/ d = -1
  OBVIOUS
<1>2. CASE d = 1
  BY <1>2 DEF AtLeast
<1>3. CASE d = -1
  BY <1>3 DEF AtLeast
<1> QED
  BY <1>1, <1>2, <1>3

LEMMA AtLeastTransitive ==
    ASSUME NEW d \in {1, -1}, NEW a \in Int, NEW b \in Int, NEW c \in Int,
           AtLeast(d, a, b), AtLeast(d, b, c)
    PROVE  AtLeast(d, a, c)
<1>1. d = 1 \/ d = -1
  OBVIOUS
<1>2. CASE d = 1
  BY <1>2 DEF AtLeast
<1>3. CASE d = -1
  BY <1>3 DEF AtLeast
<1> QED
  BY <1>1, <1>2, <1>3

LEMMA PositionFields ==
    ASSUME NEW p \in Position
    PROVE  /\ p.dir \in {1, -1} /\ p.qty \in Nat \ {0} /\ p.entry \in Nat /\ p.stop \in Int
           /\ p.initial \in Int /\ p.best \in Nat /\ p.partials \in Nat
           /\ RiskPerUnit(p) \in Nat
<1>1. /\ p.dir \in {1, -1} /\ p.qty \in Nat \ {0} /\ p.entry \in Nat /\ p.stop \in Int
      /\ p.initial \in Int /\ p.best \in Nat /\ p.partials \in Nat
  BY DEF Position
<1> QED
  BY <1>1 DEF RiskPerUnit

\* A stop one R behind a best price that has seen 1.5 R is at
\* the entry or better, and at least one R better when it has seen 2 R.
LEMMA TrailSecures ==
    ASSUME NEW p \in Position, price \in Nat, AtLeast(p.dir, p.best, price)
    PROVE  /\ RAtLeast(p, 3, 2) => AtLeast(p.dir, TrailingStop(p), p.entry)
           /\ RAtLeast(p, 2, 1) => /\ AtLeast(p.dir, TrailingStop(p), p.entry + p.dir * RiskPerUnit(p))
                                  /\ RAtLeast(p, 3, 2)
<1> DEFINE R == RiskPerUnit(p)
<1>1. p.dir \in {1, -1} /\ p.entry \in Nat /\ p.best \in Nat /\ R \in Nat
  BY PositionFields
<1>2. p.dir = 1 \/ p.dir = -1
  BY <1>1
<1>3. CASE p.dir = 1
  <2>1. /\ RAtLeast(p, 3, 2) <=> R > 0 /\ 2 * (price - p.entry) >= 3 * R
        /\ RAtLeast(p, 2, 1) <=> R > 0 /\ (price - p.entry) >= 2 * R
        /\ TrailingStop(p) = p.best - R
        /\ p.best >= price
    BY <1>1, <1>3 DEF RAtLeast, TrailingStop, AtLeast
  <2> HIDE DEF R
  <2>2. RAtLeast(p, 3, 2) => p.best - R >= p.entry
    BY <1>1, <2>1
  <2>3. RAtLeast(p, 2, 1) => p.best - R >= p.entry + R /\ RAtLeast(p, 3, 2)
    BY <1>1, <2>1
  <2> QED
    BY <1>1, <1>3, <2>1, <2>2, <2>3 DEF AtLeast, R
<1>4. CASE p.dir = -1
  <2>1. /\ RAtLeast(p, 3, 2) <=> R > 0 /\ 2 * (p.entry - price) >= 3 * R
        /\ RAtLeast(p, 2, 1) <=> R > 0 /\ (p.entry - price) >= 2 * R
        /\ TrailingStop(p) = p.best + R
        /\ p.best <= price
    BY <1>1, <1>4 DEF RAtLeast, TrailingStop, AtLeast
  <2> HIDE DEF R
  <2>2. RAtLeast(p, 3, 2) => p.best + R <= p.entry
    BY <1>1, <2>1
  <2>3. RAtLeast(p, 2, 1) => p.best + R <= p.entry - R /\ RAtLeast(p, 3, 2)
    BY <1>1, <2>1
  <2> QED
    BY <1>1, <1>4, <2>1, <2>2, <2>3 DEF AtLeast, R
<1> QED
  BY <1>2, <1>3, <1>4

\* A position with another best price is as well secured, and its risk is the same.
LEMMA SeenFollows ==
    ASSUME NEW p \in Position, price \in Nat
    PROVE  /\ Follows(Seen(p), p) /\ AtLeast(p.dir, Seen(p).best, price)
           /\ Seen(p).dir = p.dir /\ Seen(p).stop = p.stop
<1>1. PICK b \in Nat : Seen(p) = [p EXCEPT !.best = b] /\ AtLeast(p.dir, b, price)
  BY SeenProperties
<1>2. /\ Seen(p).dir = p.dir /\ Seen(p).stop = p.stop /\ Seen(p).entry = p.entry
      /\ Seen(p).initial = p.initial /\ Seen(p).corrected = p.corrected
      /\ Seen(p).breakeven = p.breakeven /\ Seen(p).trailing = p.trailing
      /\ Seen(p).partials = p.partials /\ Seen(p).best = b
  BY <1>1 DEF Position
<1>3. RiskPerUnit(Seen(p)) = RiskPerUnit(p)
  BY <1>2 DEF RiskPerUnit
<1>4. AtLeast(p.dir, p.stop, p.stop)
  BY PositionFields, AtLeastOrder
<1>5. Locked(p) => Locked(Seen(p))
  BY <1>2, <1>3 DEF Locked
<1>6. Seen(p) \in Position
  BY SeenProperties
<1> QED
  BY <1>1, <1>2, <1>4, <1>5, <1>6 DEF Follows

\* Following is transitive for positions of one direction.
LEMMA FollowsTransitive ==
    ASSUME NEW p \in Position, NEW q \in Position, NEW r \in Position,
           q.dir = p.dir, Follows(q, p), Follows(r, q)
    PROVE  Follows(r, p)
<1>1. r.dir = p.dir => AtLeast(p.dir, r.stop, p.stop)
  <2> SUFFICES ASSUME r.dir = p.dir
               PROVE  AtLeast(p.dir, r.stop, p.stop)
    OBVIOUS
  <2>1. AtLeast(p.dir, r.stop, q.stop) /\ AtLeast(p.dir, q.stop, p.stop)
    BY DEF Follows
  <2>2. p.dir \in {1, -1} /\ p.stop \in Int /\ q.stop \in Int /\ r.stop \in Int
    BY PositionFields
  <2> QED
    BY <2>1, <2>2, AtLeastTransitive
<1> QED
  BY <1>1 DEF Follows

\* The stop moved to the entry.
LEMMA BreakevenFollows ==
    ASSUME NEW p \in Position, BreakevenDue(p)
    PROVE  Follows([p EXCEPT !.stop = p.entry, !.breakeven = TRUE], p)
<1> DEFINE q == [p EXCEPT !.stop = p.entry, !.breakeven = TRUE]
<1>0. /\ p.dir \in {1, -1} /\ p.entry \in Int /\ p.stop \in Int /\ RiskPerUnit(p) \in Nat
      /\ p.partials \in Nat
  BY PositionFields
<1>1. q \in Position
  <2>1. ASSUME NEW s \in Int
        PROVE  [p EXCEPT !.stop = s, !.breakeven = TRUE] \in Position
    BY DEF Position
  <2> QED
    BY <1>0, <2>1
<1>2. /\ q.dir = p.dir /\ q.stop = p.entry /\ q.entry = p.entry /\ q.initial = p.initial
      /\ q.corrected = p.corrected /\ q.partials = p.partials
  BY DEF Position
<1> HIDE DEF q
<1>3. ~AtLeast(p.dir, p.stop, p.entry)
  BY DEF BreakevenDue, Improves
<1>4. AtLeast(p.dir, q.stop, p.stop) /\ AtLeast(q.dir, q.stop, q.entry)
  BY <1>0, <1>2, <1>3, AtLeastOrder
<1>5. ~AtLeast(p.dir, p.stop, p.entry + p.dir * RiskPerUnit(p))
  <2>1. p.dir = 1 \/ p.dir = -1
    BY <1>0
  <2>2. CASE p.dir = 1
    BY <1>0, <1>3, <2>2 DEF AtLeast
  <2>3. CASE p.dir = -1
    BY <1>0, <1>3, <2>3 DEF AtLeast
  <2> QED
    BY <2>1, <2>2, <2>3
<1>6. Locked(p) => Locked(q)
  BY <1>2, <1>4, <1>5 DEF Locked
<1> QED
  BY <1>1, <1>2, <1>4, <1>6 DEF Follows, q

\* The stop moved behind the best price.
LEMMA TrailFollows ==
    ASSUME NEW p \in Position, price \in Nat, AtLeast(p.dir, p.best, price), TrailDue(p)
    PROVE  Follows([p EXCEPT !.stop = TrailingStop(p), !.trailing = TRUE], p)
<1> DEFINE s == TrailingStop(p)
           q == [p EXCEPT !.stop = s, !.trailing = TRUE]
           locked == p.entry + p.dir * RiskPerUnit(p)
<1>0. /\ p.dir \in {1, -1} /\ p.entry \in Int /\ p.stop \in Int /\ RiskPerUnit(p) \in Nat
      /\ p.best \in Nat
  BY PositionFields
<1>1. s \in Int /\ locked \in Int
  <2>1. p.dir = 1 \/ p.dir = -1
    BY <1>0
  <2> QED
    BY <1>0, <2>1 DEF TrailingStop
<1>2. ~AtLeast(p.dir, p.stop, s) /\ AtLeast(p.dir, s, p.entry)
  BY TrailSecures DEF TrailDue, Improves
<1> HIDE DEF s
<1>3. q \in Position
  BY <1>1 DEF Position
<1>4. /\ q.dir = p.dir /\ q.stop = s /\ q.entry = p.entry /\ q.initial = p.initial
      /\ q.corrected = p.corrected /\ q.partials = p.partials
  BY DEF Position
<1> HIDE DEF q
<1>5. RiskPerUnit(q) = RiskPerUnit(p)
  BY <1>4 DEF RiskPerUnit
<1>6. AtLeast(p.dir, s, p.stop)
  BY <1>0, <1>1, <1>2, AtLeastOrder
<1>7. AtLeast(p.dir, p.stop, locked) => AtLeast(p.dir, s, locked)
  <2> HIDE DEF locked
  <2> QED
    BY <1>0, <1>1, <1>6, AtLeastTransitive
<1>8. Locked(p) => Locked(q)
  BY <1>2, <1>4, <1>5, <1>7 DEF Locked
<1> QED
  BY <1>3, <1>4, <1>6, <1>8 DEF Follows, q, s

\* Half of it sold: only once the trailing stop is where the best price wants it.
LEMMA ScaleOutFollows ==
    ASSUME NEW p \in Position, price \in Nat, AtLeast(p.dir, p.best, price),
           ScaleOutDue(p), ~TrailDue(p), NEW q \in Position,
           q = [p EXCEPT !.qty = @ - (p.qty \div 2), !.partials = @ + 1]
    PROVE  Follows(q, p)
<1> DEFINE locked == p.entry + p.dir * RiskPerUnit(p)
<1>0. /\ p.dir \in {1, -1} /\ p.entry \in Int /\ p.stop \in Int /\ RiskPerUnit(p) \in Nat
      /\ p.best \in Nat
  BY PositionFields
<1>1. TrailingStop(p) \in Int /\ locked \in Int
  <2>1. p.dir = 1 \/ p.dir = -1
    BY <1>0
  <2> QED
    BY <1>0, <2>1 DEF TrailingStop
<1>2. RAtLeast(p, 3, 2) /\ AtLeast(p.dir, TrailingStop(p), locked)
  BY TrailSecures DEF ScaleOutDue
<1>3. AtLeast(p.dir, p.stop, TrailingStop(p))
  BY <1>2 DEF TrailDue, Improves
<1>4. /\ q.dir = p.dir /\ q.stop = p.stop /\ q.entry = p.entry /\ q.initial = p.initial
      /\ q.corrected = p.corrected /\ q.breakeven = p.breakeven /\ q.trailing = p.trailing
  BY DEF Position
<1>5. RiskPerUnit(q) = RiskPerUnit(p)
  BY <1>4 DEF RiskPerUnit
<1>6. AtLeast(p.dir, p.stop, locked)
  <2> HIDE DEF locked
  <2> QED
    BY <1>0, <1>1, <1>2, <1>3, AtLeastTransitive
<1>7. AtLeast(p.dir, p.stop, p.stop)
  BY <1>0, AtLeastOrder
<1>8. Locked(p) => Locked(q)
  BY <1>4, <1>5, <1>6 DEF Locked
<1> QED
  BY <1>4, <1>7, <1>8 DEF Follows

\* A correction leaves the stop alone, and what it changes is marked.
LEMMA CorrectedFollows ==
    ASSUME NEW p \in Position, held \in Int, held # 0, avg \in Nat
    PROVE  Follows(Corrected(p), p)
<1>1. Corrected(p) \in Position
  BY CorrectedType
<1>2. Corrected(p) = p \/ (Corrected(p).stop = p.stop /\ Corrected(p).corrected)
  BY DEF Corrected, Position
<1>3. AtLeast(p.dir, p.stop, p.stop)
  BY PositionFields, AtLeastOrder
<1>4. CASE Corrected(p) = p
  BY <1>1, <1>3, <1>4 DEF Follows
<1>5. CASE Corrected(p).stop = p.stop /\ Corrected(p).corrected
  BY <1>1, <1>3, <1>5 DEF Follows, Locked
<1> QED
  BY <1>2, <1>4, <1>5

\* Managing a position drops it or makes one of it that follows it.
LEMMA ManageFollows ==
    ASSUME TypeOK, NEW i \in DOMAIN book,
           Hold(i) \/ Raise(i) \/ MoveToBreakeven(i) \/ Trail(i) \/ ScaleOut(i) \/ Close(i)
    PROVE  OneFollows(i) \/ book' = RemoveAt(book, i)
<1> DEFINE o == book[i]
           p == Seen(o)
<1>0. price \in Nat /\ o \in Position
  BY PositionsAssumption, LenProperties, ElementOfSeq DEF TypeOK
<1>1. /\ p \in Position /\ Follows(p, o) /\ p.dir = o.dir /\ AtLeast(p.dir, p.best, price)
  BY <1>0, SeenProperties, SeenFollows
<1>2. ASSUME NEW q, Follows(q, p), book' = [book EXCEPT ![i] = q]
      PROVE  OneFollows(i)
  <2> HIDE DEF p, o
  <2>1. q \in Position
    BY <1>2 DEF Follows
  <2>2. Follows(q, o)
    BY <1>0, <1>1, <1>2, <2>1, FollowsTransitive
  <2> QED
    BY <1>2, <2>1, <2>2 DEF OneFollows, o
<1>3. book' = [book EXCEPT ![i] = p] => OneFollows(i)
  <2> HIDE DEF p
  <2> QED
    BY <1>1 DEF OneFollows
<1>4. CASE Hold(i) \/ Raise(i)
  BY <1>3, <1>4 DEF Hold, Raise
<1>5. CASE MoveToBreakeven(i)
  <2>1. BreakevenDue(p) /\ book' = [book EXCEPT ![i] = [p EXCEPT !.stop = p.entry, !.breakeven = TRUE]]
    BY <1>5 DEF MoveToBreakeven
  <2> HIDE DEF p
  <2> QED
    BY <1>1, <1>2, <2>1, BreakevenFollows
<1>6. CASE Trail(i)
  <2>1. TrailDue(p) /\ book' = [book EXCEPT ![i] = [p EXCEPT !.stop = TrailingStop(p), !.trailing = TRUE]]
    BY <1>6 DEF Trail
  <2> HIDE DEF p
  <2> QED
    BY <1>0, <1>1, <1>2, <2>1, TrailFollows
<1>7. CASE ScaleOut(i)
  <2> DEFINE h == p.qty \div 2
             q == [p EXCEPT !.qty = @ - h, !.partials = @ + 1]
  <2>1. /\ ScaleOutDue(p) /\ ~TrailDue(p)
        /\ book' = [book EXCEPT ![i] = p] \/ book' = [book EXCEPT ![i] = q]
    BY <1>7 DEF ScaleOut
  <2>2. q \in Position
    <3>1. h \in Nat /\ p.qty - h \in Nat \ {0} /\ p.partials + 1 \in Nat
      <4> HIDE DEF p
      <4> QED
        BY <1>1, PositionFields
    <3> HIDE DEF h, p
    <3>2. ASSUME NEW m \in Nat \ {0}, NEW n \in Nat
          PROVE  [p EXCEPT !.qty = m, !.partials = n] \in Position
      BY <1>1 DEF Position
    <3>3. q = [p EXCEPT !.qty = p.qty - h, !.partials = p.partials + 1]
      BY <1>1 DEF Position
    <3> QED
      BY <3>1, <3>2, <3>3
  <2>3. Follows(q, p)
    <3> HIDE DEF p
    <3> QED
      BY <1>0, <1>1, <2>1, <2>2, ScaleOutFollows
  <2> QED
    BY <1>2, <1>3, <2>1, <2>3
<1>8. CASE Close(i)
  BY <1>3, <1>8 DEF Close
<1> QED
  BY <1>4, <1>5, <1>6, <1>7, <1>8

\* So does reconciliation, for the last position.
LEMMA ReconcileFollows ==
    ASSUME TypeOK, ReconcilePositions
    PROVE  book' = book \/ \E i \in DOMAIN book : OneFollows(i) \/ book' = RemoveAt(book, i)
<1> DEFINE last == Len(book)
<1>0. /\ book \in Seq(Position) /\ last \in Nat /\ DOMAIN book = 1..last
      /\ held \in Int /\ avg \in Nat
  BY PositionsAssumption, LenProperties DEF TypeOK, Holdings, LowestPrice
<1>1. CASE book = <<>>
  BY <1>1 DEF ReconcilePositions
<1>2. CASE book # <<>>
  <2>1. last \in DOMAIN book
    BY <1>0, <1>2, EmptySeq
  <2>2. CASE held = 0
    BY <1>2, <2>1, <2>2 DEF ReconcilePositions
  <2>3. CASE held # 0
    <3>1. book' = [book EXCEPT ![last] = Corrected(book[last])]
      BY <1>2, <2>3 DEF ReconcilePositions
    <3>2. book[last] \in Position
      BY <1>0, <2>1, ElementOfSeq
    <3>3. Follows(Corrected(book[last]), book[last])
      BY <1>0, <2>3, <3>2, CorrectedFollows
    <3>4. Corrected(book[last]) \in Position
      BY <3>3 DEF Follows
    <3> QED
      BY <2>1, <3>1, <3>3, <3>4 DEF OneFollows
  <2> QED
    BY <2>2, <2>3
<1> QED
  BY <1>1, <1>2

KeepsStops ==
    \A i \in DOMAIN book :
        (Len(book') = Len(book) /\ ~Restart /\ book'[i].dir = book[i].dir)
            => AtLeast(book[i].dir, book'[i].stop, book[i].stop)

AllLocked == \A i \in DOMAIN book : Locked(book[i])

\* What following gives for the whole book.
LEMMA FollowingStep ==
    ASSUME TypeOK, NEW i \in DOMAIN book, OneFollows(i) \/ book' = RemoveAt(book, i)
    PROVE  KeepsStops /\ (AllLocked => AllLocked')
<1>0. /\ book \in Seq(Position) /\ Len(book) \in Nat /\ DOMAIN book = 1..Len(book)
      /\ \A j \in DOMAIN book : book[j] \in Position
  BY LenProperties, ElementOfSeq DEF TypeOK
<1>1. CASE OneFollows(i)
  <2>1. PICK q \in Position : Follows(q, book[i]) /\ book' = [book EXCEPT ![i] = q]
    BY <1>1 DEF OneFollows
  <2>2. /\ DOMAIN book' = DOMAIN book
        /\ \A j \in DOMAIN book : book'[j] = IF j = i THEN q ELSE book[j]
    BY <1>0, <2>1
  <2>3. \A j \in DOMAIN book : AtLeast(book[j].dir, book[j].stop, book[j].stop)
    BY <1>0, PositionFields, AtLeastOrder
  <2>4. KeepsStops
    BY <2>1, <2>2, <2>3 DEF KeepsStops, Follows
  <2>5. AllLocked => AllLocked'
    <3> SUFFICES ASSUME AllLocked, NEW j \in DOMAIN book'
                 PROVE  Locked(book'[j])
      BY DEF AllLocked, Locked, RiskPerUnit
    <3>1. CASE j = i
      BY <2>1, <2>2, <3>1 DEF AllLocked, Follows
    <3>2. CASE j # i
      BY <2>2, <3>2 DEF AllLocked
    <3> QED
      BY <3>1, <3>2
  <2> QED
    BY <2>4, <2>5
<1>2. CASE book' = RemoveAt(book, i)
  <2>1. /\ book' \in Seq(Position) /\ Len(book') = Len(book) - 1
        /\ \A j \in 1..(Len(book) - 1) : book'[j] = IF j < i THEN book[j] ELSE book[j + 1]
    BY <1>0, <1>2, RemoveAtProperties
  <2>2. KeepsStops
    BY <1>0, <2>1 DEF KeepsStops
  <2>3. DOMAIN book' = 1..(Len(book) - 1)
    BY <2>1, LenProperties
  <2>4. AllLocked => AllLocked'
    <3> SUFFICES ASSUME AllLocked, NEW j \in DOMAIN book'
                 PROVE  Locked(book'[j])
      BY DEF AllLocked, Locked, RiskPerUnit
    <3>1. j \in 1..(Len(book) - 1) /\ j \in DOMAIN book /\ j + 1 \in DOMAIN book
      BY <1>0, <2>3
    <3> QED
      BY <2>1, <3>1 DEF AllLocked
  <2> QED
    BY <2>2, <2>4
<1> QED
  BY <1>1, <1>2

\* A new position has nothing secured yet.
LEMMA EnterStep ==
    ASSUME TypeOK, Enter
    PROVE  KeepsStops /\ (AllLocked => AllLocked')
<1>0. book \in Seq(Position) /\ Len(book) \in Nat /\ DOMAIN book = 1..Len(book)
  BY LenProperties DEF TypeOK
<1>1. PICK n : book' = Append(book, n) /\ n.breakeven = FALSE /\ n.trailing = FALSE /\ n.partials = 0
  BY DEF Enter, NewPosition
<1>2. /\ Len(book') = Len(book) + 1 /\ DOMAIN book' = 1..(Len(book) + 1)
      /\ \A j \in 1..Len(book) : book'[j] = book[j]
      /\ book'[Len(book) + 1] = n
  BY <1>0, <1>1
<1>3. KeepsStops
  BY <1>0, <1>2 DEF KeepsStops
<1>4. Locked(n)
  BY <1>1 DEF Locked
<1>5. AllLocked => AllLocked'
  <2> SUFFICES ASSUME AllLocked, NEW j \in DOMAIN book'
               PROVE  Locked(book'[j])
    BY DEF AllLocked, Locked, RiskPerUnit
  <2>1. j \in 1..Len(book) \/ j = Len(book) + 1
    BY <1>0, <1>2
  <2> QED
    BY <1>0, <1>2, <1>4, <2>1 DEF AllLocked
<1> QED
  BY <1>3, <1>5

LEMMA RestartStep ==
    ASSUME Restart
    PROVE  KeepsStops /\ AllLocked'
<1>1. KeepsStops
  BY DEF KeepsStops
<1>2. Locked(Adopted)
  BY DEF Locked, Adopted, NewPosition
<1>3. \A j \in DOMAIN book' : book'[j] = Adopted
  BY DEF Restart
<1>4. AllLocked'
  <2> SUFFICES ASSUME NEW j \in DOMAIN book'
               PROVE  Locked(book'[j])
    BY DEF AllLocked, Locked, RiskPerUnit
  <2> QED
    BY <1>2, <1>3
<1> QED
  BY <1>1, <1>4

LEMMA StillStep ==
    ASSUME TypeOK, UNCHANGED book
    PROVE  KeepsStops /\ (AllLocked => AllLocked')
<1>1. \A j \in DOMAIN book : book[j] \in Position
  BY LenProperties, ElementOfSeq DEF TypeOK
<1>2. \A j \in DOMAIN book : AtLeast(book[j].dir, book[j].stop, book[j].stop)
  BY <1>1, PositionFields, AtLeastOrder
<1>3. KeepsStops
  BY <1>2 DEF KeepsStops
<1> QED
  BY <1>3 DEF AllLocked, Locked, RiskPerUnit

LEMMA StopsStep == TypeOK /\ [Next]_vars => KeepsStops /\ (AllLocked => AllLocked')
<1> SUFFICES ASSUME TypeOK, [Next]_vars
             PROVE  KeepsStops /\ (AllLocked => AllLocked')
  OBVIOUS
<1>1. CASE \/ Quote \/ LateFill \/ RestDies \/ ManualTrade \/ Reprice \/ EnterUnfilled \/ EnterUnknown
           \/ ReconcileFails \/ UNCHANGED vars
  BY <1>1, StillStep DEF Quote, LateFill, RestDies, ManualTrade, Reprice, EnterUnfilled, EnterUnknown,
                         ReconcileFails, vars
<1>2. CASE Enter
  BY <1>2, EnterStep
<1>3. CASE Manage
  BY <1>3, ManageFollows, FollowingStep DEF Manage
<1>4. CASE Reconcile \/ Reconnect
  <2>1. ReconcilePositions
    BY <1>4 DEF Reconcile, Reconnect
  <2> QED
    BY <2>1, ReconcileFollows, FollowingStep, StillStep
<1>5. CASE Restart
  BY <1>5, RestartStep
<1> QED
  BY <1>1, <1>2, <1>3, <1>4, <1>5 DEF Next

\* For every set of prices and any number of positions in a contract: as long as the
\* process lives no step moves a stop back (StopNeverLoosens; _manage_stop under the
\* corrections of _reconcile_positions).
THEOREM StopsNeverLoosen == Spec => StopNeverLoosens
<1>1. TypeOK /\ [Next]_vars => KeepsStops
  BY StopsStep
<1>2. TypeOK /\ [Next]_vars =>
        [\A i \in DOMAIN book :
            (Len(book') = Len(book) /\ ~Restart /\ book'[i].dir = book[i].dir)
                => AtLeast(book[i].dir, book'[i].stop, book[i].stop)]_vars
  BY <1>1 DEF KeepsStops
<1> QED
  BY <1>2, PositionsTypeCorrect, PTL DEF Spec, StopNeverLoosens

\* For every set of prices, any risk and any interleaving with reconciliation: a moved
\* stop rules a loss out, and after the scale-out the rest has one R secured
\* (ProfitLocked; the order of the three cases of _manage_stop).
THEOREM SecuredProfitStays == Spec => []ProfitLocked
<1>1. Init => AllLocked
  BY DEF Init, AllLocked
<1>2. TypeOK /\ AllLocked /\ [Next]_vars => AllLocked'
  BY StopsStep
<1>3. AllLocked => ProfitLocked
  BY DEF AllLocked, ProfitLocked, Locked
<1> QED
  BY <1>1, <1>2, <1>3, PositionsTypeCorrect, PTL DEF Spec

-----------------------------------------------------------------------------
(* Exits and what the account holds, with one position in the contract. *)

Quiet == scenario.faults \subseteq {"reprice"}

\* ExitsNeverOversell, strengthened: nothing is left working, and whatever is
\* tracked is long, held and not adopted.
Covered ==
    Quiet => /\ held >= 0 /\ working = 0
             /\ \A i \in DOMAIN book :
                  ~book[i].adopted /\ book[i].dir = 1 /\ book[i].qty <= held

LEMMA CoveredOutside ==
    ASSUME MaxPositions = 1, TypeOK, Covered,
           Quote \/ LateFill \/ RestDies \/ ManualTrade \/ Reprice \/ Enter
           \/ EnterUnfilled \/ EnterUnknown
    PROVE  Covered'
<1> SUFFICES ASSUME Quiet'
             PROVE  /\ held' >= 0 /\ working' = 0
                    /\ \A i \in DOMAIN book' :
                         ~book'[i].adopted /\ book'[i].dir = 1 /\ book'[i].qty <= held'
  BY DEF Covered
<1>0. Quiet /\ "late" \notin scenario.faults /\ "manual" \notin scenario.faults
  <2>1. scenario' = scenario
    BY DEF Quote, LateFill, RestDies, ManualTrade, Reprice, Enter, EnterUnfilled, EnterUnknown
  <2> QED
    BY <2>1 DEF Quiet
<1>1. /\ held >= 0 /\ working = 0 /\ held \in Int
      /\ \A i \in DOMAIN book :
           ~book[i].adopted /\ book[i].dir = 1 /\ book[i].qty <= held
  BY <1>0 DEF Covered, TypeOK, Holdings
<1>2. book \in Seq(Position) /\ Len(book) \in Nat /\ DOMAIN book = 1..Len(book)
  BY LenProperties DEF TypeOK
<1>3. CASE Quote \/ Reprice
  BY <1>1, <1>3 DEF Quote, Reprice
<1>4. CASE LateFill \/ RestDies \/ ManualTrade
  BY <1>0, <1>1, <1>4 DEF LateFill, RestDies, ManualTrade
<1>5. CASE Enter
  <2>0. PICK size \in Sizes, fill \in Fills : \E filled \in 1..size :
          /\ Trades(filled, fill) /\ LeavesRest(size - filled)
          /\ \E stop : book' = Append(book, NewPosition(1, filled, fill, stop, fill + Reward, FALSE))
    BY <1>5 DEF Enter
  <2>1. PICK filled \in 1..size :
          /\ Trades(filled, fill) /\ LeavesRest(size - filled)
          /\ \E stop : book' = Append(book, NewPosition(1, filled, fill, stop, fill + Reward, FALSE))
    BY <2>0
  <2>2. PICK n : book' = Append(book, n) /\ ~n.adopted /\ n.dir = 1 /\ n.qty = filled
    BY <2>1 DEF NewPosition
  <2>3. Len(book) = 0 /\ filled \in Nat
    BY <1>2, <1>5, PositionsAssumption DEF Enter
  <2>4. DOMAIN book' = 1..1 /\ book'[1] = n
    BY <1>2, <2>2, <2>3
  <2>5. held' = held + filled /\ working' = working
    BY <1>0, <2>1 DEF Trades, LeavesRest
  <2> QED
    BY <1>1, <2>2, <2>3, <2>4, <2>5
<1>6. CASE EnterUnknown
  <2>0. PICK size \in Sizes, fill \in Fills : \E filled \in 0..size : Trades(filled, fill)
    BY <1>6 DEF EnterUnknown
  <2>1. PICK filled \in 0..size : Trades(filled, fill)
    BY <2>0
  <2>2. held' = held + filled /\ filled \in Nat /\ working' = working /\ book' = book
    BY <1>6, <2>1, PositionsAssumption DEF Trades, EnterUnknown
  <2>3. DOMAIN book = {}
    BY <1>2, <1>6 DEF EnterUnknown
  <2> QED
    BY <1>1, <2>2, <2>3
<1>7. CASE EnterUnfilled
  BY <1>0, <1>1, <1>7 DEF EnterUnfilled, LeavesRest
<1> QED
  BY <1>3, <1>4, <1>5, <1>6, <1>7

LEMMA CoveredManage ==
    ASSUME MaxPositions = 1, TypeOK, Covered, NEW i \in DOMAIN book,
           Hold(i) \/ Raise(i) \/ MoveToBreakeven(i) \/ Trail(i) \/ ScaleOut(i) \/ Close(i)
    PROVE  Covered'
<1> DEFINE p == Seen(book[i])
<1> SUFFICES ASSUME Quiet'
             PROVE  /\ held' >= 0 /\ working' = 0
                    /\ \A j \in DOMAIN book' :
                         ~book'[j].adopted /\ book'[j].dir = 1 /\ book'[j].qty <= held'
  BY DEF Covered
<1>0. Quiet /\ "late" \notin scenario.faults
  <2>1. scenario' = scenario
    BY DEF Hold, Raise, MoveToBreakeven, Trail, ScaleOut, Close
  <2> QED
    BY <2>1 DEF Quiet
<1>1. /\ held >= 0 /\ working = 0 /\ held \in Int
      /\ ~book[i].adopted /\ book[i].dir = 1 /\ book[i].qty <= held
  BY <1>0 DEF Covered, TypeOK, Holdings
<1>2. /\ book \in Seq(Position) /\ Len(book) = 1 /\ DOMAIN book = {1} /\ i = 1
      /\ book[i] \in Position
  <2>1. book \in Seq(Position) /\ Len(book) \in Nat /\ DOMAIN book = 1..Len(book)
    BY LenProperties DEF TypeOK
  <2>2. i \in 1..Len(book) /\ Len(book) <= 1
    BY <2>1 DEF TypeOK
  <2>3. Len(book) = 1 /\ i = 1
    BY <2>1, <2>2
  <2> QED
    BY <2>1, <2>2, <2>3, ElementOfSeq
<1>3. /\ p \in Position /\ ~p.adopted /\ p.dir = 1 /\ p.qty = book[i].qty /\ p.qty \in Nat \ {0}
  <2>1. price \in Nat
    BY PositionsAssumption DEF TypeOK
  <2>2. PICK b \in Nat : p = [book[i] EXCEPT !.best = b]
    BY <1>2, <2>1, SeenProperties
  <2>3. p.adopted = book[i].adopted /\ p.dir = book[i].dir /\ p.qty = book[i].qty
    BY <1>2, <2>2 DEF Position
  <2>4. p \in Position /\ book[i].qty \in Nat \ {0}
    BY <1>2, <2>2 DEF Position
  <2> HIDE DEF p
  <2> QED
    BY <1>1, <2>3, <2>4
<1>4. ASSUME NEW q, ~q.adopted, q.dir = 1, q.qty <= held', book' = [book EXCEPT ![i] = q]
      PROVE  \A j \in DOMAIN book' :
                ~book'[j].adopted /\ book'[j].dir = 1 /\ book'[j].qty <= held'
  BY <1>2, <1>4
<1>5. ASSUME NEW quantity \in Nat, NEW filled \in 0..quantity, Sells(p, quantity, filled)
      PROVE  held' = held - filled /\ working' = 0
  <2>1. held' = held + (-p.dir * filled) /\ working' = working
    BY <1>0, <1>5 DEF Sells, Trades, LeavesRest
  <2> HIDE DEF p
  <2> QED
    BY <1>1, <1>3, <2>1
<1>6. CASE Hold(i) \/ Raise(i)
  <2>1. book' = [book EXCEPT ![i] = p] /\ held' = held /\ working' = working
    BY <1>6 DEF Hold, Raise
  <2> HIDE DEF p
  <2> QED
    <3>1. ~p.adopted /\ p.dir = 1 /\ p.qty <= held'
      BY <1>1, <1>3, <2>1
    <3> QED
      BY <1>1, <1>4, <2>1, <3>1
<1>7. CASE MoveToBreakeven(i) \/ Trail(i)
  <2>1. PICK q : /\ book' = [book EXCEPT ![i] = q] /\ held' = held /\ working' = working
                 /\ q.adopted = p.adopted /\ q.dir = p.dir /\ q.qty = p.qty
    <3>1. CASE MoveToBreakeven(i)
      <4> DEFINE q == [p EXCEPT !.stop = p.entry, !.breakeven = TRUE]
      <4>1. book' = [book EXCEPT ![i] = q] /\ held' = held /\ working' = working
        BY <3>1 DEF MoveToBreakeven
      <4>2. q.adopted = p.adopted /\ q.dir = p.dir /\ q.qty = p.qty
        <5> HIDE DEF p
        <5> QED
          BY <1>3 DEF Position
      <4> HIDE DEF q, p
      <4> QED
        BY <4>1, <4>2
    <3>2. CASE Trail(i)
      <4> DEFINE q == [p EXCEPT !.stop = TrailingStop(p), !.trailing = TRUE]
      <4>1. book' = [book EXCEPT ![i] = q] /\ held' = held /\ working' = working
        BY <3>2 DEF Trail
      <4>2. q.adopted = p.adopted /\ q.dir = p.dir /\ q.qty = p.qty
        <5> HIDE DEF p
        <5> QED
          BY <1>3 DEF Position
      <4> HIDE DEF q, p
      <4> QED
        BY <4>1, <4>2
    <3> QED
      BY <1>7, <3>1, <3>2
  <2> HIDE DEF p
  <2> QED
    <3>1. ~q.adopted /\ q.dir = 1 /\ q.qty <= held'
      BY <1>1, <1>3, <2>1
    <3> QED
      BY <1>1, <1>4, <2>1, <3>1
<1>8. CASE ScaleOut(i)
  <2> DEFINE half == p.qty \div 2
             q == [p EXCEPT !.qty = @ - half, !.partials = @ + 1]
  <2>1. PICK filled \in 0..half :
          /\ Sells(p, half, filled)
          /\ book' = [book EXCEPT ![i] = IF filled = 0 THEN p ELSE q]
    BY <1>8 DEF ScaleOut
  <2>2. half \in Nat /\ half <= p.qty
    <3> HIDE DEF p
    <3> QED
      BY <1>3
  <2>3. q.adopted = p.adopted /\ q.dir = p.dir /\ q.qty = p.qty - half
    <3> HIDE DEF p, half
    <3> QED
      BY <1>3 DEF Position
  <2> HIDE DEF half, q
  <2>4. held' = held - filled /\ working' = 0
    BY <1>5, <2>1, <2>2
  <2> HIDE DEF p
  <2>5. CASE filled = 0
    <3>1. book' = [book EXCEPT ![i] = p] /\ held' = held
      BY <1>1, <2>1, <2>4, <2>5
    <3>2. ~p.adopted /\ p.dir = 1 /\ p.qty <= held'
      BY <1>1, <1>3, <3>1
    <3> QED
      BY <1>1, <1>4, <2>4, <3>1, <3>2
  <2>6. CASE filled # 0
    <3>1. book' = [book EXCEPT ![i] = q] /\ filled <= half /\ filled \in Nat
      BY <2>1, <2>2, <2>6
    <3>2. ~q.adopted /\ q.dir = 1 /\ q.qty <= held' /\ held' >= 0
      BY <1>1, <1>3, <2>2, <2>3, <2>4, <3>1
    <3> QED
      BY <1>4, <2>4, <3>1, <3>2
  <2> QED
    BY <2>5, <2>6
<1>9. CASE Close(i)
  <2>1. PICK filled \in 0..p.qty :
          /\ Sells(p, p.qty, filled)
          /\ book' = IF filled = 0 THEN [book EXCEPT ![i] = p] ELSE RemoveAt(book, i)
    BY <1>3, <1>9 DEF Close
  <2>2. held' = held - filled /\ working' = 0
    BY <1>3, <1>5, <2>1
  <2> HIDE DEF p
  <2>3. CASE filled = 0
    <3>1. book' = [book EXCEPT ![i] = p] /\ held' = held
      BY <1>1, <2>1, <2>2, <2>3
    <3>2. ~p.adopted /\ p.dir = 1 /\ p.qty <= held'
      BY <1>1, <1>3, <3>1
    <3> QED
      BY <1>1, <1>4, <2>2, <3>1, <3>2
  <2>4. CASE filled # 0
    <3>0. i \in 1..Len(book)
      BY <1>2
    <3>1. RemoveAt(book, i) \in Seq(Position) /\ Len(RemoveAt(book, i)) = 0
      <4>1. book \in Seq(Position)
        BY <1>2
      <4>2. RemoveAt(book, i) \in Seq(Position) /\ Len(RemoveAt(book, i)) = Len(book) - 1
        BY <3>0, <4>1, RemoveAtProperties
      <4> QED
        BY <1>2, <4>2
    <3>2. DOMAIN book' = {}
      BY <2>1, <2>4, <3>1, LenProperties
    <3> QED
      BY <1>1, <1>3, <2>2, <3>2
  <2> QED
    BY <2>3, <2>4
<1> QED
  BY <1>6, <1>7, <1>8, <1>9

LEMMA CoveredReconcile ==
    ASSUME MaxPositions = 1, TypeOK, Covered,
           Reconcile \/ ReconcileFails \/ Reconnect \/ Restart
    PROVE  Covered'
<1> SUFFICES ASSUME Quiet'
             PROVE  /\ held' >= 0 /\ working' = 0
                    /\ \A j \in DOMAIN book' :
                         ~book'[j].adopted /\ book'[j].dir = 1 /\ book'[j].qty <= held'
  BY DEF Covered
<1>0. Quiet /\ held' = held /\ working' = working
  <2>1. scenario' = scenario /\ held' = held /\ working' = working
    BY DEF Reconcile, ReconcileFails, Reconnect, Restart
  <2> QED
    BY <2>1 DEF Quiet
<1>1. /\ held >= 0 /\ working = 0 /\ held \in Int
      /\ \A j \in DOMAIN book :
           ~book[j].adopted /\ book[j].dir = 1 /\ book[j].qty <= held
  BY <1>0 DEF Covered, TypeOK, Holdings
<1>2. book \in Seq(Position) /\ Len(book) \in Nat /\ DOMAIN book = 1..Len(book) /\ Len(book) <= 1
  BY LenProperties, PositionsAssumption DEF TypeOK
<1>3. CASE ReconcileFails
  BY <1>0, <1>1, <1>3 DEF ReconcileFails
<1>4. CASE Restart
  BY <1>0, <1>4 DEF Restart, Quiet
<1>5. CASE Reconcile \/ Reconnect
  <2>0. ReconcilePositions
    BY <1>5 DEF Reconcile, Reconnect
  <2>1. CASE book = <<>>
    BY <1>0, <1>1, <2>0, <2>1 DEF ReconcilePositions
  <2>2. CASE book # <<>>
    <3>1. Len(book) = 1 /\ DOMAIN book = {1} /\ book[1] \in Position
      BY <1>2, <2>2, EmptySeq, ElementOfSeq
    <3>2. CASE held = 0
      <4>0. 1 \in 1..Len(book)
        BY <3>1
      <4>1. RemoveAt(book, 1) \in Seq(Position) /\ Len(RemoveAt(book, 1)) = 0
        <5>1. book \in Seq(Position)
          BY <1>2
        <5>2. RemoveAt(book, 1) \in Seq(Position) /\ Len(RemoveAt(book, 1)) = Len(book) - 1
          BY <4>0, <5>1, RemoveAtProperties
        <5> QED
          BY <3>1, <5>2
      <4>2. book' = RemoveAt(book, 1)
        BY <2>0, <2>2, <3>1, <3>2 DEF ReconcilePositions
      <4>3. DOMAIN book' = {}
        BY <4>1, <4>2, LenProperties
      <4> QED
        BY <1>0, <1>1, <4>3
    <3>3. CASE held # 0
      <4>1. book' = [book EXCEPT ![1] = Corrected(book[1])]
        BY <2>0, <2>2, <3>1, <3>3 DEF ReconcilePositions
      <4>2. DOMAIN book' = {1} /\ book'[1] = Corrected(book[1])
        BY <1>2, <3>1, <4>1
      <4>3. /\ ~Corrected(book[1]).adopted
            /\ Corrected(book[1]).dir = 1 /\ Corrected(book[1]).qty <= held
        <5>1. held > 0 /\ Sign(held) = 1
          BY <1>1, <3>3 DEF Sign
        <5>2. ~book[1].adopted /\ book[1].dir = 1 /\ book[1].qty <= held
          BY <1>1, <3>1
        <5> QED
          BY <1>1, <3>1, <5>1, <5>2 DEF Corrected, Position
      <4> QED
        BY <1>0, <1>1, <4>2, <4>3
    <3> QED
      BY <3>2, <3>3
  <2> QED
    BY <2>1, <2>2
<1> QED
  BY <1>3, <1>4, <1>5

\* With one position in a contract, and as long as no order is filled after the engine
\* gave up on it, nobody trades by hand and nothing has been adopted, exits never sell
\* more than is held, however partial their fills (ExitsNeverOversell; _exit, apply
\* and reconcile).
THEOREM ExitsStayCovered ==
    ASSUME MaxPositions = 1
    PROVE  Spec => []ExitsNeverOversell
<1>1. Init => Covered
  BY DEF Init, Covered
<1>2. TypeOK /\ Covered /\ [Next]_vars => Covered'
  <2> SUFFICES ASSUME TypeOK, Covered, [Next]_vars
               PROVE  Covered'
    OBVIOUS
  <2>1. CASE Quote \/ LateFill \/ RestDies \/ ManualTrade \/ Reprice \/ Enter
           \/ EnterUnfilled \/ EnterUnknown
    BY <2>1, CoveredOutside
  <2>2. CASE Manage
    BY <2>2, CoveredManage DEF Manage
  <2>3. CASE Reconcile \/ ReconcileFails \/ Reconnect \/ Restart
    BY <2>3, CoveredReconcile
  <2>4. CASE UNCHANGED vars
    BY <2>4 DEF vars, Covered, Quiet
  <2> QED
    BY <2>1, <2>2, <2>3, <2>4 DEF Next
<1>3. Covered => ExitsNeverOversell
  BY DEF Covered, Quiet, ExitsNeverOversell
<1> QED
  BY <1>1, <1>2, <1>3, PositionsTypeCorrect, PTL DEF Spec

-----------------------------------------------------------------------------
(* Reconciliation. *)

\* What one tracked position amounts to.
LEMMA TrackedOfOne ==
    ASSUME NEW p \in Position, NEW only, only = <<p>>
    PROVE  FoldSeq(LAMBDA q, sum : sum + q.dir * q.qty, 0, only) = p.dir * p.qty
<1>. DEFINE Turn(g) ==
              [t \in SUBSET DOMAIN only |->
                 IF t = {} THEN 0
                 ELSE LET x == CHOOSE x \in t : TRUE
                      IN g[t \ {x}] + only[x].dir * only[x].qty]
            Iter == CHOOSE g : g = Turn(g)
            units == [i \in DOMAIN only |-> only[i].dir * only[i].qty]
<1>1. FoldSeq(LAMBDA q, sum : sum + q.dir * q.qty, 0, only) = Iter[DOMAIN only]
  BY DEF FoldSeq, FoldFunction, FoldFunctionOnSet, MapThenFoldSet
<1>2. DOMAIN only = {1} /\ only[1] = p  OBVIOUS
<1>3. p.dir * p.qty \in Int  BY DEF Position
<1>4. \A i \in {1} : units[i] = p.dir * p.qty /\ units[i] \in Int  BY <1>2, <1>3
<1>5. \A g : Accumulates(g, units, DOMAIN only) <=> g = Turn(g)
  <2>1. \A i \in DOMAIN only : units[i] = only[i].dir * only[i].qty  OBVIOUS
  <2>2. \A t \in SUBSET DOMAIN only : t # {} => Chosen(t) \in DOMAIN only
    BY ChosenIsMember
  <2>. HIDE DEF units
  <2>. QED  BY <2>1, <2>2 DEF Accumulates, Chosen
<1>. HIDE DEF Turn, units
<1>6. IsFiniteSet({1})  BY FS_Singleton
<1>7. PICK g \in [SUBSET DOMAIN only -> Int] : Accumulates(g, units, DOMAIN only)
  BY <1>2, <1>4, <1>6, SomethingAccumulates
<1>8. Iter = Turn(Iter)  BY <1>5, <1>7
<1>9. Accumulates(Iter, units, DOMAIN only)  BY <1>5, <1>8
<1>10. Iter[DOMAIN only] = SumOver(units, DOMAIN only)
  BY <1>2, <1>4, <1>6, <1>9, AccumulatedIsSum
<1>11. SumOver(units, {1}) = units[1] + SumOver(units, {1} \ {1})
  BY <1>4, <1>6, SumTakesOut
<1>12. SumOver(units, {1} \ {1}) = 0
  <2>1. {1} \ {1} = {}  OBVIOUS
  <2>. QED  BY <2>1, SumOfNone
<1>13. SumOver(units, DOMAIN only) = units[1] + 0  BY <1>2, <1>11, <1>12
<1>14. units[1] + 0 = p.dir * p.qty  BY <1>3, <1>4
<1>. QED  BY <1>1, <1>10, <1>13, <1>14

\* What the correction of a position makes of it is what the broker holds.
LEMMA CorrectedMatches ==
    ASSUME NEW p \in Position, held \in Int, held # 0
    PROVE  Corrected(p).dir * Corrected(p).qty = held
<1>1. CASE p.dir * p.qty = held
  <2>1. Corrected(p).dir = p.dir /\ Corrected(p).qty = p.qty
    BY <1>1 DEF Corrected, Position
  <2>. QED  BY <1>1, <2>1
<1>2. CASE p.dir * p.qty # held
  <2>1. /\ Corrected(p).dir = Sign(held)
        /\ Corrected(p).qty = IF held > 0 THEN held ELSE -held
    BY <1>2 DEF Corrected, Position
  <2>2. PICK h \in Int : h = held  OBVIOUS
  <2>3. CASE h > 0
    <3>1. Corrected(p).dir = 1 /\ Corrected(p).qty = h  BY <2>1, <2>2, <2>3 DEF Sign
    <3>. QED  BY <2>2, <3>1
  <2>4. CASE h < 0
    <3>1. Corrected(p).dir = -1 /\ Corrected(p).qty = -h  BY <2>1, <2>2, <2>4 DEF Sign
    <3>2. (-1) * (-h) = h  OBVIOUS
    <3>. QED  BY <2>2, <3>1, <3>2
  <2>. QED  BY <2>2, <2>3, <2>4
<1>. QED  BY <1>1, <1>2

\* One position is tracked for what it is, if there is one.
OneTracked == \A p \in Position : book = <<p>> => Tracked = p.dir * p.qty

LEMMA OneIsTracked == OneTracked
<1>1. SUFFICES ASSUME NEW p \in Position, book = <<p>> PROVE Tracked = p.dir * p.qty
  BY DEF OneTracked
<1>2. FoldSeq(LAMBDA q, sum : sum + q.dir * q.qty, 0, book) = p.dir * p.qty
  BY <1>1, TrackedOfOne
<1>. QED  BY <1>2 DEF Tracked

\* With one position in a contract a reconciliation that leaves it tracked leaves it at
\* what the broker holds, whatever was filled, traded by hand or adopted before
\* (ReconciledMatchesBroker; _reconcile_positions).
THEOREM ReconciliationMatches ==
    ASSUME MaxPositions = 1
    PROVE  Spec => ReconciledMatchesBroker
<1>1. ASSUME TypeOK, OneTracked', ReconcilePositions,
             UNCHANGED <<held, avg, working, price>>, book' # <<>>
      PROVE  Tracked' = held'
  <2>1. book \in Seq(Position) /\ Len(book) <= 1 /\ held \in Int /\ avg \in Nat
    BY <1>1, PositionsAssumption DEF TypeOK, Holdings, LowestPrice
  <2>2. book # <<>> /\ held # 0
    <3>1. book # <<>>  BY <1>1 DEF ReconcilePositions
    <3>2. ASSUME held = 0 PROVE FALSE
      <4>1. book' = RemoveAt(book, Len(book))  BY <1>1, <3>1, <3>2 DEF ReconcilePositions
      <4>2. Len(book) = 1 /\ Len(book) \in DOMAIN book
        <5>1. Len(book) = 1
          <6>1. PICK n \in Nat : n = Len(book) /\ n <= 1  BY <2>1, LenProperties
          <6>2. n # 0  BY <2>1, <3>1, <6>1, EmptySeq
          <6>. QED  BY <6>1, <6>2
        <5>. QED  BY <2>1, <5>1, LenProperties
      <4>3. /\ RemoveAt(book, Len(book)) \in Seq(Position)
            /\ Len(RemoveAt(book, Len(book))) = 0
        <5>1. book[1] \in Position  BY <2>1, <4>2
        <5>. QED  BY <2>1, <4>2, <5>1, BookTypes
      <4>. QED  BY <1>1, <4>1, <4>3, EmptySeq
    <3>. QED  BY <3>1, <3>2
  <2>3. Len(book) = 1 /\ book[1] \in Position /\ book = <<book[1]>>
    <3>1. Len(book) = 1
      <4>1. PICK n \in Nat : n = Len(book) /\ n <= 1  BY <2>1, LenProperties
      <4>2. n # 0  BY <2>1, <2>2, <4>1, EmptySeq
      <4>. QED  BY <4>1, <4>2
    <3>2. book[1] \in Position  BY <2>1, <3>1
    <3>. QED  BY <2>1, <3>1, <3>2
  <2>4. PICK p \in Position : p = book[1]  BY <2>3
  <2>5. book' = <<Corrected(p)>>
    <3>1. book' = [book EXCEPT ![1] = Corrected(book[1])]
      BY <1>1, <2>2, <2>3 DEF ReconcilePositions
    <3>. QED  BY <2>3, <2>4, <3>1
  <2>6. PICK q \in Position : q = Corrected(p)  BY <2>1, <2>2, CorrectedType
  <2>7. q.dir * q.qty = held  BY <2>1, <2>2, <2>6, CorrectedMatches
  <2>8. Tracked' = q.dir * q.qty  BY <1>1, <2>5, <2>6 DEF OneTracked
  <2>. QED  BY <1>1, <2>7, <2>8
<1>. QED  BY <1>1, OneIsTracked, PositionsTypeCorrect, PTL DEF ReconciledMatchesBroker

=============================================================================
