-------------------------- MODULE Decision_proofs ---------------------------
(***************************************************************************)
(* What leads to an order and the account that stands in for the broker: the *)
(* paper account, the entries of the loop and the ensemble.                *)
(***************************************************************************)
EXTENDS MCDecision, Collections_proofs

-----------------------------------------------------------------------------
(* The paper account *)

\* What each order has bought, less what it has sold.
Bought(book) == [i \in DOMAIN book |-> book[i].side * book[i].filled]
Net(book) == SumOver(Bought(book), DOMAIN book)

\* The units of an order are those of its record.
LEMMA OrderUnits ==
    ASSUME NEW book \in Seq(OrderRecords)
    PROVE  /\ DOMAIN book = 1..Len(book) /\ IsFiniteSet(DOMAIN book)
           /\ \A i \in DOMAIN book :
                /\ book[i] \in OrderRecords
                /\ Bought(book)[i] = book[i].side * book[i].filled
                /\ Bought(book)[i] \in Int
<1>1. DOMAIN book = 1..Len(book) /\ Len(book) \in Nat  OBVIOUS
<1>2. IsFiniteSet(DOMAIN book)  BY <1>1, FS_Interval
<1>3. ASSUME NEW i \in DOMAIN book
      PROVE  /\ book[i] \in OrderRecords /\ Bought(book)[i] = book[i].side * book[i].filled
             /\ Bought(book)[i] \in Int
  <2>1. book[i] \in OrderRecords  BY <1>1
  <2>2. book[i].side \in {1, -1} /\ book[i].filled \in Nat  BY <2>1 DEF OrderRecords, Sides
  <2>3. Bought(book)[i] = book[i].side * book[i].filled  BY DEF Bought
  <2>. QED  BY <2>1, <2>2, <2>3
<1>. QED  BY <1>1, <1>2, <1>3

\* The fold of AccountFollowsFills is that sum.
LEMMA FoldIsNet ==
    ASSUME NEW book \in Seq(OrderRecords)
    PROVE  FoldSeq(LAMBDA o, sum : sum + o.side * o.filled, 0, book) = Net(book)
<1>. DEFINE Turn(g) ==
              [t \in SUBSET DOMAIN book |->
                 IF t = {} THEN 0
                 ELSE LET x == CHOOSE x \in t : TRUE
                      IN g[t \ {x}] + book[x].side * book[x].filled]
            Iter == CHOOSE g : g = Turn(g)
<1>1. FoldSeq(LAMBDA o, sum : sum + o.side * o.filled, 0, book) = Iter[DOMAIN book]
  BY DEF FoldSeq, FoldFunction, FoldFunctionOnSet, MapThenFoldSet
<1>2. \A g : Accumulates(g, Bought(book), DOMAIN book) <=> g = Turn(g)
  <2>1. \A i \in DOMAIN book : Bought(book)[i] = book[i].side * book[i].filled  BY OrderUnits
  <2>. QED  BY <2>1, ChosenIsMember DEF Accumulates, Chosen
<1>. HIDE DEF Turn
<1>3. PICK g \in [SUBSET DOMAIN book -> Int] : Accumulates(g, Bought(book), DOMAIN book)
  BY OrderUnits, SomethingAccumulates
<1>4. Iter = Turn(Iter)  BY <1>2, <1>3
<1>5. Accumulates(Iter, Bought(book), DOMAIN book)  BY <1>2, <1>4
<1>. QED  BY <1>1, <1>5, OrderUnits, AccumulatedIsSum DEF Net

\* An order at the end of the book adds its own fill to the net.
LEMMA NetOfAppended ==
    ASSUME NEW book \in Seq(OrderRecords), NEW o \in OrderRecords
    PROVE  Net(Append(book, o)) = Net(book) + o.side * o.filled
<1>. DEFINE longer == Append(book, o)
            new == Len(book) + 1
<1>1. /\ longer \in Seq(OrderRecords) /\ DOMAIN longer = DOMAIN book \union {new}
      /\ new \notin DOMAIN book /\ longer[new] = o
      /\ \A i \in DOMAIN book : longer[i] = book[i]
  OBVIOUS
<1>. HIDE DEF longer, new
<1>2. \A i \in DOMAIN book : Bought(book)[i] \in Int /\ Bought(longer)[i] = Bought(book)[i]
  BY <1>1, OrderUnits
<1>3. Bought(longer)[new] = o.side * o.filled /\ Bought(longer)[new] \in Int
  BY <1>1, OrderUnits
<1>4. SumOver(Bought(longer), DOMAIN book \union {new})
        = SumOver(Bought(book), DOMAIN book) + Bought(longer)[new]
  <2>1. IsFiniteSet(DOMAIN book)  BY OrderUnits
  <2>. DEFINE S == DOMAIN book  w == Bought(book)  v == Bought(longer)
  <2>2. /\ IsFiniteSet(S) /\ new \notin S
        /\ \A i \in S : w[i] \in Int /\ v[i] = w[i]
        /\ v[new] \in Int
    BY <1>1, <1>2, <1>3, <2>1
  <2>. HIDE DEF S, w, v
  <2>3. SumOver(v, S \union {new}) = SumOver(w, S) + v[new]  BY <2>2, SumGains
  <2>. QED  BY <2>3 DEF S, w, v
<1>. QED  BY <1>1, <1>3, <1>4 DEF Net, longer

\* An order that fills further adds what is new to the net.
LEMMA NetOfChanged ==
    ASSUME NEW book \in Seq(OrderRecords), NEW i \in DOMAIN book, NEW o \in OrderRecords
    PROVE  Net([book EXCEPT ![i] = o])
             = Net(book) + (o.side * o.filled - book[i].side * book[i].filled)
<1>. DEFINE changed == [book EXCEPT ![i] = o]
<1>1. /\ changed \in Seq(OrderRecords) /\ DOMAIN changed = DOMAIN book /\ changed[i] = o
      /\ \A j \in DOMAIN book \ {i} : changed[j] = book[j]
  OBVIOUS
<1>. HIDE DEF changed
<1>2. \A j \in DOMAIN book : Bought(book)[j] \in Int /\ Bought(changed)[j] \in Int
  BY <1>1, OrderUnits
<1>3. \A j \in DOMAIN book \ {i} : Bought(changed)[j] = Bought(book)[j]
  BY <1>1, OrderUnits
<1>4. SumOver(Bought(changed), DOMAIN book)
        = SumOver(Bought(book), DOMAIN book) + (Bought(changed)[i] - Bought(book)[i])
  <2>1. IsFiniteSet(DOMAIN book)  BY OrderUnits
  <2>. QED  BY <1>2, <1>3, <2>1, SumChanges
<1>5. Bought(changed)[i] = o.side * o.filled /\ Bought(book)[i] = book[i].side * book[i].filled
  BY <1>1, OrderUnits
<1>. QED  BY <1>1, <1>4, <1>5 DEF Net, changed

-----------------------------------------------------------------------------
(* Prices and quantities of a fill. *)

\* Touch and slippage of a quote are numbers of ticks.
LEMMA QuoteTypes ==
    ASSUME NEW q \in Quotes, NEW side \in Sides
    PROVE  Touch(side, q) \in Nat \ {0} /\ Slippage(q) \in Int
<1>1. /\ q.bid \in Int /\ q.ask \in Int /\ q.last \in Nat \ {0}
  BY PaperAssumption DEF Absent
<1>2. Touch(side, q) \in Nat \ {0}  BY <1>1 DEF Touch
<1>3. Spread(q) \in Int  BY <1>1 DEF Spread
<1>4. Slippage(q) \in Int  BY <1>3, PaperAssumption DEF Slippage
<1>. QED  BY <1>2, <1>4

\* A fill has a price.
LEMMA FillPriceIsPrice ==
    ASSUME NEW q \in Quotes, NEW o \in OrderRecords
    PROVE  FillPrice(o, q) \in Nat
<1>1. o.side \in Sides  BY DEF OrderRecords
<1>2. Touch(o.side, q) \in Nat /\ Slippage(q) \in Int  BY <1>1, QuoteTypes
<1>3. o.side * Slippage(q) \in Int  BY <1>1, <1>2 DEF Sides
<1>. DEFINE raw == Touch(o.side, q) + IF o.type = "LIMIT" THEN 0 ELSE o.side * Slippage(q)
<1>4. raw \in Int  BY <1>2, <1>3
<1>. HIDE DEF raw
<1>5. FillPrice(o, q) = IF raw < Tick THEN Tick ELSE raw  BY DEF FillPrice, raw
<1>. QED  BY <1>4, <1>5, PaperAssumption

\* A limit order is never filled beyond its limit.
LEMMA FillPriceAtLimit ==
    ASSUME NEW q \in Quotes, NEW o \in OrderRecords, o.type = "LIMIT", Fills(o, q),
           o.price >= Tick
    PROVE  o.side * FillPrice(o, q) <= o.side * o.price
<1>1. o.side \in {1, -1} /\ o.price \in Nat  BY DEF OrderRecords, Sides
<1>2. PICK touch \in Nat : touch = Touch(o.side, q)  BY <1>1, QuoteTypes DEF Sides
<1>3. o.side * touch <= o.side * o.price  BY <1>2 DEF Fills
<1>4. FillPrice(o, q) = IF touch < Tick THEN Tick ELSE touch  BY <1>2 DEF FillPrice
<1>. QED  BY <1>1, <1>2, <1>3, <1>4, PaperAssumption

\* A fill is of one unit at the least.
LEMMA FillQuantitiesAreUnits ==
    ASSUME NEW q \in Quotes, NEW n \in Nat \ {0}
    PROVE  FillQuantities(n, q) \subseteq Nat \ {0}
<1>1. q.depth \in Nat \union {Absent}  BY PaperAssumption
<1>. QED  BY <1>1 DEF FillQuantities, Absent

\* A fill adds its units and what they cost to the order, and leaves its terms alone.
LEMMA FilledOrder ==
    ASSUME NEW o \in OrderRecords, NEW n \in Nat \ {0}, NEW price \in Nat
    PROVE  LET new == Filled(o, n, price) IN
           /\ new \in OrderRecords
           /\ new.side = o.side /\ new.type = o.type /\ new.price = o.price
           /\ new.filled = o.filled + n /\ new.paid = o.paid + n * price
<1>1. PICK k \in Nat : k = n * price  OBVIOUS
<1>2. PICK rest \in Int : rest = o.qty - (o.filled + n)  BY DEF OrderRecords
<1>3. PICK status \in {"ACKED", "EXECUTED", "CANCELLED"} :
           status = IF o.qty = o.filled + n THEN "EXECUTED" ELSE "ACKED"
  OBVIOUS
<1>4. Filled(o, n, price)
        = [o EXCEPT !.filled = @ + n, !.remaining = rest, !.paid = @ + k, !.status = status]
  BY <1>1, <1>2, <1>3 DEF Filled
<1>5. o.filled + n \in Nat /\ o.paid + k \in Nat  BY DEF OrderRecords
<1>6. Filled(o, n, price)
        = [side |-> o.side, type |-> o.type, qty |-> o.qty, filled |-> o.filled + n,
           remaining |-> rest, price |-> o.price, status |-> status, paid |-> o.paid + k]
  BY <1>4 DEF OrderRecords
<1>. QED  BY <1>1, <1>5, <1>6 DEF OrderRecords

\* A new order has the terms of its request and no fill.
LEMMA NewOrderIsOrder ==
    ASSUME NEW r \in Requests
    PROVE  /\ NewOrder(r) \in OrderRecords
           /\ NewOrder(r).side = r.side /\ NewOrder(r).type = r.type
           /\ NewOrder(r).price = r.price
           /\ NewOrder(r).filled = 0 /\ NewOrder(r).paid = 0
<1>1. r.qty \in Nat /\ r.price \in Nat /\ r.side \in Sides /\ r.type \in OrderTypes
  <2>1. r.qty \in 1..MaxLots /\ r.price \in Limits /\ r.side \in Sides /\ r.type \in OrderTypes
    BY DEF Requests
  <2>2. r.qty \in Nat  BY <2>1, PaperAssumption
  <2>3. r.price \in Nat  BY <2>1, PaperAssumption
  <2>. QED  BY <2>1, <2>2, <2>3
<1>. QED  BY <1>1 DEF NewOrder, OrderRecords

-----------------------------------------------------------------------------
(* The account after a fill. *)

AccountTypes == cash \in Int /\ holding \in Int /\ basis \in Int /\ realized \in Int

\* Equity is the cash there really is, at any last price.
Balanced == StartingCash + realized - basis = cash

\* The average price of an open position is a number.
LEMMA AveragePriceType ==
    ASSUME AccountTypes, holding # 0
    PROVE  AveragePrice \in Int
<1>1. Magnitude(holding) \in Nat \ {0}  BY DEF AccountTypes, Magnitude
<1>2. SignOf(holding) \in {1, -1}  BY DEF AccountTypes, SignOf
<1>3. SignOf(holding) * basis \in Int  BY <1>2 DEF AccountTypes
<1>. QED  BY <1>1, <1>3 DEF AveragePrice

\* A fill adds to the position, or closes a part of it, all of it, or more than all.
LEMMA FillCases ==
    ASSUME AccountTypes, NEW side \in Sides, NEW n \in Nat \ {0}, NEW price \in Nat,
           UpdatePosition(side, n, price)
    PROVE  /\ holding' = holding + side * n /\ cash' = cash - side * n * price
           /\ \/ realized' = realized /\ basis' = basis + side * n * price
              \/ \E s \in {1, -1}, m \in Nat \ {0} :
                   /\ holding = s * m /\ side = 0 - s
                   /\ \/ /\ n < m
                         /\ realized' = realized + (price - AveragePrice) * n * s
                         /\ basis' = AveragePrice * (s * m - s * n)
                      \/ /\ n = m
                         /\ realized' = realized + (price - AveragePrice) * m * s
                         /\ basis' = 0
                      \/ /\ n > m
                         /\ realized' = realized + (price - AveragePrice) * m * s
                         /\ basis' = (s * m - s * n) * price
<1>. DEFINE signed == side * n
<1>1. side \in {1, -1} /\ signed \in Int /\ signed # 0  BY DEF Sides
<1>2. Magnitude(signed) = n /\ SignOf(signed) = side  BY <1>1 DEF Magnitude, SignOf
<1>3. holding' = holding + signed /\ cash' = cash - signed * price  BY DEF UpdatePosition
<1>4. CASE holding = 0 \/ SignOf(holding) = SignOf(signed)
  BY <1>3, <1>4 DEF UpdatePosition
<1>5. CASE ~(holding = 0 \/ SignOf(holding) = SignOf(signed))
  <2>1. PICK s \in {1, -1}, m \in Nat \ {0} : holding = s * m /\ side = 0 - s
    <3>1. CASE holding > 0
      <4>1. SignOf(holding) = 1  BY <3>1 DEF SignOf
      <4>2. holding = 1 * holding /\ side = -1  BY <1>1, <1>2, <1>5, <4>1 DEF AccountTypes
      <4>. QED  BY <3>1, <4>2 DEF AccountTypes
    <3>2. CASE holding < 0
      <4>1. SignOf(holding) = -1  BY <3>2 DEF SignOf, AccountTypes
      <4>2. side = 1  BY <1>1, <1>2, <1>5, <4>1
      <4>3. PICK m \in Nat \ {0} : m = 0 - holding  BY <3>2 DEF AccountTypes
      <4>4. holding = (-1) * m  BY <4>3 DEF AccountTypes
      <4>5. side = 0 - (-1)  BY <4>2
      <4>. QED  BY <4>4, <4>5, Zenon
    <3>. QED  BY <1>5, <3>1, <3>2 DEF AccountTypes
  <2>2. Magnitude(holding) = m /\ SignOf(holding) = s  BY <2>1 DEF Magnitude, SignOf
  <2>3. holding' = s * m - s * n  BY <1>3, <2>1
  <2>4. /\ realized' = realized + (price - AveragePrice) * (IF n < m THEN n ELSE m) * s
        /\ basis' = IF holding' = 0 THEN 0
                    ELSE IF SignOf(holding') # s THEN holding' * price
                    ELSE AveragePrice * holding'
    BY <1>2, <1>5, <2>2 DEF UpdatePosition
  <2>5. CASE n < m
    <3>1. holding' # 0 /\ SignOf(holding') = s  BY <2>1, <2>3, <2>5 DEF SignOf
    <3>. QED  BY <1>3, <2>1, <2>3, <2>4, <2>5, <3>1
  <2>6. CASE n = m
    <3>1. holding' = 0  BY <2>1, <2>3, <2>6
    <3>. QED  BY <1>3, <2>1, <2>4, <2>6, <3>1
  <2>7. CASE n > m
    <3>1. holding' # 0 /\ SignOf(holding') # s  BY <2>1, <2>3, <2>7 DEF SignOf
    <3>. QED  BY <1>3, <2>1, <2>3, <2>4, <2>7, <3>1
  <2>. QED  BY <2>1, <2>5, <2>6, <2>7
<1>. QED  BY <1>4, <1>5

\* A fill leaves the account in numbers.
LEMMA FillKeepsTypes ==
    ASSUME AccountTypes, NEW side \in Sides, NEW n \in Nat \ {0}, NEW price \in Nat,
           UpdatePosition(side, n, price)
    PROVE  AccountTypes'
<1>1. side \in {1, -1} /\ side * n \in Int /\ side * n * price \in Int  BY DEF Sides
<1>2. holding' \in Int /\ cash' \in Int  BY <1>1, FillCases DEF AccountTypes
<1>3. CASE realized' = realized /\ basis' = basis + side * n * price
  BY <1>1, <1>2, <1>3 DEF AccountTypes
<1>4. ASSUME NEW s \in {1, -1}, NEW m \in Nat \ {0}, holding = s * m,
             \/ n < m /\ realized' = realized + (price - AveragePrice) * n * s
                      /\ basis' = AveragePrice * (s * m - s * n)
             \/ n = m /\ realized' = realized + (price - AveragePrice) * m * s /\ basis' = 0
             \/ n > m /\ realized' = realized + (price - AveragePrice) * m * s
                      /\ basis' = (s * m - s * n) * price
      PROVE  AccountTypes'
  <2>1. PICK a \in Int : a = AveragePrice
    <3>1. holding # 0  BY <1>4
    <3>. QED  BY <3>1, AveragePriceType
  <2>2. /\ (price - a) * n * s \in Int /\ (price - a) * m * s \in Int
        /\ a * (s * m - s * n) \in Int /\ (s * m - s * n) * price \in Int
    OBVIOUS
  <2>. QED  BY <1>2, <1>4, <2>1, <2>2 DEF AccountTypes
<1>. QED  BY <1>3, <1>4, FillCases

\* No fill, partial fill, reduction or flip creates or loses money.
LEMMA FillKeepsBalance ==
    ASSUME AccountTypes, Balanced, AverageIsExact,
           NEW side \in Sides, NEW n \in Nat \ {0}, NEW price \in Nat,
           UpdatePosition(side, n, price)
    PROVE  Balanced'
<1>0. side \in {1, -1} /\ side * n * price \in Int  BY DEF Sides
<1>1. cash' = cash - side * n * price  BY FillCases
<1>2. CASE realized' = realized /\ basis' = basis + side * n * price
  <2>1. PICK r \in Int, b \in Int, c \in Int, k \in Int :
             r = realized /\ b = basis /\ c = cash /\ k = side * n * price
    BY <1>0 DEF AccountTypes
  <2>2. cash' = c - k /\ realized' = r /\ basis' = b + k  BY <1>1, <1>2, <2>1
  <2>3. StartingCash + r - b = c /\ StartingCash \in Int  BY <2>1, PaperAssumption DEF Balanced
  <2>4. StartingCash + r - (b + k) = c - k  BY <2>3
  <2>. QED  BY <2>2, <2>4 DEF Balanced
<1>3. ASSUME NEW s \in {1, -1}, NEW m \in Nat \ {0}, holding = s * m, side = 0 - s,
             \/ n < m /\ realized' = realized + (price - AveragePrice) * n * s
                      /\ basis' = AveragePrice * (s * m - s * n)
             \/ n = m /\ realized' = realized + (price - AveragePrice) * m * s /\ basis' = 0
             \/ n > m /\ realized' = realized + (price - AveragePrice) * m * s
                      /\ basis' = (s * m - s * n) * price
      PROVE  Balanced'
  <2>1. holding # 0  BY <1>3
  <2>2. PICK a \in Int : a = AveragePrice  BY <2>1, AveragePriceType
  <2>3. basis = a * (s * m)  BY <1>3, <2>1, <2>2 DEF AverageIsExact
  <2>4. PICK r \in Int, c \in Int : r = realized /\ c = cash  BY DEF AccountTypes
  <2>5. StartingCash + r - a * (s * m) = c  BY <2>3, <2>4 DEF Balanced
  <2>6. cash' = c + s * n * price  BY <1>0, <1>1, <1>3, <2>4
  <2>7. CASE n < m
    <3>1. realized' = r + (price - a) * n * s /\ basis' = a * (s * m - s * n)
      BY <1>3, <2>2, <2>4, <2>7
    <3>2. StartingCash + (r + (price - a) * n * s) - a * (s * m - s * n) = c + s * n * price
      BY <2>5, PaperAssumption
    <3>. QED  BY <2>6, <3>1, <3>2 DEF Balanced
  <2>8. CASE n = m
    <3>1. realized' = r + (price - a) * m * s /\ basis' = 0
      BY <1>3, <2>2, <2>4, <2>8
    <3>2. StartingCash + (r + (price - a) * m * s) - 0 = c + s * m * price
      BY <2>5, PaperAssumption
    <3>. QED  BY <2>6, <2>8, <3>1, <3>2 DEF Balanced
  <2>9. CASE n > m
    <3>1. realized' = r + (price - a) * m * s /\ basis' = (s * m - s * n) * price
      BY <1>3, <2>2, <2>4, <2>9
    <3>2. StartingCash + (r + (price - a) * m * s) - (s * m - s * n) * price = c + s * n * price
      BY <2>5, PaperAssumption
    <3>. QED  BY <2>6, <3>1, <3>2 DEF Balanced
  <2>. QED  BY <2>7, <2>8, <2>9
<1>. QED  BY <1>2, <1>3, FillCases

-----------------------------------------------------------------------------
(* Every step of the account. *)

\* The inductive invariant.
PaperInv ==
    /\ PaperTypeOK
    /\ \A i \in DOMAIN orders : orders[i].price \in Limits
    /\ holding = Net(orders)

\* What a step may do to each order: fill it within its limit.
WithinLimit(o, new) ==
    LET n == new.filled - o.filled IN
    (o.type = "LIMIT" /\ n > 0) => o.side * (new.paid - o.paid) <= o.side * n * o.price
FillsWithinLimits ==
    \A i \in DOMAIN orders' :
        WithinLimit(IF i \in DOMAIN orders THEN orders[i]
                    ELSE [orders'[i] EXCEPT !.filled = 0, !.paid = 0], orders'[i])

\* What every step keeps of the orders and the account.
Kept ==
    /\ orders' \in Seq(OrderRecords)
    /\ \A i \in DOMAIN orders' : orders'[i].price \in Limits
    /\ AccountTypes' /\ holding' = Net(orders')
    /\ (Balanced /\ AverageIsExact) => Balanced'
    /\ FillsWithinLimits

\* A part that fills does so within the limit of its order.
LEMMA PartIsWithinLimit ==
    ASSUME NEW o \in OrderRecords, o.price \in Limits, NEW q \in Quotes, Fills(o, q),
           NEW n \in Nat \ {0}
    PROVE  WithinLimit(o, Filled(o, n, FillPrice(o, q)))
<1>. DEFINE new == Filled(o, n, FillPrice(o, q))
<1>1. SUFFICES ASSUME o.type = "LIMIT"
               PROVE  o.side * (new.paid - o.paid) <= o.side * (new.filled - o.filled) * o.price
  BY DEF WithinLimit
<1>2. PICK price \in Nat : price = FillPrice(o, q)  BY FillPriceIsPrice
<1>3. PICK side \in {1, -1}, limit \in Nat : side = o.side /\ limit = o.price
  BY DEF OrderRecords, Sides
<1>4. side * price <= side * limit
  BY <1>1, <1>2, <1>3, FillPriceAtLimit, PaperAssumption
<1>5. new.filled = o.filled + n /\ new.paid = o.paid + n * price  BY <1>2, FilledOrder
<1>6. o.filled \in Nat /\ o.paid \in Nat  BY DEF OrderRecords
<1>7. new.filled - o.filled = n /\ new.paid - o.paid = n * price  BY <1>5, <1>6
<1>8. side * (n * price) <= side * n * limit
  <2>1. n * (side * price) <= n * (side * limit)  BY <1>4
  <2>. QED  BY <2>1
<1>. QED  BY <1>3, <1>7, <1>8

\* An order arrives, filled in part or not at all.
LEMMA ArrivalKeeps ==
    ASSUME PaperInv, NEW o \in OrderRecords, o.price \in Limits, o.filled = 0, o.paid = 0,
           \/ orders' = Append(orders, o) /\ UNCHANGED account
           \/ /\ quote \in Quotes /\ Fills(o, quote)
              /\ \E n \in Nat \ {0} :
                   /\ orders' = Append(orders, Filled(o, n, FillPrice(o, quote)))
                   /\ UpdatePosition(o.side, n, FillPrice(o, quote))
    PROVE  Kept /\ Len(orders') = Len(orders) + 1
<1>1. /\ orders \in Seq(OrderRecords) /\ AccountTypes /\ holding = Net(orders)
      /\ \A i \in DOMAIN orders : orders[i].price \in Limits
  BY DEF PaperInv, PaperTypeOK, AccountTypes
<1>2. ASSUME NEW new \in OrderRecords, new.price \in Limits, orders' = Append(orders, new),
             WithinLimit([new EXCEPT !.filled = 0, !.paid = 0], new),
             AccountTypes', holding' = holding + new.side * new.filled,
             (Balanced /\ AverageIsExact) => Balanced'
      PROVE  Kept /\ Len(orders') = Len(orders) + 1
  <2>1. /\ orders' \in Seq(OrderRecords) /\ Len(orders') = Len(orders) + 1
        /\ DOMAIN orders' = DOMAIN orders \union {Len(orders) + 1}
        /\ Len(orders) + 1 \notin DOMAIN orders /\ orders'[Len(orders) + 1] = new
        /\ \A i \in DOMAIN orders : orders'[i] = orders[i]
    BY <1>1, <1>2
  <2>2. holding' = Net(orders')  BY <1>1, <1>2, NetOfAppended
  <2>3. FillsWithinLimits
    <3>1. \A i \in DOMAIN orders : WithinLimit(orders[i], orders[i])
      <4>1. \A i \in DOMAIN orders : orders[i].filled \in Nat
        BY <1>1, OrderUnits DEF OrderRecords
      <4>. QED  BY <4>1 DEF WithinLimit
    <3>. QED  BY <1>2, <2>1, <3>1 DEF FillsWithinLimits
  <2>. QED  BY <1>1, <1>2, <2>1, <2>2, <2>3 DEF Kept
<1>3. o.side \in Sides  BY DEF OrderRecords
<1>4. CASE orders' = Append(orders, o) /\ UNCHANGED account
  <2>1. WithinLimit([o EXCEPT !.filled = 0, !.paid = 0], o)  BY DEF WithinLimit, OrderRecords
  <2>2. AccountTypes' /\ (Balanced => Balanced')  BY <1>1, <1>4 DEF account, AccountTypes, Balanced
  <2>3. holding' = holding + o.side * o.filled
    BY <1>1, <1>3, <1>4 DEF account, AccountTypes, Sides
  <2>. QED  BY <1>2, <1>4, <2>1, <2>2, <2>3
<1>5. ASSUME quote \in Quotes, Fills(o, quote), NEW n \in Nat \ {0},
             orders' = Append(orders, Filled(o, n, FillPrice(o, quote))),
             UpdatePosition(o.side, n, FillPrice(o, quote))
      PROVE  Kept /\ Len(orders') = Len(orders) + 1
  <2>. DEFINE new == Filled(o, n, FillPrice(o, quote))
  <2>1. FillPrice(o, quote) \in Nat  BY <1>5, FillPriceIsPrice
  <2>2. /\ new \in OrderRecords /\ new.side = o.side /\ new.price = o.price
        /\ new.type = o.type /\ new.filled = n
    <3>1. /\ new \in OrderRecords /\ new.side = o.side /\ new.price = o.price
          /\ new.type = o.type /\ new.filled = o.filled + n
      BY <2>1, FilledOrder
    <3>2. o.filled + n = n  OBVIOUS
    <3>. QED  BY <3>1, <3>2
  <2>3. AccountTypes' /\ holding' = holding + o.side * n
    BY <1>1, <1>3, <1>5, <2>1, FillKeepsTypes, FillCases
  <2>4. (Balanced /\ AverageIsExact) => Balanced'
    BY <1>1, <1>3, <1>5, <2>1, FillKeepsBalance
  <2>5. WithinLimit(o, new)  BY <1>5, PartIsWithinLimit
  <2>6. WithinLimit([new EXCEPT !.filled = 0, !.paid = 0], new)
    BY <2>2, <2>5 DEF WithinLimit, OrderRecords
  <2>. QED  BY <1>2, <1>5, <2>2, <2>3, <2>4, <2>6
<1>. QED  BY <1>4, <1>5

\* An order of the book changes, with a fill or without.
LEMMA ChangeKeeps ==
    ASSUME PaperInv, NEW i \in DOMAIN orders, NEW new \in OrderRecords,
           new.price \in Limits, orders' = [orders EXCEPT ![i] = new],
           WithinLimit(orders[i], new), new.side = orders[i].side,
           \/ UNCHANGED account /\ new.filled = orders[i].filled
           \/ \E n \in Nat \ {0}, price \in Nat :
                new.filled = orders[i].filled + n /\ UpdatePosition(new.side, n, price)
    PROVE  Kept /\ Len(orders') = Len(orders)
<1>1. /\ orders \in Seq(OrderRecords) /\ AccountTypes /\ holding = Net(orders)
      /\ \A j \in DOMAIN orders : orders[j].price \in Limits
  BY DEF PaperInv, PaperTypeOK, AccountTypes
<1>2. /\ orders' \in Seq(OrderRecords) /\ Len(orders') = Len(orders)
      /\ DOMAIN orders' = DOMAIN orders /\ orders'[i] = new
      /\ \A j \in DOMAIN orders \ {i} : orders'[j] = orders[j]
  BY <1>1
<1>3. orders[i].filled \in Nat /\ orders[i].side \in {1, -1}
  BY <1>1, OrderUnits DEF OrderRecords, Sides
<1>4. FillsWithinLimits
  <2>1. \A j \in DOMAIN orders : WithinLimit(orders[j], orders[j])
    <3>1. \A j \in DOMAIN orders : orders[j].filled \in Nat
      BY <1>1, OrderUnits DEF OrderRecords
    <3>. QED  BY <3>1 DEF WithinLimit
  <2>. QED  BY <1>2, <2>1 DEF FillsWithinLimits
<1>5. /\ AccountTypes' /\ ((Balanced /\ AverageIsExact) => Balanced')
      /\ holding' = holding + (new.side * new.filled - orders[i].side * orders[i].filled)
  <2>1. CASE UNCHANGED account /\ new.filled = orders[i].filled
    <3>1. new.side * new.filled - orders[i].side * orders[i].filled = 0
      BY <1>3, <2>1
    <3>. QED  BY <1>1, <2>1, <3>1 DEF account, AccountTypes, Balanced
  <2>2. ASSUME NEW n \in Nat \ {0}, NEW price \in Nat,
               new.filled = orders[i].filled + n, UpdatePosition(new.side, n, price)
        PROVE  /\ AccountTypes' /\ ((Balanced /\ AverageIsExact) => Balanced')
               /\ holding' = holding + (new.side * new.filled - orders[i].side * orders[i].filled)
    <3>1. new.side \in Sides  BY <1>3 DEF Sides
    <3>2. AccountTypes' /\ holding' = holding + new.side * n
      BY <1>1, <2>2, <3>1, FillKeepsTypes, FillCases
    <3>3. (Balanced /\ AverageIsExact) => Balanced'  BY <1>1, <2>2, <3>1, FillKeepsBalance
    <3>4. new.side * new.filled - orders[i].side * orders[i].filled = new.side * n
      BY <1>3, <2>2
    <3>. QED  BY <3>2, <3>3, <3>4
  <2>. QED  BY <2>1, <2>2
<1>6. holding' = Net(orders')  BY <1>1, <1>5, NetOfChanged
<1>. QED  BY <1>1, <1>2, <1>4, <1>5, <1>6 DEF Kept

\* An account without orders is sound.
LEMMA PaperInvInit == PaperInit => PaperInv /\ Balanced
<1>1. SUFFICES ASSUME PaperInit PROVE PaperInv /\ Balanced
  OBVIOUS
<1>2. orders = <<>> /\ DOMAIN orders = {} /\ orders \in Seq(OrderRecords) /\ Len(orders) = 0
  BY <1>1 DEF PaperInit
<1>3. Net(orders) = 0  BY <1>2, SumOfNone DEF Net
<1>4. references \in [References -> 0..Len(orders)]
  <2>1. references = [r \in References |-> 0]  BY <1>1 DEF PaperInit
  <2>. QED  BY <1>2, <2>1
<1>5. cash = StartingCash /\ holding = 0 /\ basis = 0 /\ realized = 0
  BY <1>1 DEF PaperInit
<1>6. quote = NoQuote /\ ambiguous = FALSE  BY <1>1 DEF PaperInit
<1>7. PaperTypeOK
  <2>1. cash \in Int /\ holding \in Int /\ basis \in Int /\ realized \in Int
    BY <1>5, PaperAssumption
  <2>. QED  BY <1>2, <1>4, <1>6, <2>1 DEF PaperTypeOK
<1>8. Balanced
  <2>1. StartingCash + 0 - 0 = StartingCash  BY PaperAssumption
  <2>. QED  BY <1>5, <2>1 DEF Balanced
<1>. QED  BY <1>2, <1>3, <1>5, <1>7, <1>8 DEF PaperInv

\* A step leaves the references and the quote in their types, and the rest is kept.
LEMMA KeptIsInv ==
    ASSUME PaperInv, Kept, references' \in [References -> 0..Len(orders')],
           quote' \in Quotes \union {NoQuote}, ambiguous' \in BOOLEAN
    PROVE  PaperInv'
BY DEF Kept, AccountTypes, PaperInv, PaperTypeOK

\* Nothing moves the account but a fill.
LEMMA IdleKeeps ==
    ASSUME PaperInv, UNCHANGED <<orders, account>>
    PROVE  Kept
<1>1. \A i \in DOMAIN orders : orders[i].filled \in Nat
  BY OrderUnits DEF PaperInv, PaperTypeOK, OrderRecords
<1>2. FillsWithinLimits  BY <1>1 DEF FillsWithinLimits, WithinLimit
<1>. QED  BY <1>2 DEF Kept, account, AccountTypes, PaperInv, PaperTypeOK, Balanced

\* An order on its arrival, filled in part, in full or not at all.
LEMMA AcceptKeeps ==
    ASSUME PaperInv, NEW r \in Requests, NEW ref \in References, Accept(r, ref)
    PROVE  Kept /\ references' \in [References -> 0..Len(orders')]
<1>. DEFINE o == NewOrder(r)
<1>1. quote \in Quotes  BY DEF Accept, PaperInv, PaperTypeOK
<1>2. o \in OrderRecords /\ o.price \in Limits /\ o.filled = 0 /\ o.paid = 0 /\ o.side = r.side
  BY NewOrderIsOrder DEF Requests
<1>3. r.qty \in Nat \ {0}  BY PaperAssumption DEF Requests
<1>4. \/ orders' = Append(orders, o) /\ UNCHANGED account
      \/ /\ quote \in Quotes /\ Fills(o, quote)
         /\ \E n \in Nat \ {0} :
              /\ orders' = Append(orders, Filled(o, n, FillPrice(o, quote)))
              /\ UpdatePosition(o.side, n, FillPrice(o, quote))
  <2>1. FillQuantities(r.qty, quote) \subseteq Nat \ {0}
    BY <1>1, <1>3, FillQuantitiesAreUnits
  <2>. QED  BY <1>1, <1>2, <2>1 DEF Accept
<1>. HIDE DEF o
<1>5. Kept /\ Len(orders') = Len(orders) + 1  BY <1>2, <1>4, ArrivalKeeps
<1>6. Len(orders) \in Nat /\ references \in [References -> 0..Len(orders)]
  BY DEF PaperInv, PaperTypeOK
<1>7. references' = [references EXCEPT ![ref] = Len(orders) + 1]  BY DEF Accept
<1>. QED  BY <1>5, <1>6, <1>7

\* A poll of an order that is working.
LEMMA PollKeeps ==
    ASSUME PaperInv, NEW i \in DOMAIN orders, PollOrder(i)
    PROVE  Kept /\ Len(orders') = Len(orders)
<1>. DEFINE o == orders[i]
<1>1. /\ quote \in Quotes /\ Fills(o, quote) /\ o.remaining > 0
      /\ o \in OrderRecords /\ o.price \in Limits
  BY OrderUnits DEF PollOrder, PaperInv, PaperTypeOK
<1>2. o.remaining \in Nat \ {0}  BY <1>1 DEF OrderRecords
<1>3. FillQuantities(o.remaining, quote) \subseteq Nat \ {0}
  BY <1>1, <1>2, FillQuantitiesAreUnits
<1>4. PICK n \in Nat \ {0} :
           /\ orders' = [orders EXCEPT ![i] = Filled(o, n, FillPrice(o, quote))]
           /\ UpdatePosition(o.side, n, FillPrice(o, quote))
  BY <1>3 DEF PollOrder
<1>. DEFINE new == Filled(o, n, FillPrice(o, quote))
<1>5. FillPrice(o, quote) \in Nat  BY <1>1, FillPriceIsPrice
<1>6. /\ new \in OrderRecords /\ new.side = o.side /\ new.price = o.price
      /\ new.filled = o.filled + n
  BY <1>1, <1>5, FilledOrder
<1>7. WithinLimit(o, new)  BY <1>1, PartIsWithinLimit
<1>. HIDE DEF new
<1>8. orders' = [orders EXCEPT ![i] = new] /\ UpdatePosition(new.side, n, FillPrice(o, quote))
  BY <1>4, <1>6 DEF new
<1>. QED  BY <1>1, <1>5, <1>6, <1>7, <1>8, ChangeKeeps

\* A cancelled order keeps its fills.
LEMMA CancelledOrder ==
    ASSUME NEW o \in OrderRecords
    PROVE  LET new == [o EXCEPT !.status = "CANCELLED", !.remaining = 0] IN
           /\ new \in OrderRecords
           /\ new.price = o.price /\ new.filled = o.filled /\ new.side = o.side
<1>1. PICK status \in {"ACKED", "EXECUTED", "CANCELLED"} : status = "CANCELLED"
  OBVIOUS
<1>2. PICK rest \in Int : rest = 0  OBVIOUS
<1>3. PICK first \in OrderRecords : first = [o EXCEPT !.status = status]
  <2>1. [o EXCEPT !.status = status] \in OrderRecords  BY DEF OrderRecords
  <2>. QED  BY <2>1
<1>4. /\ first.price = o.price /\ first.filled = o.filled /\ first.side = o.side
  BY <1>3 DEF OrderRecords
<1>5. LET new == [first EXCEPT !.remaining = rest] IN
      /\ new \in OrderRecords
      /\ new.price = first.price /\ new.filled = first.filled /\ new.side = first.side
  BY DEF OrderRecords
<1>6. [first EXCEPT !.remaining = rest] = [o EXCEPT !.status = "CANCELLED", !.remaining = 0]
  BY <1>1, <1>2, <1>3 DEF OrderRecords
<1>. QED  BY <1>4, <1>5, <1>6

\* What a client changes in an open order leaves what has filled alone.
LEMMA AmendKeeps ==
    ASSUME PaperInv, NEW i \in DOMAIN orders, Modify(i) \/ Cancel(i)
    PROVE  Kept /\ Len(orders') = Len(orders)
<1>. DEFINE o == orders[i]
<1>1. o \in OrderRecords /\ o.price \in Limits
  BY OrderUnits DEF PaperInv, PaperTypeOK
<1>2. ASSUME NEW new \in OrderRecords, new.price \in Limits, new.filled = o.filled,
             new.side = o.side, orders' = [orders EXCEPT ![i] = new], UNCHANGED account
      PROVE  Kept /\ Len(orders') = Len(orders)
  <2>1. o.filled \in Nat  BY <1>1 DEF OrderRecords
  <2>2. WithinLimit(o, new)  BY <1>2, <2>1 DEF WithinLimit
  <2>. QED  BY <1>2, <2>2, ChangeKeeps
<1>3. ASSUME NEW n \in 1..o.qty,
             orders' = [orders EXCEPT ![i].qty = n, ![i].remaining = n - orders[i].filled],
             UNCHANGED account
      PROVE  Kept /\ Len(orders') = Len(orders)
  <2>1. n \in Nat /\ n - o.filled \in Int  BY <1>1 DEF OrderRecords
  <2>2. PICK rest \in Int : rest = n - o.filled  BY <2>1
  <2>. DEFINE new == [o EXCEPT !.qty = n, !.remaining = rest]
  <2>3. /\ new \in OrderRecords /\ new.price \in Limits /\ new.filled = o.filled
        /\ new.side = o.side
    BY <1>1, <2>1 DEF OrderRecords
  <2>4. orders' = [orders EXCEPT ![i] = new]  BY <1>3, <2>2
  <2>. HIDE DEF new
  <2>. QED  BY <1>2, <1>3, <2>3, <2>4
<1>4. ASSUME NEW p \in Limits, orders' = [orders EXCEPT ![i].price = p], UNCHANGED account
      PROVE  Kept /\ Len(orders') = Len(orders)
  <2>. DEFINE new == [o EXCEPT !.price = p]
  <2>1. /\ new \in OrderRecords /\ new.price \in Limits /\ new.filled = o.filled
        /\ new.side = o.side
    BY <1>1, PaperAssumption DEF OrderRecords
  <2>2. orders' = [orders EXCEPT ![i] = new]  BY <1>4
  <2>. HIDE DEF new
  <2>. QED  BY <1>2, <1>4, <2>1, <2>2
<1>5. CASE Cancel(i)
  <2>. DEFINE new == [o EXCEPT !.status = "CANCELLED", !.remaining = 0]
  <2>1. /\ new \in OrderRecords /\ new.price \in Limits /\ new.filled = o.filled
        /\ new.side = o.side
    BY <1>1, CancelledOrder
  <2>2. orders' = [orders EXCEPT ![i] = new] /\ UNCHANGED account
    BY <1>5 DEF Cancel
  <2>. HIDE DEF new
  <2>. QED  BY <1>2, <2>1, <2>2
<1>. QED  BY <1>3, <1>4, <1>5 DEF Modify

\* No step of the account leaves it unsound.
LEMMA PaperStep ==
    ASSUME PaperInv, [PaperNext]_paperVars
    PROVE  PaperInv' /\ Kept
<1>. USE DEF bookVars
<1>1. /\ references \in [References -> 0..Len(orders)] /\ quote \in Quotes \union {NoQuote}
      /\ ambiguous \in BOOLEAN
  BY DEF PaperInv, PaperTypeOK
<1>2. CASE UNCHANGED paperVars \/ NewQuote \/ InjectAmbiguity
  <2>1. UNCHANGED <<orders, account>> /\ UNCHANGED references
    BY <1>2 DEF paperVars, NewQuote, InjectAmbiguity
  <2>2. quote' \in Quotes \union {NoQuote} /\ ambiguous' \in BOOLEAN
    BY <1>1, <1>2 DEF paperVars, NewQuote, InjectAmbiguity
  <2>. QED  BY <1>1, <2>1, <2>2, IdleKeeps, KeptIsInv
<1>3. ASSUME NEW r \in Requests, NEW ref \in References, PlaceOrder(r, ref)
      PROVE  PaperInv' /\ Kept
  <2>1. Kept /\ references' \in [References -> 0..Len(orders')]
    BY <1>3, AcceptKeeps DEF PlaceOrder
  <2>2. quote' = quote /\ ambiguous' = ambiguous  BY <1>3 DEF PlaceOrder
  <2>. QED  BY <1>1, <2>1, <2>2, KeptIsInv
<1>4. ASSUME NEW r \in Requests, NEW ref \in References, PlaceOrderAmbiguous(r, ref)
      PROVE  PaperInv' /\ Kept
  <2>1. quote' = quote /\ ambiguous' = FALSE  BY <1>4 DEF PlaceOrderAmbiguous
  <2>2. CASE quote = NoQuote
    <3>1. UNCHANGED <<orders, account>> /\ UNCHANGED references
      BY <1>4, <2>2 DEF PlaceOrderAmbiguous
    <3>. QED  BY <1>1, <2>1, <3>1, IdleKeeps, KeptIsInv
  <2>3. CASE quote # NoQuote
    <3>1. Kept /\ references' \in [References -> 0..Len(orders')]
      BY <1>4, <2>3, AcceptKeeps DEF PlaceOrderAmbiguous
    <3>. QED  BY <1>1, <2>1, <3>1, KeptIsInv
  <2>. QED  BY <2>2, <2>3
<1>5. ASSUME NEW i \in DOMAIN orders, PollOrder(i) \/ Modify(i) \/ Cancel(i)
      PROVE  PaperInv' /\ Kept
  <2>1. Kept /\ Len(orders') = Len(orders)  BY <1>5, PollKeeps, AmendKeeps
  <2>2. references' = references /\ quote' = quote /\ ambiguous' = ambiguous
    BY <1>5 DEF PollOrder, Modify, Cancel
  <2>. QED  BY <1>1, <2>1, <2>2, KeptIsInv
<1>. QED  BY <1>2, <1>3, <1>4, <1>5 DEF PaperNext

\* Types, and that the position is what the orders have bought less what they have sold,
\* for any quotes, sizes and number of orders.
THEOREM PaperInvariant == PaperSpec => []PaperInv
<1>1. PaperInv /\ [PaperNext]_paperVars => PaperInv'
  BY PaperStep
<1>. QED  BY <1>1, PaperInvInit, PTL DEF PaperSpec

\* The account follows its fills, whatever is filled in whichever parts, as long as the
\* amounts are in a unit in which the average price is exact.
THEOREM AccountAddsUp == PaperSpec /\ []AverageIsExact => []AccountFollowsFills
<1>1. PaperInv /\ Balanced /\ AverageIsExact /\ [PaperNext]_paperVars => Balanced'
  BY PaperStep DEF Kept
<1>2. PaperInv /\ Balanced => AccountFollowsFills
  <2>1. SUFFICES ASSUME PaperInv, Balanced PROVE AccountFollowsFills
    OBVIOUS
  <2>2. orders \in Seq(OrderRecords) /\ holding = Net(orders)
    BY <2>1 DEF PaperInv, PaperTypeOK
  <2>3. holding = FoldSeq(LAMBDA o, sum : sum + o.side * o.filled, 0, orders)
    BY <2>2, FoldIsNet
  <2>4. ASSUME NEW last \in {q.last : q \in Quotes}
        PROVE  StartingCash + realized + (last * holding - basis) = cash + last * holding
    <3>1. last \in Nat  BY PaperAssumption
    <3>2. PICK r \in Int, b \in Int, c \in Int, h \in Int :
               r = realized /\ b = basis /\ c = cash /\ h = holding
      BY <2>1 DEF PaperInv, PaperTypeOK
    <3>3. StartingCash + r - b = c /\ StartingCash \in Int
      BY <2>1, <3>2, PaperAssumption DEF Balanced
    <3>4. StartingCash + r + (last * h - b) = c + last * h  BY <3>1, <3>3
    <3>. QED  BY <3>2, <3>4
  <2>. QED  BY <2>3, <2>4 DEF AccountFollowsFills
<1>. QED  BY <1>1, <1>2, PaperInvariant, PaperInvInit, PTL DEF PaperSpec

\* Limit orders are filled at their limit or better.
THEOREM LimitsHonoured == PaperSpec => LimitHonoured
<1>1. PaperInv /\ [PaperNext]_paperVars =>
        [\A i \in DOMAIN orders' :
            LET new == orders'[i]
                o   == IF i \in DOMAIN orders THEN orders[i]
                       ELSE [new EXCEPT !.filled = 0, !.paid = 0]
                n   == new.filled - o.filled IN
            (o.type = "LIMIT" /\ n > 0)
                => o.side * (new.paid - o.paid) <= o.side * n * o.price]_paperVars
  BY PaperStep DEF Kept, FillsWithinLimits, WithinLimit
<1>. QED  BY <1>1, PaperInvariant, PTL DEF PaperSpec, LimitHonoured

-----------------------------------------------------------------------------
(* The entries *)

\* The risk of a contract is a number of ticks.
LEMMA RiskIsNat ==
    ASSUME NEW c \in Contracts, NEW price \in Nat, NEW move \in Nat
    PROVE  ContractRisk(c, price, move) \in Nat
<1>1. DeltaOf[c] \in Int  BY ChecksAssumption
<1>2. Abs(DeltaOf[c]) \in Nat  BY <1>1 DEF Abs
<1>3. 15 * price \in Nat /\ move * Abs(DeltaOf[c]) \in Nat  BY <1>2
<1>4. PICK n \in Nat : n = Bigger(15 * price, move * Abs(DeltaOf[c]))  BY <1>3 DEF Bigger
<1>5. n \div 100 \in Nat  OBVIOUS
<1>. QED  BY <1>4, <1>5 DEF ContractRisk

\* A stop lies at a price, at the first tick at the lowest.
LEMMA StopIsNat ==
    ASSUME NEW price \in Nat, NEW risk \in Nat
    PROVE  StopUnder(price, risk) \in Nat
BY DEF StopUnder, Bigger

\* The size of an order: whole lots, within the budget and within what may be deployed.
LEMMA LotsWithin ==
    ASSUME NEW price \in Nat \ {0}, NEW stop \in Nat, NEW q \in MarketQuotes,
           NEW exposure \in Int, NEW margin \in Int, NEW multiplier \in 0..100,
           LotSize * Lots(price, stop, q, exposure, margin, multiplier) > 0
    PROVE  LET units == LotSize * Lots(price, stop, q, exposure, margin, multiplier) IN
           /\ units \in Nat \ {0}
           /\ units * (price - stop) <= RiskBudget
           /\ units * price <= Deployable - exposure
<1>. DEFINE perLot == (price - stop) * LotSize
            cost == price * LotSize
            room == Bigger(0, Deployable - exposure)
            byRisk == (RiskBudget * multiplier) \div (100 * perLot)
            caps == {byRisk} \union {f \div cost : f \in {MaxPositionValue, room, margin}}
                    \union {FreezeQuantity \div LotSize, (2 * q.volume) \div (100 * LotSize)}
            n == Lots(price, stop, q, exposure, margin, multiplier)
<1>1. /\ LotSize \in Nat \ {0} /\ RiskBudget \in Nat /\ MaxPositionValue \in Nat
      /\ Deployable \in Nat /\ FreezeQuantity \in Nat /\ q.volume \in Nat
  BY ChecksAssumption, PipelineAssumption DEF RiskConfig
<1>2. perLot \in Int /\ cost \in Nat \ {0} /\ room \in Nat
  <2>1. PICK L \in Nat \ {0} : L = LotSize  BY <1>1
  <2>2. (price - stop) * L \in Int /\ price * L \in Nat /\ price * L > 0  OBVIOUS
  <2>3. Deployable - exposure \in Int  BY <1>1
  <2>. QED  BY <2>1, <2>2, <2>3 DEF Bigger
<1>3. perLot > 0 /\ n = Min(caps)
  <2>1. CASE perLot <= 0
    <3>1. n = 0  BY <2>1 DEF Lots
    <3>. QED  BY <1>1, <3>1
  <2>2. CASE ~(perLot <= 0)
    <3>1. n = Min(caps)  BY <2>2 DEF Lots
    <3>. QED  BY <1>2, <2>2, <3>1
  <2>. QED  BY <2>1, <2>2
<1>4. /\ byRisk \in Int /\ room \div cost \in Int /\ margin \div cost \in Int
      /\ MaxPositionValue \div cost \in Int /\ FreezeQuantity \div LotSize \in Int
      /\ (2 * q.volume) \div (100 * LotSize) \in Int
  <2>. HIDE DEF perLot, cost, room
  <2>1. PICK p \in Nat \ {0}, m \in Nat, B \in Nat, L \in Nat \ {0}, v \in Nat :
             p = perLot /\ m = multiplier /\ B = RiskBudget /\ L = LotSize /\ v = q.volume
    <3>1. perLot \in Nat \ {0} /\ multiplier \in Nat  BY <1>2, <1>3
    <3>. QED  BY <1>1, <3>1
  <2>2. (B * m) \div (100 * p) \in Int /\ (2 * v) \div (100 * L) \in Int  OBVIOUS
  <2>. QED  BY <1>1, <1>2, <2>1, <2>2
<1>. HIDE DEF perLot, cost, room, byRisk, n
<1>5. caps \subseteq Int /\ caps # {}  BY <1>4
<1>6. \E b \in Int : \A x \in caps : b <= x
  <2>1. PICK c1 \in Int, c2 \in Int, c3 \in Int, c4 \in Int, c5 \in Int, c6 \in Int :
             /\ c1 = byRisk /\ c2 = room \div cost /\ c3 = margin \div cost
             /\ c4 = MaxPositionValue \div cost /\ c5 = FreezeQuantity \div LotSize
             /\ c6 = (2 * q.volume) \div (100 * LotSize)
    BY <1>4
  <2>2. caps = {c1, c2, c3, c4, c5, c6}  BY <2>1
  <2>3. PICK b \in Int : b <= c1 /\ b <= c2 /\ b <= c3 /\ b <= c4 /\ b <= c5 /\ b <= c6
    <3>1. PICK d1 \in Int : d1 <= c1 /\ d1 <= c2
      <4>1. CASE c1 <= c2  BY <4>1
      <4>2. CASE ~(c1 <= c2)  BY <4>2
      <4>. QED  BY <4>1, <4>2
    <3>2. PICK d2 \in Int : d2 <= d1 /\ d2 <= c3
      <4>1. CASE d1 <= c3  BY <4>1
      <4>2. CASE ~(d1 <= c3)  BY <4>2
      <4>. QED  BY <4>1, <4>2
    <3>3. PICK d3 \in Int : d3 <= d2 /\ d3 <= c4
      <4>1. CASE d2 <= c4  BY <4>1
      <4>2. CASE ~(d2 <= c4)  BY <4>2
      <4>. QED  BY <4>1, <4>2
    <3>4. PICK d4 \in Int : d4 <= d3 /\ d4 <= c5
      <4>1. CASE d3 <= c5  BY <4>1
      <4>2. CASE ~(d3 <= c5)  BY <4>2
      <4>. QED  BY <4>1, <4>2
    <3>5. PICK d5 \in Int : d5 <= d4 /\ d5 <= c6
      <4>1. CASE d4 <= c6  BY <4>1
      <4>2. CASE ~(d4 <= c6)  BY <4>2
      <4>. QED  BY <4>1, <4>2
    <3>6. d5 <= c1 /\ d5 <= c2 /\ d5 <= c3 /\ d5 <= c4 /\ d5 <= c5 /\ d5 <= c6
      BY <3>1, <3>2, <3>3, <3>4, <3>5
    <3>. QED  BY <3>6
  <2>. QED  BY <2>2, <2>3
<1>7. byRisk \in caps /\ room \div cost \in caps  OBVIOUS
<1>. HIDE DEF caps
<1>8. PICK least \in caps : \A x \in caps : least <= x  BY <1>5, <1>6, LeastInteger
<1>9. n \in Int /\ n <= byRisk /\ n <= room \div cost
  BY <1>3, <1>5, <1>7, <1>8 DEF Min
<1>10. PICK k \in Nat \ {0}, L \in Nat \ {0} : k = n /\ L = LotSize /\ L * k \in Nat \ {0}
  <2>1. LotSize * n > 0  BY DEF n
  <2>2. PICK L \in Nat \ {0}, j \in Int : L = LotSize /\ j = n  BY <1>1, <1>9
  <2>3. j > 0
    <3>1. SUFFICES ASSUME j <= 0 PROVE FALSE  BY <2>2
    <3>2. L * j <= 0  BY <3>1
    <3>. QED  BY <2>1, <2>2, <3>2
  <2>4. L * j \in Nat \ {0}  BY <2>1, <2>2, <2>3
  <2>. QED  BY <2>2, <2>3, <2>4
<1>11. L * k * (price - stop) <= RiskBudget
  <2>1. PICK p \in Nat \ {0}, B \in Nat, m \in 0..100 : p = perLot /\ B = RiskBudget /\ m = multiplier
    BY <1>1, <1>2, <1>3
  <2>2. B * m \in Int /\ 100 * p \in Nat \ {0}  OBVIOUS
  <2>3. k <= (B * m) \div (100 * p)  BY <1>9, <1>10, <2>1 DEF byRisk
  <2>4. k * (100 * p) <= B * m  BY <2>2, <2>3, PartsWithin
  <2>5. B * m <= B * 100  OBVIOUS
  <2>6. k * p <= B
    <3>1. PICK kp \in Int : kp = k * p  OBVIOUS
    <3>2. k * (100 * p) = 100 * kp  BY <3>1
    <3>3. B * m \in Int  OBVIOUS
    <3>. QED  BY <2>4, <2>5, <3>1, <3>2, <3>3
  <2>7. p = (price - stop) * L  BY <1>10, <2>1 DEF perLot
  <2>8. L * k * (price - stop) = k * p  BY <2>7
  <2>. QED  BY <2>1, <2>6, <2>8
<1>12. L * k * price <= Deployable - exposure
  <2>1. PICK c \in Nat \ {0}, r \in Nat : c = cost /\ r = room  BY <1>2
  <2>2. k * c <= r  BY <1>9, <1>10, <2>1, PartsWithin
  <2>3. c = price * L  BY <1>10, <2>1 DEF cost
  <2>4. L * k * price = k * c  BY <2>3
  <2>5. k * c > 0  OBVIOUS
  <2>6. r = Deployable - exposure  BY <1>1, <2>1, <2>2, <2>5 DEF room, Bigger
  <2>. QED  BY <2>2, <2>4, <2>6
<1>. QED  BY <1>10, <1>11, <1>12 DEF n

-----------------------------------------------------------------------------
(* Exposure is a sum over contracts. *)

Worth(portfolio, last, S) == [c \in S |-> Abs(portfolio[c]) * last[c]]

\* What each position of a portfolio is worth is a number.
LEMMA WorthType ==
    ASSUME NEW portfolio \in [Contracts -> Int], NEW last \in [Contracts -> Nat],
           NEW S \in SUBSET Contracts
    PROVE  /\ IsFiniteSet(S)
           /\ \A c \in S : /\ Worth(portfolio, last, S)[c] = Abs(portfolio[c]) * last[c]
                           /\ Worth(portfolio, last, S)[c] \in Int
<1>1. IsFiniteSet(S)  BY ChecksAssumption, FS_Subset
<1>2. ASSUME NEW c \in S
      PROVE  Abs(portfolio[c]) * last[c] \in Int
  <2>1. portfolio[c] \in Int /\ last[c] \in Nat  OBVIOUS
  <2>2. Abs(portfolio[c]) \in Nat  BY <2>1 DEF Abs
  <2>. QED  BY <2>1, <2>2
<1>. QED  BY <1>1, <1>2 DEF Worth

\* The exposure of a set of contracts is the sum of what its positions are worth.
LEMMA ExposureIsSum ==
    ASSUME NEW portfolio \in [Contracts -> Int], NEW last \in [Contracts -> Nat],
           NEW S \in SUBSET Contracts
    PROVE  /\ Exposure(portfolio, last, S) = SumOver(Worth(portfolio, last, S), S)
           /\ Exposure(portfolio, last, S) \in Int
<1>. DEFINE w == Worth(portfolio, last, S)
            Turn(g) ==
              [t \in SUBSET S |->
                 IF t = {} THEN 0
                 ELSE LET x == CHOOSE x \in t : TRUE
                      IN Abs(portfolio[x]) * last[x] + g[t \ {x}]]
            Iter == CHOOSE g : g = Turn(g)
<1>1. Exposure(portfolio, last, S) = Iter[S]
  BY DEF Exposure, MapThenSumSet, MapThenFoldSet
<1>2. \A g : AddsUp(g, w, S) <=> g = Turn(g)
  BY WorthType, ChosenIsMember DEF AddsUp, Chosen
<1>. HIDE DEF Turn, w
<1>3. IsFiniteSet(S) /\ \A c \in S : w[c] \in Int  BY WorthType DEF w
<1>4. PICK g \in [SUBSET S -> Int] : AddsUp(g, w, S)  BY <1>3, SomethingAddsUp
<1>5. AddsUp(Iter, w, S)  BY <1>2, <1>4
<1>6. SumOver(w, S) = Iter[S] /\ SumOver(w, S) \in Int  BY <1>3, <1>5, SumIsSum, SumType
<1>. QED  BY <1>1, <1>6 DEF w

\* What an order adds to a portfolio adds at most its own worth to the exposure.
LEMMA ExposureGrows ==
    ASSUME NEW portfolio \in [Contracts -> Int], NEW last \in [Contracts -> Nat],
           NEW S \in SUBSET Contracts, NEW c \in S, NEW side \in {1, -1}, NEW n \in Nat
    PROVE  Exposure([portfolio EXCEPT ![c] = @ + side * n], last, S)
             <= Exposure(portfolio, last, S) + n * last[c]
<1>. DEFINE more == [portfolio EXCEPT ![c] = @ + side * n]
            w == Worth(portfolio, last, S)
            v == Worth(more, last, S)
<1>1. portfolio[c] + side * n \in Int  OBVIOUS
<1>2. /\ more \in [Contracts -> Int] /\ more[c] = portfolio[c] + side * n
      /\ \A d \in S \ {c} : more[d] = portfolio[d]
  BY <1>1
<1>. HIDE DEF more
<1>3. /\ IsFiniteSet(S) /\ \A d \in S : w[d] \in Int /\ v[d] \in Int
      /\ \A d \in S : w[d] = Abs(portfolio[d]) * last[d] /\ v[d] = Abs(more[d]) * last[d]
  BY <1>2, WorthType
<1>4. Exposure(more, last, S) = SumOver(v, S) /\ Exposure(portfolio, last, S) = SumOver(w, S)
      /\ SumOver(w, S) \in Int
  BY <1>2, <1>3, ExposureIsSum, SumType
<1>. HIDE DEF v, w
<1>5. \A d \in S \ {c} : v[d] = w[d]  BY <1>2, <1>3
<1>6. SumOver(v, S) = SumOver(w, S) + (v[c] - w[c])  BY <1>3, <1>5, SumChanges
<1>7. v[c] - w[c] <= n * last[c]
  <2>1. PICK p \in Int, l \in Nat : p = portfolio[c] /\ l = last[c]  OBVIOUS
  <2>2. w[c] = Abs(p) * l /\ v[c] = Abs(p + side * n) * l  BY <1>2, <1>3, <2>1
  <2>3. PICK a \in Nat, b \in Nat : a = Abs(p) /\ b = Abs(p + side * n)
    BY <1>1, <2>1 DEF Abs
  <2>4. b <= a + n  BY <2>3 DEF Abs
  <2>5. PICK k \in Nat : b + k = a + n  BY <2>4
  <2>6. a * l + n * l = b * l + k * l
    <3>1. (a + n) * l = (b + k) * l  BY <2>5
    <3>. QED  BY <3>1
  <2>7. k * l >= 0 /\ a * l \in Int /\ n * l \in Int /\ b * l \in Int /\ k * l \in Int  OBVIOUS
  <2>8. b * l - a * l <= n * l  BY <2>6, <2>7
  <2>. QED  BY <2>1, <2>2, <2>3, <2>8
<1>8. n * last[c] \in Int  OBVIOUS
<1>. QED  BY <1>3, <1>4, <1>6, <1>7, <1>8 DEF more

-----------------------------------------------------------------------------
(* The approval, and what is tracked of it. *)

ApprovalRecords ==
    [units : Nat \ {0}, contract : Contracts, side : {1, -1}, risk : Nat,
     price : Nat, seen : [Contracts -> Int]]
PositionRecords == [contract : Contracts, units : Nat \ {0}, entry : Nat, stop : Nat]

\* An approved order is inside the limits of the account it was checked against, at the
\* quote of the moment, which does not move before the order is sent.
ApprovalSound(a) ==
    /\ a.price = market[a.contract].last /\ a.price > 0
    /\ a.units * (a.price - StopUnder(a.price, a.risk)) <= RiskBudget
    /\ WithinLimits(a.seen, LastOf(market), a.contract, a.side * a.units, a.price)
    /\ a.units * a.price <= Deployable - Exposure(a.seen, LastOf(market), Contracts)

EntryInv ==
    /\ EntryTypeOK
    /\ approval # NoApproval =>
         agenda # <<>> /\ Len(managed) < MaxTracked /\ ApprovalSound(approval)
    /\ RiskWithinBudget

\* The market quotes every contract, at prices that are numbers.
LEMMA QuoteOfContract ==
    ASSUME EntryTypeOK, NEW c \in Contracts
    PROVE  /\ market[c] \in MarketQuotes /\ market[c].last \in Nat \ {0}
           /\ market[c].bid \in Nat /\ market[c].ask \in Nat
           /\ LastOf(market) \in [Contracts -> Nat] /\ LastOf(market)[c] = market[c].last
<1>1. \A d \in Contracts : market[d] \in MarketQuotes  BY DEF EntryTypeOK
<1>2. \A d \in Contracts : market[d].last \in Nat  BY <1>1, PipelineAssumption
<1>. QED  BY <1>1, <1>2, PipelineAssumption DEF LastOf

\* What a tracked position risks.
LEMMA TrackedRisk ==
    ASSUME NEW q \in MarketQuotes, NEW units \in Nat \ {0}, NEW n \in 1..units,
           NEW risk \in Nat, NEW fill \in {q.last, q.bid, q.ask},
           units * (q.last - StopUnder(q.last, risk)) <= RiskBudget
    PROVE  LET stop == StopUnder(fill, risk) IN
           \/ n * (fill - stop) <= RiskBudget
           \/ /\ fill \in {q.bid, q.ask} /\ stop <= Bigger(1, fill - q.last)
              /\ n * (fill - stop) <= RiskBudget + n * (fill - q.last)
<1>. DEFINE stop == StopUnder(fill, risk)
<1>1. PICK B \in Nat, last \in Nat \ {0}, f \in Nat :
           B = RiskBudget /\ last = q.last /\ f = fill
  BY ChecksAssumption, PipelineAssumption DEF RiskConfig
<1>2. stop = (IF 1 > f - risk THEN 1 ELSE f - risk)  BY <1>1 DEF StopUnder, Bigger
<1>3. StopUnder(last, risk) = (IF 1 > last - risk THEN 1 ELSE last - risk)
  BY DEF StopUnder, Bigger
<1>. HIDE DEF stop
<1>4. n \in Nat /\ n > 0 /\ n <= units  OBVIOUS
<1>5. ASSUME NEW r \in Nat, units * r <= B
      PROVE  n * r <= B
  <2>1. PICK k \in Nat : units = n + k
    <3>1. units - n \in Nat /\ units = n + (units - n)  BY <1>4
    <3>. QED  BY <3>1
  <2>2. units * r = n * r + k * r  BY <2>1, <1>4
  <2>3. k * r >= 0 /\ n * r \in Int /\ k * r \in Int  BY <1>4
  <2>. QED  BY <1>5, <2>2, <2>3
<1>6. CASE 1 <= last - risk
  <2>1. last - StopUnder(last, risk) = risk  BY <1>3, <1>6
  <2>2. n * risk <= B  BY <1>1, <1>5, <2>1
  <2>3. f - stop \in Int /\ f - stop <= risk  BY <1>2
  <2>4. n * (f - stop) <= n * risk
    <3>1. PICK d \in Int, j \in Nat : d = f - stop /\ j = risk - d  BY <2>3
    <3>2. risk = d + j  BY <3>1
    <3>3. n * risk = n * d + n * j  BY <1>4, <3>2
    <3>4. n * j >= 0 /\ n * d \in Int /\ n * j \in Int  BY <1>4
    <3>. QED  BY <3>1, <3>3, <3>4
  <2>5. n * (f - stop) \in Int /\ n * risk \in Int  BY <1>4, <2>3
  <2>. QED  BY <1>1, <2>2, <2>4, <2>5 DEF stop
<1>7. CASE ~(1 <= last - risk)
  <2>1. last - StopUnder(last, risk) = last - 1  BY <1>3, <1>7
  <2>2. PICK r \in Nat : r = last - 1  OBVIOUS
  <2>3. n * r <= B  BY <1>1, <1>5, <2>1, <2>2
  <2>4. CASE f <= last
    <3>1. stop = 1  BY <1>2, <1>7, <2>4
    <3>2. PICK j \in Nat : j = last - f  BY <2>4
    <3>3. f - stop = r - j  BY <2>2, <3>1, <3>2
    <3>4. n * (r - j) = n * r - n * j /\ n * j >= 0 /\ n * r \in Int /\ n * j \in Int  BY <1>4
    <3>5. n * (f - stop) <= B  BY <2>3, <3>3, <3>4
    <3>. QED  BY <1>1, <3>5 DEF stop
  <2>5. CASE f > last
    <3>1. PICK j \in Nat \ {0} : j = f - last  BY <2>5
    <3>2. fill \in {q.bid, q.ask}  BY <1>1, <2>5
    <3>3. stop <= (IF 1 > j THEN 1 ELSE j)  BY <1>2, <1>7, <3>1
    <3>4. PICK d \in Nat : stop = 1 + d  BY <1>2
    <3>5. f - stop = r + j - d  BY <2>2, <3>1, <3>4
    <3>6. n * (r + j - d) = n * r + n * j - n * d /\ n * d >= 0
          /\ n * r \in Int /\ n * j \in Int /\ n * d \in Int
      BY <1>4
    <3>7. n * (f - stop) <= B + n * j  BY <2>3, <3>5, <3>6
    <3>. QED  BY <1>1, <3>1, <3>2, <3>3, <3>7 DEF stop, Bigger
  <2>. QED  BY <2>4, <2>5
<1>. QED  BY <1>6, <1>7

\* What the risk gate approves risks no more than its budget, by the stop it is given.
LEMMA ApprovedIsSound ==
    ASSUME EntryTypeOK, NEW o \in Opportunities, NEW c \in Contracts,
           NEW seen \in [Contracts -> Int], NEW margin \in Margins,
           NEW multiplier \in Multipliers, Approved(o, c, seen, margin, multiplier)
    PROVE  /\ approval' \in ApprovalRecords /\ ApprovalSound(approval')
<1>. DEFINE q == market[c]
            risk == ContractRisk(c, q.last, o.stopMove)
            stop == StopUnder(q.last, risk)
            total == Exposure(seen, LastOf(market), Contracts)
            units == LotSize * Lots(q.last, stop, q, total, margin.available, multiplier)
            side == IF o.direction = "LONG" THEN 1 ELSE -1
<1>1. /\ q \in MarketQuotes /\ q.last \in Nat \ {0} /\ LastOf(market) \in [Contracts -> Nat]
  BY QuoteOfContract
<1>2. o.stopMove \in Nat /\ margin.available \in Int /\ multiplier \in 0..100
  BY PipelineAssumption
<1>3. risk \in Nat /\ stop \in Nat  BY <1>1, <1>2, RiskIsNat, StopIsNat
<1>4. total \in Int  BY <1>1, ExposureIsSum
<1>5. units > 0 /\ WithinLimits(seen, LastOf(market), c, side * units, q.last)
      /\ approval' = [units |-> units, contract |-> c, side |-> side, risk |-> risk,
                      price |-> q.last, seen |-> seen]
  BY DEF Approved
<1>6. side \in {1, -1}  OBVIOUS
<1>. HIDE DEF risk, stop, total, side
<1>7. /\ units \in Nat \ {0} /\ units * (q.last - stop) <= RiskBudget
      /\ units * q.last <= Deployable - total
  BY <1>1, <1>2, <1>3, <1>4, <1>5, LotsWithin
<1>. HIDE DEF units, q
<1>8. approval' \in ApprovalRecords
  BY <1>1, <1>3, <1>5, <1>6, <1>7 DEF ApprovalRecords
<1>9. /\ approval'.units = units /\ approval'.contract = c /\ approval'.side = side
      /\ approval'.risk = risk /\ approval'.price = q.last /\ approval'.seen = seen
  BY <1>5
<1>10. ApprovalSound(approval')
  BY <1>1, <1>5, <1>7, <1>9 DEF ApprovalSound, stop, total, q
<1>. QED  BY <1>8, <1>10

-----------------------------------------------------------------------------
\* What a scan ranks is a sequence of opportunities: there is at most one of each
\* underlying, so that their set is finite.
LEMMA RankedIsSequence ==
    ASSUME NEW ranked \in Rankings
    PROVE  ranked \in Seq(Opportunities) /\ ranked # <<>>
<1>1. PICK S \in Scans : ranked \in SetToSeqs(S)  BY DEF Rankings
<1>2. /\ S \subseteq Opportunities /\ S # {}
      /\ \A o, p \in S : o.underlying = p.underlying => o = p
  BY <1>1 DEF Scans
<1>3. \A o \in S : \E c \in Contracts : UnderlyingOf[c] = o.underlying
  <2>1. \A o \in S : o.underlying \in Underlyings  BY <1>2, PipelineAssumption
  <2>. QED  BY <2>1 DEF Underlyings
<1>4. IsFiniteSet(S)
  <2>. DEFINE f == [o \in S |-> CHOOSE c \in Contracts : UnderlyingOf[c] = o.underlying]
  <2>1. \A o \in S : f[o] \in Contracts /\ UnderlyingOf[f[o]] = o.underlying  BY <1>3
  <2>. HIDE DEF f
  <2>2. f \in [S -> Contracts]  BY <2>1 DEF f
  <2>3. f \in Injection(S, Contracts)  BY <1>2, <2>1, <2>2 DEF Injection, IsInjective
  <2>. QED  BY <2>3, FS_Injection, ChecksAssumption
<1>5. Cardinality(S) \in Nat /\ Cardinality(S) # 0
  BY <1>2, <1>4, FS_CardinalityType, FS_EmptySet
<1>6. ranked \in [1..Cardinality(S) -> S]  BY <1>1 DEF SetToSeqs
<1>7. PICK n \in Nat \ {0} : n = Cardinality(S)  BY <1>5
<1>8. ranked \in [1..n -> Opportunities]  BY <1>2, <1>6, <1>7
<1>9. ranked \in Seq(Opportunities) /\ Len(ranked) = n  BY <1>8
<1>. QED  BY <1>9

\* Nothing is managed at the start.
LEMMA EntryInitially == EntryInit => EntryInv
<1>. SUFFICES ASSUME EntryInit PROVE EntryInv  OBVIOUS
<1>. USE DEF EntryInit
<1>1. (CHOOSE q \in MarketQuotes : TRUE) \in MarketQuotes  BY PipelineAssumption
<1>2. market \in [Contracts -> MarketQuotes]  BY <1>1
<1>3. managed = <<>> /\ Len(managed) = 0 /\ DOMAIN managed = {} /\ MaxTracked \in Nat
  BY PipelineAssumption
<1>4. EntryTypeOK  BY <1>2, <1>3 DEF EntryTypeOK
<1>5. RiskWithinBudget  BY <1>3 DEF RiskWithinBudget
<1>. QED  BY <1>4, <1>5 DEF EntryInv

\* Steps that leave the tracked positions and an approval alone.
LEMMA EntryInvAt ==
    ASSUME EntryInv, UNCHANGED managed, approval' = NoApproval, EntryTypeOK'
    PROVE  EntryInv'
BY DEF EntryInv, RiskWithinBudget

\* A cycle only lists what it will look at.
LEMMA BeginCyclePreserves ==
    ASSUME EntryInv, NEW ranked \in Rankings, BeginCycle(ranked)
    PROVE  EntryInv'
<1>. USE DEF BeginCycle
<1>1. ranked \in Seq(Opportunities)  BY RankedIsSequence
<1>2. approval' = NoApproval /\ UNCHANGED managed  BY DEF Between
<1>3. EntryTypeOK'  BY <1>1, <1>2 DEF EntryInv, EntryTypeOK
<1>. QED  BY <1>2, <1>3, EntryInvAt

\* Prices that move leave the risk of a position at what it was entered with.
LEMMA MarketMovesPreserves ==
    ASSUME EntryInv, NEW c \in Contracts, MarketMoves(c)
    PROVE  EntryInv'
<1>1. market' \in [Contracts -> MarketQuotes]
  BY DEF EntryInv, EntryTypeOK, MarketMoves
<1>2. approval' = NoApproval /\ UNCHANGED managed  BY DEF Between, MarketMoves
<1>3. EntryTypeOK'  BY <1>1, <1>2 DEF EntryInv, EntryTypeOK, MarketMoves
<1>. QED  BY <1>2, <1>3, EntryInvAt

\* A fill nobody was told of changes the broker's side alone.
LEMMA UnknownFillsPreserves ==
    ASSUME EntryInv, NEW c \in Contracts, UnknownFills(c)
    PROVE  EntryInv'
<1>. USE DEF UnknownFills
<1>1. net[c] + unknown[c] \in Int  BY DEF EntryInv, EntryTypeOK
<1>2. net' \in [Contracts -> Int] /\ unknown' \in [Contracts -> Int]
  BY <1>1 DEF EntryInv, EntryTypeOK
<1>3. EntryTypeOK'  BY <1>2 DEF EntryInv, EntryTypeOK
<1>4. approval # NoApproval => ApprovalSound(approval)'
  BY DEF EntryInv, ApprovalSound, LastOf
<1>. QED  BY <1>3, <1>4 DEF EntryInv, RiskWithinBudget

\* A candidate is approved within the limits or passed over.
LEMMA EvaluatePreserves ==
    ASSUME EntryInv, Evaluate
    PROVE  EntryInv'
<1>1. EntryTypeOK /\ agenda # <<>> /\ Len(managed) < MaxTracked
      /\ UNCHANGED <<market, net, managed, agenda, unknown, allowed>>
  BY DEF EntryInv, Evaluate
<1>2. Head(agenda) \in Opportunities  BY <1>1 DEF EntryTypeOK
<1>3. PICK c \in OfUnderlying(Head(agenda).underlying), m \in Margins, mult \in Multipliers,
           seen \in {net, [d \in Contracts |-> 0]} : Approved(Head(agenda), c, seen, m, mult)
  BY DEF Evaluate
<1>4. c \in Contracts /\ seen \in [Contracts -> Int]
  BY <1>1, <1>3 DEF OfUnderlying, EntryTypeOK
<1>5. approval' \in ApprovalRecords /\ ApprovalSound(approval')
  BY <1>1, <1>2, <1>3, <1>4, ApprovedIsSound
<1>6. ApprovalSound(approval)'  BY <1>1, <1>5 DEF ApprovalSound, LastOf
<1>7. EntryTypeOK'  BY <1>1, <1>5 DEF EntryTypeOK, ApprovalRecords
<1>8. RiskWithinBudget'  BY <1>1 DEF EntryInv, RiskWithinBudget
<1>. QED  BY <1>1, <1>6, <1>7, <1>8 DEF EntryInv

\* A candidate that is done with leaves the agenda.
LEMMA ShorterAgenda ==
    ASSUME EntryTypeOK, agenda # <<>>
    PROVE  Tail(agenda) \in Seq(Opportunities)
BY DEF EntryTypeOK

\* An approval that does not fill leaves nothing behind.
LEMMA NextOnePreserves ==
    ASSUME EntryInv, PassOver \/ NoFill \/ FillUnknown
    PROVE  EntryInv'
<1>1. EntryTypeOK /\ agenda # <<>>  BY DEF EntryInv, PassOver, NoFill, FillUnknown
<1>2. agenda' \in Seq(Opportunities)
  <2>1. agenda' = <<>> \/ agenda' = Tail(agenda)  BY DEF PassOver, NoFill, FillUnknown
  <2>2. <<>> \in Seq(Opportunities) /\ Tail(agenda) \in Seq(Opportunities)
    BY <1>1, ShorterAgenda
  <2>. QED  BY <2>1, <2>2
<1>3. approval' = NoApproval /\ UNCHANGED <<market, net, managed>>
  BY DEF PassOver, NoFill, FillUnknown
<1>4. unknown' \in [Contracts -> Int]
  <2>1. CASE PassOver \/ NoFill  BY <1>1, <2>1 DEF PassOver, NoFill, EntryTypeOK
  <2>2. CASE FillUnknown
    <3>1. approval \in ApprovalRecords
      BY <1>1, <2>2 DEF EntryTypeOK, FillUnknown, ApprovalRecords
    <3>2. PICK u \in Nat, s \in {1, -1}, c \in Contracts :
               u = approval.units /\ s = approval.side /\ c = approval.contract
      BY <3>1 DEF ApprovalRecords
    <3>3. unknown[c] \in Int /\ s * u \in Int  BY <1>1 DEF EntryTypeOK
    <3>4. unknown[c] + s * u \in Int  BY <3>3
    <3>5. unknown' = [unknown EXCEPT ![c] = @ + s * u]  BY <2>2, <3>2 DEF FillUnknown
    <3>. QED  BY <1>1, <3>4, <3>5 DEF EntryTypeOK
  <2>. QED  BY <2>1, <2>2
<1>5. allowed' \in BOOLEAN  BY <1>1 DEF PassOver, NoFill, FillUnknown, EntryTypeOK
<1>6. EntryTypeOK'  BY <1>1, <1>2, <1>3, <1>4, <1>5 DEF EntryTypeOK
<1>. QED  BY <1>3, <1>6, EntryInvAt

\* A fill is managed with the stop and the lots of its approval.
LEMMA FillPreserves ==
    ASSUME EntryInv, Fill
    PROVE  EntryInv'
<1>. DEFINE a == approval
            q == market[a.contract]
<1>1. /\ EntryTypeOK /\ a # NoApproval /\ agenda # <<>> /\ Len(managed) < MaxTracked
      /\ ApprovalSound(a) /\ RiskWithinBudget
  BY DEF EntryInv, Fill
<1>2. a \in ApprovalRecords  BY <1>1 DEF EntryTypeOK, ApprovalRecords
<1>3. /\ a.units \in Nat \ {0} /\ a.contract \in Contracts /\ a.side \in {1, -1} /\ a.risk \in Nat
  BY <1>2 DEF ApprovalRecords
<1>4. q \in MarketQuotes /\ q.last \in Nat /\ q.bid \in Nat /\ q.ask \in Nat
  BY <1>1, <1>3, QuoteOfContract
<1>5. PICK n \in 1..a.units, fill \in {q.last, IF a.side = 1 THEN q.ask ELSE q.bid} :
           /\ net' = [net EXCEPT ![a.contract] = @ + a.side * n]
           /\ managed' = Append(managed, Track(a, n, fill))
  BY DEF Fill
<1>6. approval' = NoApproval /\ agenda' = Tail(agenda) /\ UNCHANGED <<market, unknown, allowed>>
  BY DEF Fill
<1>. DEFINE p == Track(a, n, fill)
            stop == StopUnder(fill, a.risk)
<1>7. fill \in Nat /\ fill \in {q.last, q.bid, q.ask} /\ n \in Nat \ {0}  BY <1>3, <1>4, <1>5
<1>8. stop \in Nat  BY <1>3, <1>7, StopIsNat
<1>9. p = [contract |-> a.contract, units |-> n, entry |-> fill, stop |-> stop]
  BY DEF Track
<1>10. p \in PositionRecords  BY <1>3, <1>7, <1>8, <1>9 DEF PositionRecords
<1>. HIDE DEF p, stop
<1>11. managed \in Seq(PositionRecords)  BY <1>1 DEF EntryTypeOK, PositionRecords
<1>12. /\ managed' \in Seq(PositionRecords) /\ Len(managed') = Len(managed) + 1
       /\ \A i \in DOMAIN managed' : managed'[i] = p \/ (i \in DOMAIN managed /\ managed'[i] = managed[i])
  <2>1. managed' = Append(managed, p)  BY <1>5 DEF p
  <2>. QED  BY <1>10, <1>11, <2>1
<1>13. net' \in [Contracts -> Int]
  <2>1. PICK s \in {1, -1}, c \in Contracts : s = a.side /\ c = a.contract  BY <1>3
  <2>2. net[c] \in Int  BY <1>1 DEF EntryTypeOK
  <2>3. net[c] + s * n \in Int  BY <1>7, <2>2
  <2>4. net' = [net EXCEPT ![c] = @ + s * n]  BY <1>5, <2>1
  <2>. QED  BY <1>1, <2>3, <2>4 DEF EntryTypeOK
<1>14. Len(managed') <= MaxTracked
  BY <1>1, <1>11, <1>12, PipelineAssumption
<1>15. EntryTypeOK'
  BY <1>1, <1>6, <1>12, <1>13, <1>14, ShorterAgenda DEF EntryTypeOK, PositionRecords
<1>16. \/ p.units * (p.entry - p.stop) <= RiskBudget
       \/ /\ p.entry \in {q.bid, q.ask} /\ p.stop <= Bigger(1, p.entry - q.last)
          /\ p.units * (p.entry - p.stop) <= RiskBudget + p.units * (p.entry - q.last)
  <2>1. a.units * (q.last - StopUnder(q.last, a.risk)) <= RiskBudget
    BY <1>1 DEF ApprovalSound
  <2>2. p.units = n /\ p.entry = fill /\ p.stop = stop  BY <1>9
  <2>3. \/ n * (fill - stop) <= RiskBudget
        \/ /\ fill \in {q.bid, q.ask} /\ stop <= Bigger(1, fill - q.last)
           /\ n * (fill - stop) <= RiskBudget + n * (fill - q.last)
    BY <1>3, <1>4, <1>7, <2>1, TrackedRisk DEF stop
  <2>. QED  BY <2>2, <2>3
<1>17. RiskWithinBudget'
  <2>1. ASSUME NEW i \in DOMAIN managed'
        PROVE  LET x == managed'[i] IN
               \/ x.units * (x.entry - x.stop) <= RiskBudget
               \/ \E r \in MarketQuotes :
                    /\ x.entry \in {r.bid, r.ask} /\ x.stop <= Bigger(1, x.entry - r.last)
                    /\ x.units * (x.entry - x.stop) <= RiskBudget + x.units * (x.entry - r.last)
    <3>1. CASE managed'[i] = p  BY <1>4, <1>16, <3>1
    <3>2. CASE i \in DOMAIN managed /\ managed'[i] = managed[i]
      BY <1>1, <3>2 DEF RiskWithinBudget
    <3>. QED  BY <1>12, <3>1, <3>2
  <2>. QED  BY <2>1 DEF RiskWithinBudget
<1>. QED  BY <1>6, <1>15, <1>17 DEF EntryInv

\* An exit takes one position from those that are managed.
LEMMA ExitManagedPreserves ==
    ASSUME EntryInv, NEW i \in DOMAIN managed, ExitManaged(i)
    PROVE  EntryInv'
<1>1. EntryTypeOK /\ RiskWithinBudget  BY DEF EntryInv
<1>2. managed \in Seq(PositionRecords)  BY <1>1 DEF EntryTypeOK, PositionRecords
<1>3. managed' = RemoveAt(managed, i) /\ i \in 1..Len(managed)  BY <1>2 DEF ExitManaged
<1>4. /\ managed' \in Seq(PositionRecords) /\ Len(managed') = Len(managed) - 1
      /\ \A j \in 1..(Len(managed) - 1) :
           managed'[j] = IF j < i THEN managed[j] ELSE managed[j + 1]
  BY <1>2, <1>3, RemoveAtProperties
<1>5. \A j \in DOMAIN managed' : \E k \in DOMAIN managed : managed'[j] = managed[k]
  <2>1. DOMAIN managed = 1..Len(managed) /\ Len(managed) \in Nat
        /\ DOMAIN managed' = 1..(Len(managed) - 1)
    BY <1>2, <1>4
  <2>2. ASSUME NEW j \in 1..(Len(managed) - 1)
        PROVE  \E k \in 1..Len(managed) : managed'[j] = managed[k]
    <3>1. j \in 1..Len(managed) /\ j + 1 \in 1..Len(managed)  BY <2>1
    <3>2. CASE j < i  BY <1>4, <3>1, <3>2
    <3>3. CASE ~(j < i)  BY <1>4, <3>1, <3>3
    <3>. QED  BY <3>2, <3>3
  <2>. QED  BY <2>1, <2>2
<1>6. managed[i] \in PositionRecords  BY <1>2
<1>7. net' \in [Contracts -> Int]
  <2>1. PICK c \in Contracts, u \in Nat : c = managed[i].contract /\ u = managed[i].units
    BY <1>6 DEF PositionRecords
  <2>2. net[c] \in Int  BY <1>1 DEF EntryTypeOK
  <2>3. net[c] - u \in Int  BY <2>2
  <2>4. net' = [net EXCEPT ![c] = @ - u]  BY <2>1 DEF ExitManaged
  <2>. QED  BY <1>1, <2>3, <2>4 DEF EntryTypeOK
<1>8. Len(managed') <= MaxTracked
  <2>1. Len(managed) \in Nat /\ Len(managed) <= MaxTracked  BY <1>1, <1>2 DEF EntryTypeOK
  <2>. QED  BY <1>4, <2>1, PipelineAssumption
<1>9. approval' = NoApproval /\ UNCHANGED <<market, agenda, unknown, allowed>>
  BY DEF ExitManaged, Between
<1>10. EntryTypeOK'  BY <1>1, <1>4, <1>7, <1>8, <1>9 DEF EntryTypeOK, PositionRecords
<1>11. RiskWithinBudget'  BY <1>1, <1>5 DEF RiskWithinBudget
<1>. QED  BY <1>9, <1>10, <1>11 DEF EntryInv

\* An entry goes to a contract without exits that work, or crosses them.
LEMMA EntryStep == EntryInv /\ [EntryNext]_entryVars => EntryInv'
<1>. SUFFICES ASSUME EntryInv, [EntryNext]_entryVars PROVE EntryInv'  OBVIOUS
<1>1. CASE \E ranked \in Rankings : BeginCycle(ranked)  BY <1>1, BeginCyclePreserves
<1>2. CASE \E c \in Contracts : MarketMoves(c)  BY <1>2, MarketMovesPreserves
<1>3. CASE \E c \in Contracts : UnknownFills(c)  BY <1>3, UnknownFillsPreserves
<1>4. CASE Evaluate  BY <1>4, EvaluatePreserves
<1>5. CASE PassOver \/ NoFill \/ FillUnknown  BY <1>5, NextOnePreserves
<1>6. CASE Fill  BY <1>6, FillPreserves
<1>7. CASE \E i \in DOMAIN managed : ExitManaged(i)  BY <1>7, ExitManagedPreserves
<1>8. CASE UNCHANGED entryVars
  BY <1>8 DEF EntryInv, EntryTypeOK, RiskWithinBudget, ApprovalSound, LastOf, entryVars
<1>. QED  BY <1>1, <1>2, <1>3, <1>4, <1>5, <1>6, <1>7, <1>8 DEF EntryNext

\* However the market moves between the approval and the fill, a position is managed with a
\* stop that risks no more than the budget of a trade: for every set of contracts, quotes,
\* opportunities and limits.
THEOREM EntryRiskBudgeted == EntrySpec => [](EntryTypeOK /\ RiskWithinBudget)
<1>1. EntryInv => EntryTypeOK /\ RiskWithinBudget  BY DEF EntryInv
<1>. QED  BY <1>1, EntryInitially, EntryStep, PTL DEF EntrySpec

\* What a step that fills an order leaves of the account.
InsideLimits ==
    LET u    == UnderlyingOf[approval.contract]
        E(S) == Exposure(net', LastOf(market), S)
    IN /\ E({approval.contract}) <= MaxPerInstrument
       /\ E(OfUnderlying(u)) <= MaxPerUnderlying
       /\ E(CorrelatedWith(u)) <= MaxCorrelated
       /\ E(OfGroup(GroupOf[u])) <= MaxPerSector
       /\ E(Contracts) <= Deployable

\* A fill on the positions its approval saw keeps every limit of the portfolio.
LEMMA FillInsideLimits ==
    ASSUME EntryInv, Fill, approval.seen = net
    PROVE  InsideLimits
<1>. DEFINE a == approval
            last == LastOf(market)
            u == UnderlyingOf[a.contract]
<1>1. EntryTypeOK /\ a # NoApproval /\ ApprovalSound(a)  BY DEF EntryInv, Fill
<1>2. a \in ApprovalRecords  BY <1>1 DEF EntryTypeOK, ApprovalRecords
<1>3. PICK c \in Contracts, s \in {1, -1}, m \in Nat \ {0}, price \in Nat :
           c = a.contract /\ s = a.side /\ m = a.units /\ price = a.price
  BY <1>2 DEF ApprovalRecords
<1>4. /\ last \in [Contracts -> Nat] /\ last[c] = price
  BY <1>1, <1>3, QuoteOfContract DEF ApprovalSound
<1>5. PICK n \in 1..m : net' = [net EXCEPT ![c] = @ + s * n]
  BY <1>3 DEF Fill
<1>6. net \in [Contracts -> Int]  BY <1>1 DEF EntryTypeOK
<1>7. n \in Nat /\ n <= m  OBVIOUS
<1>8. n * price <= m * price /\ n * price \in Int /\ m * price \in Int
  <2>1. PICK k \in Nat : m = n + k
    <3>1. m - n \in Nat /\ m = n + (m - n)  BY <1>7
    <3>. QED  BY <3>1
  <2>2. m * price = n * price + k * price  BY <1>7, <2>1
  <2>3. k * price >= 0 /\ n * price \in Int /\ m * price \in Int /\ k * price \in Int  BY <1>7
  <2>. QED  BY <2>2, <2>3
<1>9. ASSUME NEW S \in SUBSET Contracts, c \in S, NEW limit \in Int,
             Exposure(net, last, S) + m * price <= limit
      PROVE  Exposure(net', last, S) <= limit
  <2>1. Exposure(net', last, S) <= Exposure(net, last, S) + n * last[c]
    BY <1>4, <1>5, <1>6, <1>7, <1>9, ExposureGrows
  <2>2. net' \in [Contracts -> Int]
    <3>1. net[c] + s * n \in Int  BY <1>6, <1>7
    <3>. QED  BY <1>5, <1>6, <3>1
  <2>3. Exposure(net', last, S) \in Int /\ Exposure(net, last, S) \in Int
    BY <1>4, <1>6, <2>2, ExposureIsSum
  <2>. HIDE DEF last
  <2>4. Exposure(net', last, S) <= Exposure(net, last, S) + n * price
    BY <1>4, <2>1
  <2>. QED  BY <1>8, <1>9, <2>3, <2>4
<1>10. Abs(s * m) * price = m * price
  <2>1. Abs(s * m) = m  BY DEF Abs
  <2>. QED  BY <2>1
<1>11. /\ {MaxPerInstrument, MaxPerUnderlying, MaxCorrelated, MaxPerSector, Deployable} \subseteq Int
  BY ChecksAssumption DEF RiskConfig
<1>12. /\ Exposure(net, last, {c}) + m * price <= MaxPerInstrument
       /\ Exposure(net, last, OfUnderlying(u)) + m * price <= MaxPerUnderlying
       /\ Exposure(net, last, CorrelatedWith(u)) + m * price <= MaxCorrelated
       /\ Exposure(net, last, OfGroup(GroupOf[u])) + m * price <= MaxPerSector
       /\ m * price <= Deployable - Exposure(net, last, Contracts)
  BY <1>1, <1>3, <1>10 DEF ApprovalSound, WithinLimits
<1>13. Exposure(net, last, Contracts) + m * price <= Deployable
  <2>1. Exposure(net, last, Contracts) \in Int  BY <1>4, <1>6, ExposureIsSum
  <2>. HIDE DEF last
  <2>. QED  BY <1>8, <1>11, <1>12, <2>1
<1>14. /\ c \in OfUnderlying(u) /\ OfUnderlying(u) \subseteq Contracts
       /\ c \in OfGroup(GroupOf[u]) /\ OfGroup(GroupOf[u]) \subseteq Contracts
       /\ c \in CorrelatedWith(u) /\ CorrelatedWith(u) \subseteq Contracts
  BY <1>3 DEF OfUnderlying, OfGroup, CorrelatedWith
<1>15. /\ Exposure(net', last, {c}) <= MaxPerInstrument
       /\ Exposure(net', last, OfUnderlying(u)) <= MaxPerUnderlying
       /\ Exposure(net', last, CorrelatedWith(u)) <= MaxCorrelated
       /\ Exposure(net', last, OfGroup(GroupOf[u])) <= MaxPerSector
       /\ Exposure(net', last, Contracts) <= Deployable
  <2>. HIDE DEF last, u
  <2>1. Exposure(net', last, {c}) <= MaxPerInstrument  BY <1>9, <1>11, <1>12
  <2>2. Exposure(net', last, OfUnderlying(u)) <= MaxPerUnderlying  BY <1>9, <1>11, <1>12, <1>14
  <2>3. Exposure(net', last, CorrelatedWith(u)) <= MaxCorrelated  BY <1>9, <1>11, <1>12, <1>14
  <2>4. Exposure(net', last, OfGroup(GroupOf[u])) <= MaxPerSector  BY <1>9, <1>11, <1>12, <1>14
  <2>5. Exposure(net', last, Contracts) <= Deployable  BY <1>9, <1>11, <1>13
  <2>. QED  BY <2>1, <2>2, <2>3, <2>4, <2>5
<1>. QED  BY <1>3, <1>15 DEF InsideLimits

\* While nothing is unknown, only the fill of an approval changes what is held.
LEMMA OnlyFillsChange ==
    ASSUME EntryInv, [EntryNext]_entryVars, approval # NoApproval, net' # net,
           \A c \in Contracts : unknown[c] = 0
    PROVE  Fill
<1>1. net' # net  OBVIOUS
<1>2. ~ \E ranked \in Rankings : BeginCycle(ranked)  BY DEF BeginCycle, Between
<1>3. ~ \E c \in Contracts : MarketMoves(c) \/ UnknownFills(c)
  BY DEF MarketMoves, UnknownFills, Between
<1>4. ~ (Evaluate \/ PassOver \/ NoFill \/ FillUnknown)
  BY DEF Evaluate, PassOver, NoFill, FillUnknown
<1>5. ~ \E i \in DOMAIN managed : ExitManaged(i)  BY DEF ExitManaged, Between
<1>6. ~ UNCHANGED entryVars  BY DEF entryVars
<1>. QED  BY <1>2, <1>3, <1>4, <1>5, <1>6 DEF EntryNext

\* An entry that was approved on what is held leaves the portfolio inside its limits.
THEOREM EntriesKeepLimits == EntrySpec => EntriesWithinLimits
<1>1. EntryInv /\ [EntryNext]_entryVars =>
        [(approval # NoApproval /\ approval.seen = net /\ net' # net
            /\ \A c \in Contracts : unknown[c] = 0) => InsideLimits]_entryVars
  BY OnlyFillsChange, FillInsideLimits
<1>2. EntrySpec => [][(approval # NoApproval /\ approval.seen = net /\ net' # net
            /\ \A c \in Contracts : unknown[c] = 0) => InsideLimits]_entryVars
  BY <1>1, EntryInitially, EntryStep, PTL DEF EntrySpec
<1>. QED  BY <1>2 DEF EntriesWithinLimits, InsideLimits

-----------------------------------------------------------------------------
(* The ensemble *)

\* The verdict is the one the evidence of the moment gives, or nothing is decided yet.
VerdictIsCurrent ==
    verdict # NoTrade => verdict = Evaluated(opinions, serving, reading, distribution)

\* Every step decides anew, on the evidence it leaves.
LEMMA VerdictStep == VerdictIsCurrent /\ [EnsembleNext]_ensembleVars => VerdictIsCurrent'
<1>1. SUFFICES ASSUME VerdictIsCurrent, [EnsembleNext]_ensembleVars PROVE VerdictIsCurrent'
  OBVIOUS
<1>2. CASE UNCHANGED ensembleVars
  BY <1>1, <1>2 DEF ensembleVars, evidence, VerdictIsCurrent
<1>3. CASE EnsembleNext
  <2>1. verdict' = Evaluated(opinions', serving', reading', distribution')
    BY <1>3 DEF EnsembleNext, OpinionChanges, ServingChanges, ReadingChanges,
                DistributionChanges
  <2>. QED  BY <2>1 DEF VerdictIsCurrent
<1>. QED  BY <1>1, <1>2, <1>3

\* Without a report the gates of the analysis are open, and the others do not see it.
LEMMA GatesWithoutReport ==
    ASSUME NEW said, NEW prediction, NEW report, NEW state, NEW d,
           Passes(said, prediction, report, state, d)
    PROVE  Passes(said, prediction, NoReading, state, d)
<1>1. AnalysisAllows(NoReading, d)  BY DEF AnalysisAllows
<1>. QED  BY <1>1 DEF Passes, EnoughEvidence

Bare(r) == [r EXCEPT !.score = 0, !.actionable = FALSE]

\* What is left of a result but for score and rank.
LEMMA BareResult ==
    ASSUME NEW a, NEW b, NEW c, NEW score, NEW act
    PROVE  Bare([direction |-> a, stop |-> b, confidence |-> c, score |-> score,
                 actionable |-> act])
             = [direction |-> a, stop |-> b, confidence |-> c, score |-> 0, actionable |-> FALSE]
<1>. DEFINE r == [direction |-> a, stop |-> b, confidence |-> c, score |-> score,
                  actionable |-> act]
<1>1. ASSUME NEW zero, NEW no
      PROVE  [r EXCEPT !.score = zero, !.actionable = no]
               = [direction |-> a, stop |-> b, confidence |-> c, score |-> zero, actionable |-> no]
  <2>. DEFINE first == [r EXCEPT !.score = zero]
  <2>1. first = [direction |-> a, stop |-> b, confidence |-> c, score |-> zero,
                 actionable |-> act]
    OBVIOUS
  <2>. HIDE DEF r
  <2>2. [r EXCEPT !.score = zero, !.actionable = no] = [first EXCEPT !.actionable = no]
    OBVIOUS
  <2>. HIDE DEF first
  <2>. QED  BY <2>1, <2>2
<1>. QED  BY <1>1 DEF Bare

\* A result with and without a report: direction, stop and confidence are the same.
LEMMA ResultWithoutReport ==
    ASSUME NEW said, NEW prediction, NEW report, NEW state, NEW d
    PROVE  Bare(Scored(Result(said, prediction, NoReading, state, d), prediction, NoReading, state))
             = Bare(Scored(Result(said, prediction, report, state, d), prediction, report, state))
<1>. DEFINE plain == [direction |-> d, stop |-> TightestStop(Side(said, d), d),
                      confidence |-> Confidence(said, d, prediction, state),
                      score |-> 0, actionable |-> FALSE]
<1>1. ASSUME NEW any
      PROVE  Bare(Scored(Result(said, prediction, any, state, d), prediction, any, state))
               = plain
  <2>. DEFINE r == Result(said, prediction, any, state, d)
  <2>1. PICK score : r = [direction |-> d, stop |-> TightestStop(Side(said, d), d),
                          confidence |-> Confidence(said, d, prediction, state),
                          score |-> score, actionable |-> FALSE]
    BY DEF Result
  <2>. HIDE DEF r
  <2>2. PICK act : Scored(r, prediction, any, state) = [r EXCEPT !.actionable = act]
    BY DEF Scored
  <2>3. Scored(r, prediction, any, state)
          = [direction |-> d, stop |-> TightestStop(Side(said, d), d),
             confidence |-> Confidence(said, d, prediction, state),
             score |-> score, actionable |-> act]
    BY <2>1, <2>2
  <2>4. Bare([direction |-> d, stop |-> TightestStop(Side(said, d), d),
              confidence |-> Confidence(said, d, prediction, state),
              score |-> score, actionable |-> act]) = plain
    BY BareResult
  <2>5. Bare(Scored(r, prediction, any, state)) = plain
    BY <2>3, <2>4
  <2>. QED  BY <2>5 DEF r
<1>2. /\ Bare(Scored(Result(said, prediction, report, state, d), prediction, report, state)) = plain
      /\ Bare(Scored(Result(said, prediction, NoReading, state, d), prediction, NoReading, state))
           = plain
  BY <1>1
<1>. QED  BY <1>2

\* A result is no refusal.
LEMMA ResultIsTrade ==
    ASSUME NEW said, NEW prediction, NEW report, NEW state, NEW d, d # 0
    PROVE  Scored(Result(said, prediction, report, state, d), prediction, report, state) # NoTrade
<1>1. Scored(Result(said, prediction, report, state, d), prediction, report, state).direction = d
  BY DEF Scored, Result
<1>2. NoTrade.direction = 0  BY DEF NoTrade
<1>. QED  BY <1>1, <1>2

\* The analysis cannot manufacture a trade.
THEOREM AnalysisRestricts == EnsembleSpec => []AnalysisOnlyRestricts
<1>1. EnsembleInit => VerdictIsCurrent  BY DEF EnsembleInit, VerdictIsCurrent
<1>2. VerdictIsCurrent => AnalysisOnlyRestricts
  <2>1. SUFFICES ASSUME VerdictIsCurrent, verdict # NoTrade
                 PROVE  LET without == Evaluated(opinions, serving, NoReading, distribution) IN
                        /\ without # NoTrade
                        /\ [without EXCEPT !.score = 0, !.actionable = FALSE]
                             = [verdict EXCEPT !.score = 0, !.actionable = FALSE]
    BY DEF AnalysisOnlyRestricts
  <2>. DEFINE state == Finalized(distribution)
              said == Weighted(opinions, state)
              prediction == Predicted(serving, state)
              report == IF reading = NoReading THEN NoReading ELSE Report(reading)
              d == Favoured(said)
              of(any) == Scored(Result(said, prediction, any, state, d), prediction, any, state)
  <2>2. verdict = Combine(said, prediction, report, state)
    BY <2>1 DEF VerdictIsCurrent, Evaluated
  <2>3. Evaluated(opinions, serving, NoReading, distribution)
          = Combine(said, prediction, NoReading, state)
    BY DEF Evaluated
  <2>4. d # 0  BY DEF Favoured, Long, Short
  <2>. HIDE DEF state, said, prediction, report
  <2>5. Passes(said, prediction, report, state, d) /\ verdict = of(report)
    BY <2>1, <2>2 DEF Combine
  <2>6. Combine(said, prediction, NoReading, state) = of(NoReading)
    BY <2>5, GatesWithoutReport DEF Combine
  <2>. HIDE DEF d
  <2>7. of(NoReading) # NoTrade  BY <2>4, ResultIsTrade
  <2>8. Bare(of(NoReading)) = Bare(of(report))  BY ResultWithoutReport
  <2>. HIDE DEF of
  <2>9. Evaluated(opinions, serving, NoReading, distribution) = of(NoReading)  BY <2>3, <2>6
  <2>. QED  BY <2>5, <2>7, <2>8, <2>9 DEF Bare
<1>. QED  BY <1>1, <1>2, VerdictStep, PTL DEF EnsembleSpec

-----------------------------------------------------------------------------
(* What the ensemble makes of its evidence *)

\* A share of a number and what is cut off at a bound.
LEMMA Shares ==
    /\ \A n, share \in Int : Pct(n, share) \in Int
    /\ \A n, share \in Nat : Pct(n, share) \in Nat
    /\ \A n \in Int, top \in Nat : Between0And(n, top) \in 0..top
    /\ \A n \in Int : Clipped(n) \in 0..10000
    /\ \A n \in Nat, top \in Nat : AtMost(n, top) \in 0..top
    /\ \A n \in Int : Size(n) \in Nat
<1>1. \A n, share \in Int : Pct(n, share) \in Int
  <2>1. SUFFICES ASSUME NEW n \in Int, NEW share \in Int PROVE Pct(n, share) \in Int  OBVIOUS
  <2>2. PICK m \in Int : m = n * share  OBVIOUS
  <2>. QED  BY <2>2 DEF Pct
<1>2. \A n, share \in Nat : Pct(n, share) \in Nat
  <2>1. SUFFICES ASSUME NEW n \in Nat, NEW share \in Nat PROVE Pct(n, share) \in Nat  OBVIOUS
  <2>2. PICK m \in Nat : m = n * share
    <3>1. n * share \in Nat  OBVIOUS
    <3>. QED  BY <3>1
  <2>. QED  BY <2>2 DEF Pct
<1>3. \A n \in Int, top \in Nat : Between0And(n, top) \in 0..top  BY DEF Between0And, AtMost
<1>4. \A n \in Int : Clipped(n) \in 0..10000
  BY DEF Clipped, Between0And, AtMost
<1>5. \A n \in Nat, top \in Nat : AtMost(n, top) \in 0..top  BY DEF AtMost
<1>6. \A n \in Int : Size(n) \in Nat  BY DEF Size
<1>. QED  BY <1>1, <1>2, <1>3, <1>4, <1>5, <1>6

\* What is known of a regime: how sure it is, and how likely each one is.
RegimeState(state) ==
    LET p == state.probabilities IN
    /\ state.confidence \in 0..100
    /\ DOMAIN p \subseteq Regimes \union {Uncertain}
    /\ \A r \in DOMAIN p : p[r] \in 0..100

\* Every distribution has a likeliest regime.
LEMMA SomeRegimeDominates ==
    ASSUME NEW p \in [Regimes -> 0..100]
    PROVE  \E r \in Regimes : \A other \in Regimes : p[r] >= p[other]
<1>. DEFINE V == {p[r] : r \in Regimes}
<1>1. IsFiniteSet(Regimes) /\ Regimes # {}  BY EvidenceAssumption
<1>2. IsFiniteSet(V)  BY <1>1, ValuesAreFinite
<1>3. V \subseteq Int /\ V # {}  BY <1>1
<1>4. PICK m \in V : \A x \in V : x <= m  BY <1>2, <1>3, FiniteExtremes
<1>5. PICK r \in Regimes : m = p[r]  BY <1>4
<1>6. \A other \in Regimes : p[other] <= p[r] /\ p[other] \in Int /\ p[r] \in Int  BY <1>4, <1>5
<1>. QED  BY <1>6

\* What the distribution is made of is one, also when UNCERTAIN joins it.
LEMMA FinalizedIsState ==
    ASSUME NEW likely \in Distribution
    PROVE  RegimeState(Finalized(likely))
<1>. DEFINE p == likely.probabilities
            dominant == CHOOSE r \in DOMAIN p : \A other \in DOMAIN p : p[r] >= p[other]
            total == 200 - p[dominant]
            share == (100 * (100 - p[dominant])) \div total
            mixed == [r \in DOMAIN p \union {Uncertain} |->
                        IF r = Uncertain THEN share ELSE (100 * p[r]) \div total]
<1>1. p \in [Regimes -> 0..100] /\ DOMAIN p = Regimes  BY DEF Distribution
<1>2. dominant \in Regimes  BY <1>1, SomeRegimeDominates
<1>3. PICK best \in 0..100 : best = p[dominant]  BY <1>1, <1>2
<1>4. share \in 0..100
  <2>1. PICK t \in 100..200 : t = 200 - best  OBVIOUS
  <2>2. 100 * (100 - best) <= 100 * t /\ 0 <= 100 * (100 - best)  BY <2>1
  <2>3. (100 * (100 - best)) \div t \in 0..100  BY <2>1, <2>2
  <2>. QED  BY <1>3, <2>1, <2>3
<1>5. ASSUME NEW r \in Regimes PROVE (100 * p[r]) \div total \in 0..100
  <2>1. PICK t \in 100..200 : t = 200 - best  OBVIOUS
  <2>2. PICK n \in 0..100 : n = p[r]  BY <1>1
  <2>3. 100 * n <= 100 * t /\ 0 <= 100 * n  BY <2>1
  <2>4. (100 * n) \div t \in 0..100  BY <2>1, <2>3
  <2>. QED  BY <1>3, <2>1, <2>2, <2>4
<1>. HIDE DEF share, total, dominant
<1>6. DOMAIN mixed = Regimes \union {Uncertain} /\ \A r \in DOMAIN mixed : mixed[r] \in 0..100
  BY <1>1, <1>4, <1>5
<1>. HIDE DEF mixed
<1>7. CASE Finalized(likely)
             = [uncertain |-> TRUE, confidence |-> share, probabilities |-> mixed]
  BY <1>4, <1>6, <1>7 DEF RegimeState
<1>8. CASE Finalized(likely)
             = [uncertain |-> FALSE, confidence |-> p[dominant], probabilities |-> p]
  <2>1. /\ Finalized(likely).confidence = p[dominant]
        /\ Finalized(likely).probabilities = p
    BY <1>8
  <2>. HIDE DEF p
  <2>. QED  BY <1>1, <1>3, <2>1 DEF RegimeState
<1>. QED  BY <1>7, <1>8 DEF Finalized, mixed, share, total, dominant

\* The fit of a strategy is a natural number.
LEMMA FitType ==
    ASSUME NEW s \in Strategies, NEW state, RegimeState(state)
    PROVE  Fit(s, state) \in Nat
<1>. DEFINE p == state.probabilities
            f == [r \in DOMAIN p |-> Pct(FitOf[s][r], p[r])]
<1>1. DOMAIN p \subseteq Regimes \union {Uncertain} /\ \A r \in DOMAIN p : p[r] \in 0..100
  BY DEF RegimeState
<1>2. IsFiniteSet(DOMAIN p)
  <2>1. IsFiniteSet(Regimes \union {Uncertain})  BY EvidenceAssumption, FS_AddElement
  <2>. QED  BY <1>1, <2>1, FS_Subset
<1>3. ASSUME NEW r \in DOMAIN p PROVE f[r] \in Nat
  <2>1. PICK a \in Nat, b \in Nat : a = FitOf[s][r] /\ b = p[r]
    BY <1>1, EvidenceAssumption
  <2>2. f[r] = Pct(a, b)  BY <2>1
  <2>3. Pct(a, b) \in Nat  BY Shares
  <2>. QED  BY <2>2, <2>3
<1>4. DOMAIN f = DOMAIN p  OBVIOUS
<1>5. Fit(s, state) = SumFunction(f)  BY DEF Fit
<1>. HIDE DEF f, p
<1>. QED  BY <1>2, <1>3, <1>4, <1>5, NaturalSum

-----------------------------------------------------------------------------
\* What strategies say, once it is weighed.
Voice == {Silent} \union [weight : Nat, direction : {Long, Short}]

\* Weighing keeps silence and directions, and looks at each opinion alone.
LEMMA WeighedVoices ==
    ASSUME NEW said \in [Strategies -> Opinions], NEW state, RegimeState(state)
    PROVE  /\ Weighted(said, state) \in [Strategies -> Voice]
           /\ \A s \in Strategies :
                Weighted(said, state)[s] # Silent =>
                    said[s] # Silent /\ Weighted(said, state)[s].direction = said[s].direction
<1>1. Weights \subseteq Nat  BY EnsembleAssumption
<1>2. ASSUME NEW s \in Strategies
      PROVE  /\ Weighted(said, state)[s] \in Voice
             /\ Weighted(said, state)[s] # Silent =>
                   said[s] # Silent /\ Weighted(said, state)[s].direction = said[s].direction
  <2>1. CASE said[s] = Silent
    BY <2>1 DEF Weighted, Voice
  <2>2. CASE said[s] # Silent
    <3>1. said[s] \in [weight : Weights, direction : {Long, Short}]  BY <2>2 DEF Opinions
    <3>2. PICK w \in Nat, d \in {Long, Short} : said[s] = [weight |-> w, direction |-> d]
      BY <1>1, <3>1
    <3>3. PICK n \in Nat : n = Pct(w, Fit(s, state))  BY FitType, Shares
    <3>4. Weighted(said, state)[s] = [weight |-> n, direction |-> d]
      <4>1. Weighted(said, state)[s] = [said[s] EXCEPT !.weight = Pct(@, Fit(s, state))]
        BY <2>2 DEF Weighted
      <4>. QED  BY <3>2, <3>3, <4>1
    <3>5. said[s].direction = d  BY <3>2
    <3>. QED  BY <2>2, <3>4, <3>5 DEF Voice
  <2>. QED  BY <2>1, <2>2
<1>3. Weighted(said, state) \in [Strategies -> Voice]
  <2>1. Weighted(said, state) = [s \in Strategies |-> Weighted(said, state)[s]]  BY DEF Weighted
  <2>. QED  BY <1>2, <2>1
<1>. QED  BY <1>2, <1>3

\* A side is made of strategies with a weight.
LEMMA SideMembers ==
    ASSUME NEW said \in [Strategies -> Voice], NEW d
    PROVE  /\ Side(said, d) \in SUBSET Strategies /\ IsFiniteSet(Side(said, d))
           /\ \A s \in Side(said, d) : said[s].weight \in Nat /\ said[s].direction = d
<1>1. Side(said, d) \in SUBSET Strategies  BY DEF Side
<1>2. IsFiniteSet(Side(said, d))  BY <1>1, EnsembleAssumption, FS_Subset
<1>3. ASSUME NEW s \in Side(said, d) PROVE said[s].weight \in Nat /\ said[s].direction = d
  <2>1. said[s] # Silent /\ said[s] \in Voice /\ said[s].direction = d  BY DEF Side
  <2>2. said[s] \in [weight : Nat, direction : {Long, Short}]  BY <2>1 DEF Voice
  <2>. QED  BY <2>1, <2>2
<1>. QED  BY <1>1, <1>2, <1>3

-----------------------------------------------------------------------------
\* Every rank of a family is reached by a weight, and more members reach it with no less.
LEMMA RankWeights ==
    ASSUME NEW a, NEW b, NEW M \in SUBSET Strategies, NEW N \in SUBSET Strategies,
           M \subseteq N,
           \A s \in N : b[s].weight \in Nat,
           \A s \in M : a[s].weight = b[s].weight,
           NEW rank \in 1..Cardinality(M)
    PROVE  /\ Max(Reach(a, M, rank)) \in Nat
           /\ Max(Reach(a, M, rank)) <= Max(Reach(b, N, rank))
<1>. DEFINE w == [s \in N |-> b[s].weight]
            Of(K) == {w[s] : s \in K}
            Reaching(K, x) == {t \in K : w[t] >= x}
            Reached(K) == {w[s] : s \in {s \in K : Cardinality(Reaching(K, w[s])) >= rank}}
<1>1. \A s \in N : w[s] \in Nat /\ w[s] = b[s].weight  OBVIOUS
<1>2. Reach(a, M, rank) = Reached(M) /\ Reach(b, N, rank) = Reached(N)
  <2>1. \A s \in M : w[s] = a[s].weight  OBVIOUS
  <2>2. ASSUME NEW s \in M
        PROVE  Reaching(M, w[s]) = {t \in M : a[t].weight >= a[s].weight}
    BY <2>1
  <2>3. ASSUME NEW s \in N
        PROVE  Reaching(N, w[s]) = {t \in N : b[t].weight >= b[s].weight}
    BY <1>1
  <2>. HIDE DEF w, Reaching
  <2>. QED  BY <1>1, <2>1, <2>2, <2>3 DEF Reach
<1>. HIDE DEF w
<1>3. IsFiniteSet(M) /\ IsFiniteSet(N) /\ Cardinality(M) \in Nat /\ Cardinality(N) \in Nat
  BY EnsembleAssumption, FS_Subset, FS_CardinalityType
<1>4. ASSUME NEW K \in SUBSET N, IsFiniteSet(K)
      PROVE  IsFiniteSet(Reached(K)) /\ Reached(K) \subseteq Nat
  <2>1. IsFiniteSet(Of(K))  BY <1>4, ValuesAreFinite
  <2>2. Reached(K) \subseteq Of(K) /\ Of(K) \subseteq Nat  BY <1>1
  <2>. HIDE DEF Reached, Of
  <2>. QED  BY <2>1, <2>2, FS_Subset
<1>5. Reached(M) # {}
  <2>1. M # {}  BY <1>3, FS_EmptySet
  <2>2. Of(M) # {} /\ Of(M) \subseteq Int /\ IsFiniteSet(Of(M))
    BY <1>1, <1>3, <2>1, ValuesAreFinite
  <2>3. PICK m \in Of(M) : \A x \in Of(M) : m <= x
    <3>. HIDE DEF Of
    <3>. QED  BY <2>2, FiniteExtremes
  <2>4. PICK s \in M : m = w[s]  BY <2>3
  <2>5. Reaching(M, w[s]) = M  BY <1>1, <2>3, <2>4
  <2>6. Cardinality(Reaching(M, w[s])) >= rank
    <3>. HIDE DEF Reaching
    <3>1. Cardinality(Reaching(M, w[s])) = Cardinality(M)  BY <2>5
    <3>. QED  BY <1>3, <3>1
  <2>. QED  BY <2>6
<1>6. Reached(M) \subseteq Reached(N)
  <2>1. ASSUME NEW s \in M, Cardinality(Reaching(M, w[s])) >= rank
        PROVE  Cardinality(Reaching(N, w[s])) >= rank
    <3>1. Reaching(N, w[s]) \in SUBSET N /\ Reaching(M, w[s]) \subseteq Reaching(N, w[s])
      OBVIOUS
    <3>2. IsFiniteSet(Reaching(N, w[s]))  BY <1>3, <3>1, FS_Subset
    <3>. HIDE DEF Reaching
    <3>3. /\ Cardinality(Reaching(M, w[s])) <= Cardinality(Reaching(N, w[s]))
          /\ IsFiniteSet(Reaching(M, w[s]))
      BY <3>1, <3>2, FS_Subset
    <3>4. /\ Cardinality(Reaching(M, w[s])) \in Nat
          /\ Cardinality(Reaching(N, w[s])) \in Nat
      BY <3>2, <3>3, FS_CardinalityType
    <3>. QED  BY <2>1, <3>3, <3>4
  <2>. HIDE DEF Reaching
  <2>. QED  BY <2>1
<1>. HIDE DEF Reached
<1>7. /\ Reached(M) \subseteq Int /\ IsFiniteSet(Reached(M)) /\ Reached(M) # {}
      /\ Reached(N) \subseteq Int /\ IsFiniteSet(Reached(N)) /\ Reached(N) # {}
  BY <1>3, <1>4, <1>5, <1>6
<1>8. Max(Reached(M)) \in Reached(M) /\ \A x \in Reached(N) : x <= Max(Reached(N))
  BY <1>7, ExtremesOf
<1>9. Reached(M) \subseteq Nat  BY <1>3, <1>4
<1>. QED  BY <1>2, <1>6, <1>8, <1>9

\* What a family contributes grows with its members and theirs weights stay.
LEMMA FamilyGrows ==
    ASSUME NEW a, NEW b, NEW M \in SUBSET Strategies, NEW N \in SUBSET Strategies,
           M \subseteq N,
           \A s \in N : b[s].weight \in Nat,
           \A s \in M : a[s].weight = b[s].weight
    PROVE  /\ FamilyScore(a, M) \in Nat /\ FamilyScore(b, N) \in Nat
           /\ FamilyScore(a, M) <= FamilyScore(b, N)
<1>. DEFINE f == [rank \in 1..Cardinality(M) |-> Max(Reach(a, M, rank)) * DiscountAt[rank]]
            g == [rank \in 1..Cardinality(N) |-> Max(Reach(b, N, rank)) * DiscountAt[rank]]
<1>1. IsFiniteSet(M) /\ IsFiniteSet(N) /\ IsFiniteSet(Strategies)
  BY EnsembleAssumption, FS_Subset
<1>2. /\ Cardinality(M) \in Nat /\ Cardinality(N) \in Nat /\ Cardinality(Strategies) \in Nat
      /\ Cardinality(M) <= Cardinality(N) /\ Cardinality(N) <= Cardinality(Strategies)
  BY <1>1, FS_Subset, FS_CardinalityType
<1>3. \A rank \in 1..Cardinality(N) : DiscountAt[rank] \in Nat
  <2>1. \A rank \in 1..Cardinality(Strategies) : DiscountAt[rank] \in 1..100
    BY EnsembleAssumption DEF EnsembleConfig
  <2>. QED  BY <1>2, <2>1
<1>4. ASSUME NEW rank \in 1..Cardinality(M)
      PROVE  f[rank] \in Nat /\ f[rank] <= g[rank] /\ g[rank] \in Nat
  <2>1. rank \in 1..Cardinality(N)  BY <1>2
  <2>2. PICK x \in Nat, y \in Nat : x = Max(Reach(a, M, rank)) /\ y = Max(Reach(b, N, rank))
                                    /\ x <= y
    <3>1. Max(Reach(a, M, rank)) \in Nat /\ Max(Reach(a, M, rank)) <= Max(Reach(b, N, rank))
      BY RankWeights
    <3>2. Max(Reach(b, N, rank)) \in Nat  BY <2>1, RankWeights
    <3>. QED  BY <3>1, <3>2
  <2>3. PICK d \in Nat : d = DiscountAt[rank]  BY <1>3, <2>1
  <2>4. PICK k \in Nat : y = x + k
    <3>1. y - x \in Nat /\ y = x + (y - x)  BY <2>2
    <3>. QED  BY <3>1
  <2>5. y * d = x * d + k * d /\ x * d \in Nat /\ k * d \in Nat  BY <2>4
  <2>. QED  BY <2>1, <2>2, <2>3, <2>5
<1>5. ASSUME NEW rank \in 1..Cardinality(N)
      PROVE  g[rank] \in Nat
  <2>1. Max(Reach(b, N, rank)) \in Nat  BY RankWeights
  <2>2. PICK x \in Nat, d \in Nat : x = Max(Reach(b, N, rank)) /\ d = DiscountAt[rank]
    BY <1>3, <2>1
  <2>3. x * d \in Nat  OBVIOUS
  <2>. QED  BY <2>2, <2>3
<1>6. /\ DOMAIN f = 1..Cardinality(M) /\ DOMAIN g = 1..Cardinality(N)
      /\ FamilyScore(a, M) = SumFunction(f) /\ FamilyScore(b, N) = SumFunction(g)
  BY DEF FamilyScore
<1>. HIDE DEF f, g
<1>7. IsFiniteSet(DOMAIN f) /\ IsFiniteSet(DOMAIN g) /\ DOMAIN f \subseteq DOMAIN g
  BY <1>2, <1>6, FS_Interval
<1>8. /\ \A x \in DOMAIN f : f[x] \in Nat /\ f[x] \in Int /\ f[x] <= g[x]
      /\ \A x \in DOMAIN g : g[x] \in Nat
  BY <1>4, <1>5, <1>6
<1>9. SumFunction(f) \in Nat /\ SumFunction(g) \in Nat  BY <1>7, <1>8, NaturalSum
<1>10. SumFunction(f) <= SumFunction(g)  BY <1>7, <1>8, FunctionSumsCompare
<1>. QED  BY <1>6, <1>9, <1>10

\* The evidence of a side grows with the strategies that take it.
LEMMA SideScoreGrows ==
    ASSUME NEW a \in [Strategies -> Voice], NEW b \in [Strategies -> Voice], NEW d,
           Side(a, d) \subseteq Side(b, d),
           \A s \in Side(a, d) : a[s].weight = b[s].weight
    PROVE  /\ SideScore(a, d) \in Nat /\ SideScore(b, d) \in Nat
           /\ SideScore(a, d) <= SideScore(b, d)
<1>. DEFINE Lone(said) == {s \in Side(said, d) : FamilyOf[s] = Alone}
            Kin(said, f) == {s \in Side(said, d) : FamilyOf[s] = f}
            Families(said) == {FamilyOf[s] : s \in Side(said, d)} \ {Alone}
            Single(said) == [s \in Lone(said) |-> 100 * said[s].weight]
            Joint(said) == [f \in Families(said) |-> FamilyScore(said, Kin(said, f))]
<1>1. /\ \A s \in Side(a, d) : a[s].weight \in Nat
      /\ \A s \in Side(b, d) : b[s].weight \in Nat
      /\ Side(a, d) \in SUBSET Strategies /\ Side(b, d) \in SUBSET Strategies
      /\ IsFiniteSet(Side(a, d)) /\ IsFiniteSet(Side(b, d))
  BY SideMembers
<1>2. /\ Lone(a) \subseteq Lone(b) /\ Families(a) \subseteq Families(b)
      /\ \A f \in Families(a) : Kin(a, f) \subseteq Kin(b, f)
  OBVIOUS
<1>3. IsFiniteSet(Lone(b)) /\ IsFiniteSet(Families(b))
  <2>1. Lone(b) \subseteq Side(b, d)  OBVIOUS
  <2>2. IsFiniteSet({FamilyOf[s] : s \in Side(b, d)})  BY <1>1, ValuesAreFinite
  <2>3. Families(b) \subseteq {FamilyOf[s] : s \in Side(b, d)}  OBVIOUS
  <2>. HIDE DEF Lone, Families
  <2>. QED  BY <1>1, <2>1, <2>2, <2>3, FS_Subset
<1>4. /\ \A s \in Lone(a) : /\ Single(a)[s] \in Int /\ Single(a)[s] \in Nat
                            /\ Single(a)[s] <= Single(b)[s]
      /\ \A s \in Lone(b) : Single(b)[s] \in Nat
  <2>1. ASSUME NEW s \in Lone(b) PROVE Single(b)[s] \in Nat /\ Single(b)[s] = 100 * b[s].weight
    BY <1>1
  <2>2. ASSUME NEW s \in Lone(a)
        PROVE  Single(a)[s] \in Nat /\ Single(a)[s] = 100 * b[s].weight
    BY <1>1
  <2>. HIDE DEF Single, Lone
  <2>3. ASSUME NEW s \in Lone(a) PROVE Single(a)[s] \in Int /\ Single(a)[s] <= Single(b)[s]
    <3>1. Single(a)[s] = Single(b)[s] /\ Single(a)[s] \in Nat  BY <1>2, <2>1, <2>2
    <3>. QED  BY <3>1
  <2>. QED  BY <2>1, <2>2, <2>3
<1>5. /\ \A f \in Families(a) : /\ Joint(a)[f] \in Int /\ Joint(a)[f] \in Nat
                                /\ Joint(a)[f] <= Joint(b)[f]
      /\ \A f \in Families(b) : Joint(b)[f] \in Nat
  <2>1. ASSUME NEW f \in Families(b)
        PROVE  Joint(b)[f] = FamilyScore(b, Kin(b, f)) /\ FamilyScore(b, Kin(b, f)) \in Nat
    <3>1. Kin(b, f) \in SUBSET Strategies /\ \A s \in Kin(b, f) : b[s].weight \in Nat
      BY <1>1
    <3>2. FamilyScore(b, Kin(b, f)) \in Nat
      <4>. HIDE DEF Kin
      <4>. QED  BY <3>1, FamilyGrows
    <3>. QED  BY <3>2
  <2>2. ASSUME NEW f \in Families(a)
        PROVE  /\ Joint(a)[f] = FamilyScore(a, Kin(a, f)) /\ FamilyScore(a, Kin(a, f)) \in Nat
               /\ FamilyScore(a, Kin(a, f)) <= FamilyScore(b, Kin(b, f))
    <3>1. /\ Kin(a, f) \in SUBSET Strategies /\ Kin(b, f) \in SUBSET Strategies
          /\ Kin(a, f) \subseteq Kin(b, f)
          /\ \A s \in Kin(b, f) : b[s].weight \in Nat
          /\ \A s \in Kin(a, f) : a[s].weight = b[s].weight
      BY <1>1, <1>2
    <3>2. FamilyScore(a, Kin(a, f)) \in Nat
          /\ FamilyScore(a, Kin(a, f)) <= FamilyScore(b, Kin(b, f))
      <4>. HIDE DEF Kin
      <4>. QED  BY <3>1, FamilyGrows
    <3>. QED  BY <3>2
  <2>. HIDE DEF Joint, Families, Kin
  <2>. QED  BY <1>2, <2>1, <2>2
<1>6. /\ DOMAIN Single(a) = Lone(a) /\ DOMAIN Single(b) = Lone(b)
      /\ DOMAIN Joint(a) = Families(a) /\ DOMAIN Joint(b) = Families(b)
      /\ SideScore(a, d) = SumFunction(Single(a)) + SumFunction(Joint(a))
      /\ SideScore(b, d) = SumFunction(Single(b)) + SumFunction(Joint(b))
  BY DEF SideScore
<1>. HIDE DEF Single, Joint, Lone, Families
<1>7. IsFiniteSet(Lone(a)) /\ IsFiniteSet(Families(a))  BY <1>2, <1>3, FS_Subset
<1>8. /\ SumFunction(Single(a)) \in Nat /\ SumFunction(Single(b)) \in Nat
      /\ SumFunction(Joint(a)) \in Nat /\ SumFunction(Joint(b)) \in Nat
  BY <1>3, <1>4, <1>5, <1>6, <1>7, NaturalSum
<1>9. SumFunction(Single(a)) <= SumFunction(Single(b))
  BY <1>2, <1>3, <1>4, <1>6, FunctionSumsCompare
<1>10. SumFunction(Joint(a)) <= SumFunction(Joint(b))
  BY <1>2, <1>3, <1>5, <1>6, FunctionSumsCompare
<1>. QED  BY <1>6, <1>8, <1>9, <1>10

\* Nobody on a side, no evidence for it.
LEMMA SilentSide ==
    ASSUME NEW said, NEW d, Side(said, d) = {}
    PROVE  SideScore(said, d) = 0
<1>1. SideScore(said, d) = SumFunction([s \in {} |-> 100 * said[s].weight])
         + SumFunction([f \in {} |-> FamilyScore(said, {s \in Side(said, d) : FamilyOf[s] = f})])
  <2>1. {s \in Side(said, d) : FamilyOf[s] = Alone} = {}  OBVIOUS
  <2>2. {FamilyOf[s] : s \in Side(said, d)} \ {Alone} = {}  OBVIOUS
  <2>. QED  BY <2>1, <2>2 DEF SideScore
<1>2. ASSUME NEW f, DOMAIN f = {} PROVE SumFunction(f) = 0
  <2>1. SumFunction(f) = SumOver(f, {})  BY <1>2, FS_EmptySet, FunctionSum
  <2>. QED  BY <2>1, SumOfNone
<1>. QED  BY <1>1, <1>2

-----------------------------------------------------------------------------
\* No forecast, or a direction with how likely and how sure it is.
Forecast(prediction) ==
    prediction # NoForecast =>
        prediction.probability \in 0..100 /\ prediction.confidence \in 0..100

\* The confidence of a forecast is a share.
LEMMA ForecastConfidenceIsShare ==
    ASSUME NEW output, output.probability \in 0..100, output.uncertainty \in Nat,
           NEW state, state.confidence \in 0..100
    PROVE  ForecastConfidence(output, state) \in 0..100
<1>. DEFINE edge == AtMost(2 * Size(output.probability - 50), 100)
            sure == Between0And(100 - 3 * output.uncertainty, 100)
<1>1. edge \in 0..100
  <2>1. PICK x \in Int : x = output.probability - 50  OBVIOUS
  <2>2. PICK n \in Nat : n = 2 * Size(x)
    <3>1. PICK m \in Nat : m = Size(x)  BY Shares
    <3>. QED  BY <3>1
  <2>3. edge = AtMost(n, 100) /\ 100 \in Nat  BY <2>1, <2>2
  <2>4. \A i \in Nat, top \in Nat : AtMost(i, top) \in 0..top  BY Shares
  <2>. HIDE DEF edge
  <2>. QED  BY <2>3, <2>4
<1>2. sure \in 0..100
  <2>1. PICK n \in Int : n = 100 - 3 * output.uncertainty  OBVIOUS
  <2>2. sure = Between0And(n, 100) /\ 100 \in Nat  BY <2>1
  <2>3. Between0And(n, 100) \in 0..100  BY DEF Between0And, AtMost
  <2>. HIDE DEF sure
  <2>. QED  BY <2>2, <2>3
<1>3. ForecastConfidence(output, state) = (45 * edge + 35 * sure + 20 * state.confidence) \div 100
  BY DEF ForecastConfidence
<1>. HIDE DEF edge, sure
<1>4. PICK e \in 0..100, u \in 0..100, c \in 0..100 :
           e = edge /\ u = sure /\ c = state.confidence
  BY <1>1, <1>2
<1>5. (45 * e + 35 * u + 20 * c) \div 100 \in 0..100  OBVIOUS
<1>. QED  BY <1>3, <1>4, <1>5

\* What the models of an underlying make of its features is a forecast or none.
LEMMA PredictedIsForecast ==
    ASSUME NEW served \in Serving, NEW state, state.confidence \in 0..100
    PROVE  Forecast(Predicted(served, state))
<1>. DEFINE loaded == {d \in {Long, Short} : served.models[d] # NoModel}
            p(d) == served.models[d].probability
            Better(d) == \A e \in loaded : p(d) > p(e) \/ (p(d) = p(e) /\ d >= e)
            better == CHOOSE d \in loaded : Better(d)
            chosen == [direction |-> better, probability |-> p(better),
                       confidence |-> ForecastConfidence(served.models[better], state)]
<1>1. \A d \in loaded : served.models[d] \in [probability : 0..100, uncertainty : Nat]
  BY DEF Serving, Model
<1>2. CASE Predicted(served, state) = NoForecast
  BY <1>2 DEF Forecast
<1>3. CASE Predicted(served, state) = chosen /\ loaded # {}
  <2>1. \E d \in loaded : Better(d)
    <3>1. \A d \in loaded : p(d) \in Int  BY <1>1
    <3>2. loaded \subseteq {1, -1}  BY DEF Long, Short
    <3>. HIDE DEF p, loaded
    <3>3. CASE loaded = {1}
      BY <3>1, <3>3
    <3>4. CASE loaded = {-1}
      BY <3>1, <3>4
    <3>5. CASE loaded = {1, -1} /\ p(1) >= p(-1)
      <4>1. Better(1)  BY <3>1, <3>5
      <4>. QED  BY <3>5, <4>1
    <3>6. CASE loaded = {1, -1} /\ ~(p(1) >= p(-1))
      <4>1. Better(-1)  BY <3>1, <3>6
      <4>. QED  BY <3>6, <4>1
    <3>. QED  BY <1>3, <3>2, <3>3, <3>4, <3>5, <3>6
  <2>2. better \in loaded
    <3>. HIDE DEF loaded, Better
    <3>. QED  BY <2>1
  <2>3. PICK model \in [probability : 0..100, uncertainty : Nat] :
             model = served.models[better]
    BY <1>1, <2>2
  <2>. HIDE DEF better
  <2>4. model.probability \in 0..100 /\ model.uncertainty \in Nat  BY <2>3
  <2>5. ForecastConfidence(model, state) \in 0..100  BY <2>4, ForecastConfidenceIsShare
  <2>6. chosen.probability \in 0..100 /\ chosen.confidence \in 0..100  BY <2>3, <2>4, <2>5
  <2>. QED  BY <1>3, <2>6 DEF Forecast
<1>. QED  BY <1>2, <1>3 DEF Predicted

-----------------------------------------------------------------------------
\* The fields of a decision.
LEMMA ResultFields ==
    ASSUME NEW said, NEW prediction, NEW report, NEW state, NEW d
    PROVE  LET r == Scored(Result(said, prediction, report, state, d), prediction, report, state)
           IN /\ r.direction = d /\ r.stop = TightestStop(Side(said, d), d)
              /\ r.confidence = Confidence(said, d, prediction, state)
BY DEF Scored, Result

\* The confidence in a direction falls when the evidence against it grows.
LEMMA ConfidenceFalls ==
    ASSUME NEW a, NEW b, NEW d, d \in {Long, Short},
           NEW prediction, Forecast(prediction),
           NEW state, state.confidence \in 0..100,
           Side(a, d) = Side(b, d), IsFiniteSet(Side(a, d)), Side(a, d) # {},
           SideScore(a, d) \in Nat, SideScore(a, -d) \in Nat, SideScore(b, -d) \in Nat,
           SideScore(a, d) = SideScore(b, d), SideScore(a, -d) <= SideScore(b, -d),
           SideScore(a, d) > 0
    PROVE  Confidence(a, d, prediction, state) >= Confidence(b, d, prediction, state)
<1>1. PICK pro \in Nat \ {0}, before \in Nat, after \in Nat :
           /\ pro = SideScore(a, d) /\ pro = SideScore(b, d)
           /\ before = SideScore(a, -d) /\ after = SideScore(b, -d) /\ before <= after
  <2>1. SideScore(a, d) \in Nat \ {0}  OBVIOUS
  <2>. QED  BY <2>1
<1>2. /\ SideScore(a, Long) + SideScore(a, Short) = pro + before
      /\ SideScore(b, Long) + SideScore(b, Short) = pro + after
  <2>1. d = 1 \/ d = -1  BY DEF Long, Short
  <2>. QED  BY <1>1, <2>1 DEF Long, Short
<1>3. PICK n \in Nat \ {0} : n = Cardinality(Side(a, d)) /\ n = Cardinality(Side(b, d))
  BY FS_CardinalityType, FS_EmptySet
<1>4. PICK c \in Int : c = StrategyComponent(a, d) /\ c = StrategyComponent(b, d)
  <2>1. StrategyComponent(a, d) = Clipped(pro \div n) /\ StrategyComponent(b, d) = Clipped(pro \div n)
    BY <1>1, <1>3 DEF StrategyComponent
  <2>2. PICK q \in Int : q = pro \div n  BY <1>1, <1>3
  <2>3. Clipped(q) \in Int  BY DEF Clipped, Between0And, AtMost
  <2>4. StrategyComponent(a, d) = Clipped(q) /\ StrategyComponent(b, d) = Clipped(q)
    BY <2>1, <2>2
  <2>. QED  BY <2>3, <2>4
<1>5. PICK regime \in Int : regime = 100 * state.confidence  OBVIOUS
<1>6. PICK breadth \in Int : breadth = AtMost(2500 * n, 10000)
  <2>1. PICK x \in Nat : x = 2500 * n  OBVIOUS
  <2>. QED  BY <2>1 DEF AtMost
<1>7. PICK m \in Int :
           m = IF prediction = NoForecast THEN 3000 ELSE 100 * prediction.confidence
  BY DEF Forecast
<1>8. (10000 * pro) \div (pro + after) <= (10000 * pro) \div (pro + before)
  <2>1. PICK q \in Int : q = (10000 * pro) \div (pro + after)  BY <1>1
  <2>2. PICK k \in Nat, x \in Nat \ {0} : after = before + k /\ x = pro + before
    <3>1. after - before \in Nat /\ after = before + (after - before)  BY <1>1
    <3>2. pro + before \in Nat \ {0}  OBVIOUS
    <3>. QED  BY <3>1, <3>2
  <2>3. PICK N \in Nat : N = 10000 * pro  OBVIOUS
  <2>4. q = N \div (x + k) /\ x + k \in Nat \ {0}  BY <2>1, <2>2, <2>3
  <2>5. q * (x + k) <= N /\ q >= 0  BY <2>4
  <2>6. q * (x + k) = q * x + q * k /\ q * k >= 0  BY <2>5
  <2>7. q * x <= N /\ q * x \in Int  BY <2>3, <2>5, <2>6
  <2>8. PICK r \in Int : r = N \div x  OBVIOUS
  <2>9. N < r * x + x  BY <2>8
  <2>10. q <= r
    <3>1. SUFFICES ASSUME r + 1 <= q PROVE FALSE  OBVIOUS
    <3>2. PICK j \in Nat : q = r + 1 + j
      <4>1. q - (r + 1) \in Nat /\ q = r + 1 + (q - (r + 1))  BY <3>1
      <4>. QED  BY <4>1
    <3>3. q * x = r * x + x + j * x /\ j * x >= 0 /\ r * x \in Int /\ j * x \in Int  BY <3>2
    <3>. QED  BY <2>3, <2>7, <2>9, <3>3
  <2>. QED  BY <2>1, <2>2, <2>3, <2>8, <2>10
<1>9. PICK lower \in Int, higher \in Int :
           /\ lower = (10000 * pro) \div (pro + after)
           /\ higher = (10000 * pro) \div (pro + before)
           /\ lower <= higher
  BY <1>1, <1>8
<1>10. Confidence(a, d, prediction, state)
         = (25 * c + 20 * higher + 20 * regime + 15 * breadth + 20 * m) \div 100
  BY <1>1, <1>2, <1>3, <1>4, <1>5, <1>6, <1>7, <1>9 DEF Confidence, Calibrated
<1>11. Confidence(b, d, prediction, state)
         = (25 * c + 20 * lower + 20 * regime + 15 * breadth + 20 * m) \div 100
  BY <1>1, <1>2, <1>3, <1>4, <1>5, <1>6, <1>7, <1>9 DEF Confidence, Calibrated
<1>12. PICK x \in Int, y \in Int :
            /\ x = 25 * c + 20 * higher + 20 * regime + 15 * breadth + 20 * m
            /\ y = 25 * c + 20 * lower + 20 * regime + 15 * breadth + 20 * m
            /\ y <= x
  BY <1>9
<1>13. y \div 100 <= x \div 100  BY <1>12
<1>. QED  BY <1>10, <1>11, <1>12, <1>13

\* A share, in ten-thousandths.
Whole == 0..10000
\* What it is to be one.
LEMMA WholeIs ==
    ASSUME NEW n
    PROVE  n \in Whole <=> n \in Int /\ 0 <= n /\ n <= 10000
<1>1. n \in 0..10000 => n \in Int /\ 0 <= n /\ n <= 10000  OBVIOUS
<1>2. n \in Int /\ 0 <= n /\ n <= 10000 => n \in 0..10000  OBVIOUS
<1>. QED  BY <1>1, <1>2 DEF Whole

\* What is clipped is one.
LEMMA ClippedIsWhole == \A n \in Int : Clipped(n) \in Whole
BY DEF Whole, Clipped, Between0And, AtMost

\* A mean of shares, weighted by parts of a hundred, is a share.
LEMMA MeanOfShares ==
    ASSUME NEW c \in Whole, NEW q \in Whole, NEW r \in Whole, NEW b \in Whole,
           NEW m \in Whole
    PROVE  (25 * c + 20 * q + 20 * r + 15 * b + 20 * m) \div 100 \in Whole
<1>0. /\ c \in Int /\ 0 <= c /\ c <= 10000 /\ q \in Int /\ 0 <= q /\ q <= 10000
      /\ r \in Int /\ 0 <= r /\ r <= 10000 /\ b \in Int /\ 0 <= b /\ b <= 10000
      /\ m \in Int /\ 0 <= m /\ m <= 10000
  BY WholeIs
<1>1. PICK x \in Int, y \in Int, z \in Int, v \in Int, w \in Int :
           /\ x = 25 * c /\ 0 <= x /\ x <= 25 * 10000
           /\ y = 20 * q /\ 0 <= y /\ y <= 20 * 10000
           /\ z = 20 * r /\ 0 <= z /\ z <= 20 * 10000
           /\ v = 15 * b /\ 0 <= v /\ v <= 15 * 10000
           /\ w = 20 * m /\ 0 <= w /\ w <= 20 * 10000
  <2>1. 25 * c \in Int /\ 0 <= 25 * c /\ 25 * c <= 25 * 10000  BY <1>0
  <2>2. 20 * q \in Int /\ 0 <= 20 * q /\ 20 * q <= 20 * 10000  BY <1>0
  <2>3. 20 * r \in Int /\ 0 <= 20 * r /\ 20 * r <= 20 * 10000  BY <1>0
  <2>4. 15 * b \in Int /\ 0 <= 15 * b /\ 15 * b <= 15 * 10000  BY <1>0
  <2>5. 20 * m \in Int /\ 0 <= 20 * m /\ 20 * m <= 20 * 10000  BY <1>0
  <2>. QED  BY <2>1, <2>2, <2>3, <2>4, <2>5
<1>2. PICK n \in Int : n = x + y + z + v + w /\ 0 <= n /\ n <= 100 * 10000
  <2>1. x + y + z + v + w \in Int /\ 0 <= x + y + z + v + w
        /\ x + y + z + v + w <= 100 * 10000
    BY <1>1
  <2>. QED  BY <2>1
<1>3. n \div 100 \in Whole
  <2>1. n \div 100 \in Int /\ 0 <= n \div 100 /\ n \div 100 <= 10000  BY <1>2
  <2>. QED  BY <2>1, WholeIs
<1>4. n = 25 * c + 20 * q + 20 * r + 15 * b + 20 * m  BY <1>1, <1>2
<1>. QED  BY <1>3, <1>4

\* The confidence in a direction with evidence is a share.
LEMMA ConfidenceType ==
    ASSUME NEW a, NEW d, d \in {Long, Short}, NEW prediction, Forecast(prediction),
           NEW state, state.confidence \in 0..100,
           IsFiniteSet(Side(a, d)), Side(a, d) # {},
           SideScore(a, d) \in Nat, SideScore(a, -d) \in Nat,
           SideScore(a, Long) + SideScore(a, Short) > 0
    PROVE  /\ Confidence(a, d, prediction, state) \in Whole
           /\ StrategyComponent(a, d) \in Whole
<1>1. PICK pro \in Nat, contra \in Nat :
           pro = SideScore(a, d) /\ contra = SideScore(a, -d)
  OBVIOUS
<1>2. SideScore(a, Long) + SideScore(a, Short) = pro + contra
  <2>1. d = 1 \/ d = -1  BY DEF Long, Short
  <2>. QED  BY <1>1, <2>1 DEF Long, Short
<1>3. PICK n \in Nat \ {0} : n = Cardinality(Side(a, d))  BY FS_CardinalityType, FS_EmptySet
<1>4. PICK c \in Whole : c = StrategyComponent(a, d)
  <2>1. PICK q \in Int : q = pro \div n  BY <1>1, <1>3
  <2>2. Clipped(q) \in Whole  BY ClippedIsWhole
  <2>3. StrategyComponent(a, d) = Clipped(q)  BY <1>1, <1>3, <2>1 DEF StrategyComponent
  <2>. QED  BY <2>2, <2>3
<1>5. PICK regime \in Whole : regime = 100 * state.confidence
  <2>1. PICK x \in 0..100 : x = state.confidence  OBVIOUS
  <2>2. 100 * x \in Whole  BY DEF Whole
  <2>. QED  BY <2>1, <2>2
<1>6. PICK breadth \in Whole : breadth = AtMost(2500 * n, 10000)
  <2>1. AtMost(2500 * n, 10000) \in Whole  BY DEF AtMost, Whole
  <2>. QED  BY <2>1
<1>7. PICK m \in Whole :
           m = IF prediction = NoForecast THEN 3000 ELSE 100 * prediction.confidence
  <2>1. CASE prediction = NoForecast
    <3>1. 3000 \in Whole  BY DEF Whole
    <3>. QED  BY <2>1, <3>1
  <2>2. CASE prediction # NoForecast
    <3>1. PICK x \in 0..100 : x = prediction.confidence  BY <2>2 DEF Forecast
    <3>2. 100 * x \in Whole  BY DEF Whole
    <3>. QED  BY <2>2, <3>1, <3>2
  <2>. QED  BY <2>1, <2>2
<1>8. PICK q \in Whole : q = (10000 * pro) \div (pro + contra)
  <2>1. PICK total \in Nat \ {0} : total = pro + contra /\ pro <= total
    <3>1. pro + contra \in Nat \ {0} /\ pro <= pro + contra  BY <1>2
    <3>. QED  BY <3>1
  <2>2. PICK q \in Int : q = (10000 * pro) \div total
    <3>1. PICK whole \in Nat : whole = 10000 * pro  OBVIOUS
    <3>. QED  BY <2>1, <3>1
  <2>3. PICK whole \in Nat : whole = 10000 * pro  OBVIOUS
  <2>4. q * total <= whole /\ q >= 0 /\ whole <= 10000 * total  BY <2>1, <2>2, <2>3
  <2>5. q <= 10000
    <3>1. SUFFICES ASSUME 10001 <= q PROVE FALSE  BY <2>2
    <3>2. PICK j \in Nat : q = 10001 + j
      <4>1. q - 10001 \in Nat /\ q = 10001 + (q - 10001)  BY <2>2, <3>1
      <4>. QED  BY <4>1
    <3>3. q * total = 10001 * total + j * total /\ j * total >= 0 /\ j * total \in Int
      BY <2>1, <3>2
    <3>. QED  BY <2>1, <2>3, <2>4, <3>3
  <2>6. q \in Whole  BY <2>4, <2>5, WholeIs
  <2>. QED  BY <2>1, <2>2, <2>6
<1>9. Confidence(a, d, prediction, state)
         = (25 * c + 20 * q + 20 * regime + 15 * breadth + 20 * m) \div 100
  BY <1>1, <1>2, <1>3, <1>4, <1>5, <1>6, <1>7, <1>8 DEF Confidence, Calibrated
<1>10. (25 * c + 20 * q + 20 * regime + 15 * breadth + 20 * m) \div 100 \in Whole
  BY MeanOfShares
<1>. QED  BY <1>4, <1>9, <1>10

\* Long and short are opposites.
LEMMA Opposite ==
    \A d \in Int : d + 1 = 0 => -d = 1
OBVIOUS

\* What a strategy that opposes a decision adds to the evidence leaves the decision
\* standing without it.
LEMMA DecisionStandsWithout ==
    ASSUME NEW a \in [Strategies -> Voice], NEW b \in [Strategies -> Voice],
           NEW prediction, Forecast(prediction), NEW report,
           NEW state, state.confidence \in 0..100,
           NEW s \in Strategies, NEW d, d = Favoured(b),
           \A t \in Strategies \ {s} : a[t] = b[t],
           a[s] = Silent, b[s] # Silent => b[s].direction = -d,
           Passes(b, prediction, report, state, d)
    PROVE  /\ d = Favoured(a) /\ Passes(a, prediction, report, state, d)
           /\ Side(a, d) = Side(b, d)
           /\ Confidence(a, d, prediction, state) >= Confidence(b, d, prediction, state)
<1>1. d = 1 \/ d = -1  BY DEF Favoured, Long, Short
<1>2. Side(a, d) = Side(b, d)
  <2>1. s \notin Side(a, d)  BY DEF Side
  <2>2. s \notin Side(b, d)  BY <1>1 DEF Side
  <2>. QED  BY <2>1, <2>2 DEF Side
<1>3. Side(a, -d) \subseteq Side(b, -d) /\ \A t \in Side(a, -d) : a[t].weight = b[t].weight
  <2>1. s \notin Side(a, -d)  BY DEF Side
  <2>. QED  BY <2>1 DEF Side
<1>4. \A t \in Side(a, d) : a[t].weight = b[t].weight
  <2>1. s \notin Side(a, d)  BY DEF Side
  <2>. QED  BY <2>1 DEF Side
<1>5. /\ SideScore(a, d) \in Nat /\ SideScore(b, d) \in Nat
      /\ SideScore(a, d) <= SideScore(b, d) /\ SideScore(b, d) <= SideScore(a, d)
  BY <1>2, <1>4, SideScoreGrows
<1>6. /\ SideScore(a, -d) \in Nat /\ SideScore(b, -d) \in Nat
      /\ SideScore(a, -d) <= SideScore(b, -d)
  BY <1>3, SideScoreGrows
<1>7. PICK pro \in Nat, before \in Nat, after \in Nat :
           /\ pro = SideScore(a, d) /\ pro = SideScore(b, d)
           /\ before = SideScore(a, -d) /\ after = SideScore(b, -d) /\ before <= after
  BY <1>5, <1>6
<1>8. /\ SideScore(a, Long) + SideScore(a, Short) = pro + before
      /\ SideScore(b, Long) + SideScore(b, Short) = pro + after
  <2>1. CASE d = 1
    <3>1. -d = -1  BY <2>1
    <3>. QED  BY <1>7, <2>1, <3>1 DEF Long, Short
  <2>2. CASE d = -1
    <3>1. -d = 1
      <4>1. d \in Int /\ d + 1 = 0  BY <2>2
      <4>. QED  BY <4>1, Opposite, Zenon
    <3>. QED  BY <1>7, <2>2, <3>1 DEF Long, Short
  <2>. QED  BY <1>1, <2>1, <2>2
<1>9. IF d = 1 THEN pro >= after ELSE pro > after
  <2>1. CASE d = 1
    <3>1. SideScore(b, 1) >= SideScore(b, -1)  BY <2>1 DEF Favoured, Long, Short
    <3>. QED  BY <1>1, <1>7, <2>1, <3>1
  <2>2. CASE d = -1
    <3>1. ~(SideScore(b, 1) >= SideScore(b, -1))  BY <2>2 DEF Favoured, Long, Short
    <3>2. SideScore(b, 1) = after /\ SideScore(b, -1) = pro  BY <1>1, <1>7, <2>2
    <3>. QED  BY <2>2, <3>1, <3>2
  <2>. QED  BY <1>1, <2>1, <2>2
<1>10. d = Favoured(a)
  <2>1. CASE d = 1
    <3>1. SideScore(a, 1) = pro /\ SideScore(a, -1) = before  BY <1>1, <1>7, <2>1
    <3>2. SideScore(a, 1) >= SideScore(a, -1)  BY <1>7, <1>9, <2>1, <3>1
    <3>. QED  BY <2>1, <3>2 DEF Favoured, Long, Short
  <2>2. CASE d = -1
    <3>0. -d = 1
      <4>1. d \in Int /\ d + 1 = 0  BY <2>2
      <4>. QED  BY <4>1, Opposite, Zenon
    <3>1. SideScore(a, 1) = before /\ SideScore(a, -1) = pro  BY <1>7, <2>2, <3>0
    <3>2. ~(SideScore(a, 1) >= SideScore(a, -1))  BY <1>7, <1>9, <2>2, <3>1
    <3>. QED  BY <2>2, <3>2 DEF Favoured, Long, Short
  <2>. QED  BY <1>1, <2>1, <2>2
<1>11. /\ ~state.uncertain /\ pro + after > 0 /\ 100 * pro >= MinAgreement * (pro + after)
       /\ Cardinality(Side(b, d)) >= MinAgreeing
       /\ prediction # NoForecast =>
            prediction.direction = d /\ prediction.probability >= MinProbability
       /\ AnalysisAllows(report, d)
       /\ Confidence(b, d, prediction, state) >= 100 * MinConfidence
  BY <1>7, <1>8 DEF Passes, EnoughEvidence
<1>12. pro > 0  BY <1>7, <1>9, <1>11
<1>13. MinAgreement \in Nat /\ MinAgreeing \in Nat \ {0} /\ MinConfidence \in Nat
  BY EnsembleAssumption DEF EnsembleConfig
<1>14. IsFiniteSet(Side(a, d)) /\ Side(a, d) # {}
  <2>1. IsFiniteSet(Side(a, d))  BY SideMembers
  <2>2. Cardinality(Side(a, d)) >= MinAgreeing  BY <1>2, <1>11
  <2>3. Cardinality({}) = 0  BY FS_EmptySet
  <2>. QED  BY <1>13, <2>1, <2>2, <2>3
<1>15. Confidence(a, d, prediction, state) >= Confidence(b, d, prediction, state)
  <2>1. d \in {Long, Short}  BY <1>1 DEF Long, Short
  <2>. QED  BY <1>2, <1>5, <1>6, <1>7, <1>12, <1>14, <2>1, ConfidenceFalls
<1>16. 100 * pro >= MinAgreement * (pro + before) /\ pro + before > 0
  <2>1. PICK k \in Nat : after = before + k
    <3>1. after - before \in Nat /\ after = before + (after - before)  BY <1>7
    <3>. QED  BY <3>1
  <2>2. PICK m \in Nat : m = MinAgreement  BY <1>13
  <2>3. m * (pro + after) = m * (pro + before) + m * k /\ m * k >= 0
        /\ m * (pro + before) \in Int /\ m * k \in Int
    BY <2>1
  <2>. QED  BY <1>7, <1>11, <1>12, <2>2, <2>3
<1>17. Confidence(a, d, prediction, state) >= 100 * MinConfidence
  <2>1. d \in {Long, Short}  BY <1>1 DEF Long, Short
  <2>2. /\ SideScore(a, Long) + SideScore(a, Short) > 0
        /\ SideScore(b, Long) + SideScore(b, Short) > 0
    BY <1>7, <1>8, <1>12
  <2>3. Confidence(a, d, prediction, state) \in Whole
    BY <1>5, <1>6, <1>14, <2>1, <2>2, ConfidenceType
  <2>4. Confidence(b, d, prediction, state) \in Whole
    BY <1>2, <1>5, <1>6, <1>14, <2>1, <2>2, ConfidenceType
  <2>5. Confidence(a, d, prediction, state) \in Int /\ Confidence(b, d, prediction, state) \in Int
    BY <2>3, <2>4, WholeIs
  <2>. QED  BY <1>11, <1>13, <1>15, <2>5
<1>18. EnoughEvidence(Cardinality(Side(a, d)), a, prediction, report, state, d)
  BY <1>2, <1>7, <1>8, <1>11, <1>16, <1>17 DEF EnoughEvidence
<1>. QED  BY <1>2, <1>10, <1>15, <1>18 DEF Passes

-----------------------------------------------------------------------------
\* Weighing is one strategy at a time.
LEMMA WeighedAlone ==
    ASSUME NEW a, NEW b, NEW state, NEW t \in Strategies, a[t] = b[t]
    PROVE  Weighted(a, state)[t] = Weighted(b, state)[t]
BY DEF Weighted

\* And keeps the silence of one.
LEMMA SilentStaysSilent ==
    ASSUME NEW a, NEW state, NEW t \in Strategies, a[t] = Silent
    PROVE  Weighted(a, state)[t] = Silent
BY DEF Weighted

\* When nobody speaks there is no trade.
LEMMA SilenceDecidesNothing ==
    ASSUME NEW said, \A s \in Strategies : said[s] = Silent,
           NEW served, NEW measured, NEW likely
    PROVE  Evaluated(said, served, measured, likely) = NoTrade
<1>. DEFINE state == Finalized(likely)
            a == Weighted(said, state)
            prediction == Predicted(served, state)
            report == IF measured = NoReading THEN NoReading ELSE Report(measured)
            d == Favoured(a)
<1>1. \A s \in Strategies : a[s] = Silent  BY SilentStaysSilent
<1>2. Evaluated(said, served, measured, likely) = Combine(a, prediction, report, state)
  BY DEF Evaluated
<1>. HIDE DEF state, a, prediction, report
<1>3. \A e : Side(a, e) = {}  BY <1>1 DEF Side
<1>4. SideScore(a, Long) = 0 /\ SideScore(a, Short) = 0
  <2>1. Side(a, Long) = {} /\ Side(a, Short) = {}  BY <1>3
  <2>. QED  BY <2>1, SilentSide
<1>5. ~(SideScore(a, Long) + SideScore(a, Short) > 0)  BY <1>4
<1>6. ~Passes(a, prediction, report, state, d)
  <2>. HIDE DEF d
  <2>. QED  BY <1>5 DEF Passes, EnoughEvidence
<1>. QED  BY <1>2, <1>6 DEF Combine

\* What a silent strategy adds against a decision: the decision stood without it.
LEMMA DissentHinders ==
    ASSUME NEW before \in [Strategies -> Opinions], NEW after \in [Strategies -> Opinions],
           NEW s \in Strategies, \A t \in Strategies \ {s} : before[t] = after[t],
           NEW served \in Serving, NEW measured, NEW likely \in Distribution,
           NEW was, was = Evaluated(before, served, measured, likely),
           NEW now, now = Evaluated(after, served, measured, likely),
           now # NoTrade, before[s] = Silent, after[s].direction = -now.direction
    PROVE  /\ was.direction = now.direction /\ was.stop = now.stop
           /\ was.confidence >= now.confidence
<1>. DEFINE state == Finalized(likely)
            a == Weighted(before, state)
            b == Weighted(after, state)
            prediction == Predicted(served, state)
            report == IF measured = NoReading THEN NoReading ELSE Report(measured)
            d == Favoured(b)
<1>1. was = Combine(a, prediction, report, state) /\ now = Combine(b, prediction, report, state)
  BY DEF Evaluated
<1>2. RegimeState(state)  BY FinalizedIsState
<1>3. a \in [Strategies -> Voice] /\ b \in [Strategies -> Voice]
      /\ (b[s] # Silent => b[s].direction = after[s].direction)
  <2>. HIDE DEF state
  <2>. QED  BY <1>2, WeighedVoices
<1>4. a[s] = Silent  BY SilentStaysSilent
<1>5. \A t \in Strategies \ {s} : a[t] = b[t]
  <2>1. ASSUME NEW t \in Strategies \ {s} PROVE a[t] = b[t]
    <3>1. before[t] = after[t]  OBVIOUS
    <3>. QED  BY <3>1, WeighedAlone
  <2>. QED  BY <2>1
<1>6. state.confidence \in 0..100  BY <1>2 DEF RegimeState
<1>7. Forecast(prediction)
  <2>. HIDE DEF state
  <2>. QED  BY <1>6, PredictedIsForecast
<1>. HIDE DEF state, a, b, prediction, report
<1>8. /\ Passes(b, prediction, report, state, d)
      /\ now = Scored(Result(b, prediction, report, state, d), prediction, report, state)
  BY <1>1 DEF Combine
<1>. HIDE DEF d
<1>9. now.direction = d /\ now.stop = TightestStop(Side(b, d), d)
      /\ now.confidence = Confidence(b, d, prediction, state)
  BY <1>8, ResultFields
<1>10. b[s] # Silent => b[s].direction = -d  BY <1>3, <1>9
<1>11. d = Favoured(b)  BY DEF d
<1>12. /\ d = Favoured(a) /\ Passes(a, prediction, report, state, d)
       /\ Side(a, d) = Side(b, d)
       /\ Confidence(a, d, prediction, state) >= Confidence(b, d, prediction, state)
  BY <1>3, <1>4, <1>5, <1>6, <1>7, <1>8, <1>10, <1>11, DecisionStandsWithout
<1>13. was = Scored(Result(a, prediction, report, state, d), prediction, report, state)
  BY <1>1, <1>12 DEF Combine
<1>14. was.direction = d /\ was.stop = TightestStop(Side(a, d), d)
      /\ was.confidence = Confidence(a, d, prediction, state)
  BY <1>13, ResultFields
<1>. QED  BY <1>9, <1>12, <1>14

-----------------------------------------------------------------------------
\* The evidence is what can be said, served, read and measured, and the verdict is the one
\* it gives.
EnsembleInv ==
    /\ opinions \in [Strategies -> Opinions]
    /\ serving \in Servings \union {NoServing}
    /\ reading \in Readings \union {NoReading} /\ distribution \in Distributions
    /\ verdict = Evaluated(opinions, serving, reading, distribution)

\* Before anyone speaks nothing is decided.
LEMMA EnsembleInitially == EnsembleInit => EnsembleInv
<1>1. SUFFICES ASSUME EnsembleInit PROVE EnsembleInv  OBVIOUS
<1>2. opinions \in [Strategies -> Opinions] /\ \A s \in Strategies : opinions[s] = Silent
  BY <1>1 DEF EnsembleInit, Opinions
<1>3. verdict = Evaluated(opinions, serving, reading, distribution)
  BY <1>1, <1>2, SilenceDecidesNothing DEF EnsembleInit
<1>. QED  BY <1>1, <1>2, <1>3 DEF EnsembleInit, EnsembleInv

\* A change of a piece of the evidence decides anew.
LEMMA EnsembleStep == EnsembleInv /\ [EnsembleNext]_ensembleVars => EnsembleInv'
<1>1. SUFFICES ASSUME EnsembleInv, [EnsembleNext]_ensembleVars PROVE EnsembleInv'
  OBVIOUS
<1>. USE <1>1 DEF EnsembleInv
<1>2. CASE UNCHANGED ensembleVars
  BY <1>2 DEF ensembleVars, evidence
<1>3. CASE \E s \in Strategies : OpinionChanges(s)
  BY <1>3 DEF OpinionChanges
<1>4. CASE ServingChanges
  BY <1>4 DEF ServingChanges
<1>5. CASE ReadingChanges
  BY <1>5 DEF ReadingChanges
<1>6. CASE DistributionChanges
  BY <1>6 DEF DistributionChanges
<1>. QED  BY <1>1, <1>2, <1>3, <1>4, <1>5, <1>6 DEF EnsembleNext

\* Dissent never helps the direction it opposes.
THEOREM DissentNeverHelps == EnsembleSpec => DissentOnlyHinders
<1>. DEFINE Hinders ==
              \A s \in Strategies :
                (/\ verdict' # NoTrade
                 /\ opinions[s] = Silent /\ opinions'[s] # Silent
                 /\ opinions'[s].direction = -verdict'.direction)
                => /\ verdict.direction = verdict'.direction
                   /\ verdict.confidence >= verdict'.confidence
                   /\ verdict.stop = verdict'.stop
<1>1. EnsembleInv /\ [EnsembleNext]_ensembleVars => [Hinders]_ensembleVars
  <2>1. SUFFICES ASSUME EnsembleInv, [EnsembleNext]_ensembleVars,
                        NEW s \in Strategies, verdict' # NoTrade,
                        opinions[s] = Silent, opinions'[s] # Silent,
                        opinions'[s].direction = -verdict'.direction
                 PROVE  /\ verdict.direction = verdict'.direction
                        /\ verdict.confidence >= verdict'.confidence
                        /\ verdict.stop = verdict'.stop
    OBVIOUS
  <2>2. OpinionChanges(s)
    <3>1. opinions' # opinions  BY <2>1
    <3>2. ~UNCHANGED ensembleVars  BY <3>1 DEF ensembleVars, evidence
    <3>3. PICK t \in Strategies : OpinionChanges(t)
      BY <2>1, <3>1, <3>2 DEF EnsembleNext, ServingChanges, ReadingChanges, DistributionChanges
    <3>4. t = s
      <4>1. ASSUME t # s PROVE opinions'[s] = opinions[s]
        BY <2>1, <3>3, <4>1 DEF OpinionChanges, EnsembleInv
      <4>. QED  BY <2>1, <4>1
    <3>. QED  BY <3>3, <3>4
  <2>3. /\ opinions' \in [Strategies -> Opinions]
        /\ \A t \in Strategies \ {s} : opinions[t] = opinions'[t]
        /\ verdict' = Evaluated(opinions', serving, reading, distribution)
    BY <2>1, <2>2 DEF OpinionChanges, EnsembleInv
  <2>4. serving \in Serving /\ distribution \in Distribution
    <3>1. NoServing \in Serving  BY DEF NoServing, Serving, Model
    <3>. QED  BY <2>1, <3>1, EnsembleAssumption DEF EnsembleInv
  <2>5. PICK after, now : after = opinions' /\ now = verdict'  OBVIOUS
  <2>6. /\ opinions \in [Strategies -> Opinions] /\ after \in [Strategies -> Opinions]
        /\ \A t \in Strategies \ {s} : opinions[t] = after[t]
        /\ verdict = Evaluated(opinions, serving, reading, distribution)
        /\ now = Evaluated(after, serving, reading, distribution)
        /\ now # NoTrade /\ opinions[s] = Silent /\ after[s].direction = -now.direction
    BY <2>1, <2>3, <2>5 DEF EnsembleInv
  <2>7. /\ verdict.direction = now.direction /\ verdict.stop = now.stop
        /\ verdict.confidence >= now.confidence
    BY <2>4, <2>6, DissentHinders
  <2>. QED  BY <2>5, <2>7
<1>2. EnsembleSpec => [][Hinders]_ensembleVars
  BY <1>1, EnsembleInitially, EnsembleStep, PTL DEF EnsembleSpec
<1>. QED  BY <1>2 DEF DissentOnlyHinders

-----------------------------------------------------------------------------
\* What the analysis reports is numbers.
Dimensions == [DOMAIN DimensionWeight -> [score : -100..100, confidence : 0..100]]

\* The dimensions that report are among those weighed.
LEMMA ReportingDimensions ==
    ASSUME NEW dims \in Dimensions
    PROVE  /\ DOMAIN dims = DOMAIN DimensionWeight
           /\ Reporting(dims) \subseteq DOMAIN dims /\ IsFiniteSet(DOMAIN dims)
           /\ Cardinality(Reporting(dims)) \in Nat /\ Cardinality(DOMAIN dims) \in Nat \ {0}
           /\ IsFiniteSet(Reporting(dims)) /\ IsFiniteSet(Directional(dims))
           /\ IsFiniteSet(AgreeingDimensions(dims))
<1>1. DOMAIN dims = DOMAIN DimensionWeight  BY DEF Dimensions
<1>2. IsFiniteSet(DOMAIN dims) /\ DOMAIN dims # {}
  BY <1>1, EvidenceAssumption DEF AnalysisConfig
<1>3. /\ Reporting(dims) \subseteq DOMAIN dims /\ Directional(dims) \subseteq DOMAIN dims
      /\ AgreeingDimensions(dims) \subseteq DOMAIN dims
  BY DEF Reporting, Directional, AgreeingDimensions
<1>4. /\ IsFiniteSet(Reporting(dims)) /\ IsFiniteSet(Directional(dims))
      /\ IsFiniteSet(AgreeingDimensions(dims))
  BY <1>2, <1>3, FS_Subset
<1>5. Cardinality(Reporting(dims)) \in Nat /\ Cardinality(DOMAIN dims) \in Nat \ {0}
  BY <1>2, <1>4, FS_CardinalityType, FS_EmptySet
<1>. QED  BY <1>1, <1>2, <1>3, <1>4, <1>5

\* The net score is an integer.
LEMMA NetScoreType ==
    ASSUME NEW dims \in Dimensions
    PROVE  NetScore(dims) \in Int
<1>. DEFINE part == [d \in Reporting(dims) |-> DimensionWeight[d] * dims[d].confidence]
            scored == [d \in Reporting(dims) |-> part[d] * dims[d].score]
<1>1. ASSUME NEW d \in Reporting(dims) PROVE part[d] \in Nat /\ scored[d] \in Int
  <2>1. d \in DOMAIN DimensionWeight /\ dims[d] \in [score : -100..100, confidence : 0..100]
    BY ReportingDimensions DEF Dimensions
  <2>2. PICK w \in Nat, c \in Nat, x \in Int :
             w = DimensionWeight[d] /\ c = dims[d].confidence /\ x = dims[d].score
    <3>1. DimensionWeight[d] \in Nat  BY <2>1, EvidenceAssumption DEF AnalysisConfig
    <3>2. dims[d].confidence \in Nat /\ dims[d].score \in Int  BY <2>1
    <3>. QED  BY <3>1, <3>2
  <2>3. w * c \in Nat  OBVIOUS
  <2>4. PICK n \in Nat : n = part[d]  BY <2>2, <2>3
  <2>5. scored[d] = n * x  BY <2>2, <2>4
  <2>6. n * x \in Int  OBVIOUS
  <2>. QED  BY <2>4, <2>5, <2>6
<1>2. DOMAIN part = Reporting(dims) /\ DOMAIN scored = Reporting(dims)  OBVIOUS
<1>3. IsFiniteSet(Reporting(dims))  BY ReportingDimensions
<1>4. NetScore(dims) = IF SumFunction(part) = 0 THEN 0
                       ELSE IF SumFunction(scored) < 0
                         THEN -((100 * (-SumFunction(scored))) \div SumFunction(part))
                         ELSE (100 * SumFunction(scored)) \div SumFunction(part)
  BY DEF NetScore
<1>. HIDE DEF part, scored
<1>5. PICK weight \in Nat : weight = SumFunction(part)  BY <1>1, <1>2, <1>3, NaturalSum
<1>6. PICK sum \in Int : sum = SumFunction(scored)
  <2>1. IsFiniteSet(DOMAIN scored) /\ \A d \in DOMAIN scored : scored[d] \in Int
    BY <1>1, <1>2, <1>3
  <2>. QED  BY <2>1, FunctionSum
<1>7. CASE weight = 0
  BY <1>4, <1>5, <1>7
<1>8. CASE weight # 0
  <2>1. PICK n \in Int, m \in Int : n = 100 * sum /\ m = 100 * (-sum)  OBVIOUS
  <2>2. n \div weight \in Int /\ -(m \div weight) \in Int  BY <1>8
  <2>3. NetScore(dims) = IF sum < 0 THEN -(m \div weight) ELSE n \div weight
    BY <1>4, <1>5, <1>6, <1>8, <2>1
  <2>. QED  BY <2>2, <2>3
<1>. QED  BY <1>7, <1>8

\* So is the conviction.
LEMMA ConvictionType ==
    ASSUME NEW dims \in Dimensions
    PROVE  Conviction(dims) \in Int
<1>. DEFINE reporting == Cardinality(Reporting(dims))
            agreeing == Cardinality(AgreeingDimensions(dims))
            conflict == Cardinality(Directional(dims)) - agreeing
            of(n) == IF agreeing + conflict = 0 THEN 0 ELSE (100 * n) \div (agreeing + conflict)
            coverage == (100 * reporting) \div Cardinality(DOMAIN dims)
            quality == SumFunction([d \in Reporting(dims) |-> dims[d].confidence]) \div reporting
            whole(x, y, z, u, v, w) ==
                Pct(Pct(Pct(Pct(Pct(x, y), z), u), v), w)
<1>1. PICK size \in Int : size = Size(NetScore(dims))
  BY NetScoreType, Shares
<1>2. PICK a \in Nat, c \in Int : a = agreeing /\ c = conflict /\ a + c \in Nat
  <2>1. PICK n \in Nat, m \in Nat : n = agreeing /\ m = Cardinality(Directional(dims))
    BY ReportingDimensions, FS_CardinalityType
  <2>2. m - n \in Int /\ n + (m - n) \in Nat  OBVIOUS
  <2>. QED  BY <2>1, <2>2
<1>3. ASSUME NEW n \in Int PROVE (IF a + c = 0 THEN 0 ELSE (100 * n) \div (a + c)) \in Int
  <2>1. PICK t \in Nat, m \in Int : t = a + c /\ m = 100 * n  BY <1>2
  <2>2. t # 0 => m \div t \in Int  OBVIOUS
  <2>. QED  BY <2>1, <2>2
<1>4. PICK ofAgreeing \in Int, ofConflict \in Int :
           ofAgreeing = of(agreeing) /\ ofConflict = of(conflict)
  <2>1. of(agreeing) \in Int  BY <1>2, <1>3
  <2>2. of(conflict) \in Int  BY <1>2, <1>3
  <2>. HIDE DEF of
  <2>. QED  BY <2>1, <2>2
<1>5. PICK cover \in Int : cover = coverage
  <2>1. PICK n \in Int, t \in Nat \ {0} : n = 100 * reporting /\ t = Cardinality(DOMAIN dims)
    BY ReportingDimensions
  <2>. QED  BY <2>1
<1>6. CASE reporting = 0
  BY <1>6 DEF Conviction
<1>7. CASE reporting # 0
  <2>1. PICK good \in Int : good = quality
    <3>. DEFINE f == [d \in Reporting(dims) |-> dims[d].confidence]
    <3>1. DOMAIN f = Reporting(dims)  OBVIOUS
    <3>2. \A d \in Reporting(dims) : f[d] \in Nat  BY ReportingDimensions DEF Dimensions
    <3>. HIDE DEF f
    <3>3. PICK sum \in Nat : sum = SumFunction(f)
      BY <3>1, <3>2, ReportingDimensions, NaturalSum
    <3>4. PICK t \in Nat \ {0} : t = reporting  BY <1>7, ReportingDimensions
    <3>5. quality = sum \div t  BY <3>3, <3>4 DEF f
    <3>. HIDE DEF quality
    <3>. QED  BY <3>5
  <2>2. PICK y \in Int : y = 40 + Pct(60, ofAgreeing)
    <3>1. Pct(60, ofAgreeing) \in Int  BY Shares
    <3>. QED  BY <3>1
  <2>3. PICK z \in Int : z = 50 + cover \div 2  OBVIOUS
  <2>4. PICK u \in Int : u = 50 + good \div 2  OBVIOUS
  <2>5. PICK v \in Int : v = Between0And(100 - Pct(ConflictPenalty, ofConflict), 100)
    <3>1. ConflictPenalty \in Int  BY EvidenceAssumption DEF AnalysisConfig
    <3>2. PICK n \in Int : n = 100 - Pct(ConflictPenalty, ofConflict)
      <4>1. Pct(ConflictPenalty, ofConflict) \in Int  BY <3>1, Shares
      <4>. QED  BY <4>1
    <3>3. Between0And(n, 100) \in Int  BY DEF Between0And, AtMost
    <3>. QED  BY <3>2, <3>3
  <2>6. PICK w \in Int : w = IF reporting < MinDimensions THEN 60 ELSE 100
    <3>. HIDE DEF reporting
    <3>. QED  OBVIOUS
  <2>7. Conviction(dims) = whole(size, y, z, u, v, w)
    BY <1>1, <1>4, <1>5, <1>7, <2>1, <2>2, <2>3, <2>4, <2>5, <2>6 DEF Conviction
  <2>8. whole(size, y, z, u, v, w) \in Int
    <3>1. PICK x1 \in Int : x1 = Pct(size, y)  BY Shares
    <3>2. PICK x2 \in Int : x2 = Pct(x1, z)  BY Shares
    <3>3. PICK x3 \in Int : x3 = Pct(x2, u)  BY Shares
    <3>4. PICK x4 \in Int : x4 = Pct(x3, v)  BY Shares
    <3>5. Pct(x4, w) \in Int  BY Shares
    <3>. QED  BY <3>1, <3>2, <3>3, <3>4, <3>5
  <2>. QED  BY <2>7, <2>8
<1>. QED  BY <1>6, <1>7

\* No report, or one with a net score and a conviction.
Numbers(report) ==
    report # NoReading =>
        report.vetoed \in BOOLEAN /\ report.net \in Int /\ report.conviction \in Int

\* What is read is reported in numbers.
LEMMA ReportType ==
    ASSUME NEW measured \in Reading
    PROVE  Numbers(Report(measured))
<1>1. measured.dims \in Dimensions  BY DEF Reading, Dimensions
<1>2. NetScore(measured.dims) \in Int /\ Conviction(measured.dims) \in Int
  BY <1>1, NetScoreType, ConvictionType
<1>. DEFINE vetoed == Vetoes(measured.measures) # {}
            conviction == IF vetoed THEN 0 ELSE Conviction(measured.dims)
<1>3. vetoed \in BOOLEAN /\ conviction \in Int  BY <1>2
<1>4. Report(measured) = [vetoed |-> vetoed, net |-> NetScore(measured.dims),
                          conviction |-> conviction]
  BY DEF Report
<1>. HIDE DEF vetoed, conviction
<1>. QED  BY <1>2, <1>3, <1>4 DEF Numbers

-----------------------------------------------------------------------------
\* A product is a number, and so is its share of a hundred.
LEMMA ProductType ==
    ASSUME NEW x \in Int, NEW y \in Int
    PROVE  x * y \in Int
OBVIOUS

\* What the model adds is a share.
LEMMA ModelComponentType ==
    ASSUME NEW prediction, Forecast(prediction)
    PROVE  ModelComponent(prediction) \in Whole
<1>1. CASE prediction = NoForecast
  <2>1. 3500 \in Whole  BY DEF Whole
  <2>. QED  BY <1>1, <2>1 DEF ModelComponent
<1>2. CASE prediction # NoForecast
  <2>1. PICK n \in Int : n = 200 * (prediction.probability - 50)
    <3>1. PICK x \in Int : x = prediction.probability  BY <1>2 DEF Forecast
    <3>. QED  BY <3>1
  <2>2. Clipped(n) \in Whole  BY ClippedIsWhole
  <2>. QED  BY <1>2, <2>1, <2>2 DEF ModelComponent
<1>. QED  BY <1>1, <1>2

\* How far the analysis supports a direction, and what that does to the score.
LEMMA AdjustmentType ==
    ASSUME NEW report, Numbers(report), NEW d \in Int
    PROVE  Adjustment(report, d) \in Int
<1>1. CASE report = NoReading
  BY <1>1 DEF Adjustment
<1>2. CASE report # NoReading
  <2>1. PICK points \in Int, sure \in Int : points = report.net /\ sure = report.conviction
    BY <1>2 DEF Numbers
  <2>2. PICK x \in Int : x = d * points  OBVIOUS
  <2>3. PICK y \in Int : y = AtMost(x, 10000)  BY DEF AtMost
  <2>4. PICK z \in Int : z = y * sure  OBVIOUS
  <2>5. PICK support \in Int : support = Supports(report, d)
    <3>1. Supports(report, d) = IF report.vetoed \/ x <= 0 THEN 0 ELSE z \div 10000
      BY <2>1, <2>2, <2>3, <2>4 DEF Supports
    <3>2. z \div 10000 \in Int  OBVIOUS
    <3>. QED  BY <3>1, <3>2
  <2>6. PICK n \in Int : n = (2 * support) \div 100 - 100  OBVIOUS
  <2>7. PICK m \in Int : m = Pct(Influence, n)
    <3>1. Influence \in Int  BY EnsembleAssumption
    <3>. QED  BY <3>1, Shares
  <2>8. Adjustment(report, d) = 100 + m  BY <1>2, <2>5, <2>6, <2>7 DEF Adjustment
  <2>. QED  BY <2>8
<1>. QED  BY <1>1, <1>2

\* The tightest stop of strategies that agree is a price.
LEMMA TightestStopType ==
    ASSUME NEW agreeing \in SUBSET Strategies, agreeing # {}, NEW d \in Int
    PROVE  TightestStop(agreeing, d) \in Int
<1>. DEFINE w == [s \in Strategies |-> d * StopAt(s, d)]
            V == {w[s] : s \in agreeing}
<1>1. ASSUME NEW s \in Strategies PROVE w[s] \in Int
  <2>1. PICK price \in Int, away \in Int : price = Price /\ away = StopDistance[s]
    BY EnsembleAssumption
  <2>2. PICK x \in Int : x = d * away  OBVIOUS
  <2>3. PICK y \in Int : y = price - x  OBVIOUS
  <2>4. w[s] = d * y  BY <2>1, <2>2, <2>3 DEF StopAt
  <2>. QED  BY <2>4
<1>2. IsFiniteSet(agreeing)  BY EnsembleAssumption, FS_Subset
<1>3. {d * StopAt(s, d) : s \in agreeing} = V  OBVIOUS
<1>. HIDE DEF w
<1>4. V \subseteq Int /\ V # {} /\ IsFiniteSet(V)  BY <1>1, <1>2, ValuesAreFinite
<1>. HIDE DEF V
<1>5. PICK n \in Int : n = Max(V)  BY <1>4, ExtremesOf
<1>6. TightestStop(agreeing, d) = d * n  BY <1>3, <1>5 DEF TightestStop
<1>. QED  BY <1>6

\* A result that passes the gates is a decision.
LEMMA ResultType ==
    ASSUME NEW said \in [Strategies -> Voice], NEW prediction, Forecast(prediction),
           NEW report, Numbers(report), NEW state, state.confidence \in 0..100,
           NEW d, d \in {Long, Short}, Passes(said, prediction, report, state, d)
    PROVE  Scored(Result(said, prediction, report, state, d), prediction, report, state) \in Results
<1>1. d = 1 \/ d = -1  BY DEF Long, Short
<1>2. SideScore(said, d) \in Nat /\ SideScore(said, -d) \in Nat  BY SideScoreGrows
<1>3. IsFiniteSet(Side(said, d)) /\ Side(said, d) \in SUBSET Strategies  BY SideMembers
<1>4. /\ SideScore(said, Long) + SideScore(said, Short) > 0
      /\ Cardinality(Side(said, d)) >= MinAgreeing
  BY DEF Passes, EnoughEvidence
<1>5. Side(said, d) # {}
  <2>1. MinAgreeing \in Nat \ {0}  BY EnsembleAssumption DEF EnsembleConfig
  <2>2. Cardinality({}) = 0  BY FS_EmptySet
  <2>. QED  BY <1>4, <2>1, <2>2
<1>6. PICK sure \in Whole, c \in Whole :
           sure = Confidence(said, d, prediction, state) /\ c = StrategyComponent(said, d)
  BY <1>2, <1>3, <1>4, <1>5, ConfidenceType
<1>7. PICK stop \in Int : stop = TightestStop(Side(said, d), d)
  <2>1. d \in Int  BY <1>1
  <2>. QED  BY <1>3, <1>5, <2>1, TightestStopType
<1>8. PICK score \in Whole :
           score = Result(said, prediction, report, state, d).score
  <2>1. PICK m \in Int, k \in Int, a \in Int, v \in Int :
             /\ m = ModelComponent(prediction) /\ k = c
             /\ a = StrategyWeight /\ v = ModelWeight
    <3>1. ModelComponent(prediction) \in Int  BY ModelComponentType, WholeIs
    <3>2. c \in Int  BY WholeIs
    <3>3. StrategyWeight \in Int /\ ModelWeight \in Int
      BY EnsembleAssumption DEF EnsembleConfig
    <3>. QED  BY <3>1, <3>2, <3>3
  <2>2. PICK x \in Int, y \in Int : x = a * k /\ y = v * m  BY <2>1
  <2>3. PICK blend \in Int : blend = (x + y) \div 100  OBVIOUS
  <2>4. PICK adj \in Int : adj = Adjustment(report, d)
    <3>1. d \in Int  BY <1>1
    <3>. QED  BY <3>1, AdjustmentType
  <2>5. PICK z \in Int : z = blend * adj  OBVIOUS
  <2>6. PICK n \in Int : n = z \div 100  OBVIOUS
  <2>7. Result(said, prediction, report, state, d).score = Clipped(n)
    BY <1>6, <2>1, <2>2, <2>3, <2>4, <2>5, <2>6 DEF Result
  <2>. QED  BY <2>7, ClippedIsWhole
<1>9. Result(said, prediction, report, state, d)
        = [direction |-> d, stop |-> stop, confidence |-> sure, score |-> score,
           actionable |-> FALSE]
  BY <1>6, <1>7, <1>8 DEF Result
<1>10. PICK act \in BOOLEAN :
            act = (OpportunityScore(Result(said, prediction, report, state, d), prediction,
                                    report, state) >= 100 * MinOpportunity)
  <2>1. \A x, y : (x >= y) \in BOOLEAN  OBVIOUS
  <2>. QED  BY <2>1
<1>11. Scored(Result(said, prediction, report, state, d), prediction, report, state)
         = [direction |-> d, stop |-> stop, confidence |-> sure, score |-> score,
            actionable |-> act]
  <2>. DEFINE r == Result(said, prediction, report, state, d)
  <2>1. Scored(r, prediction, report, state) = [r EXCEPT !.actionable = act]
    BY <1>10 DEF Scored
  <2>. HIDE DEF r
  <2>2. r = [direction |-> d, stop |-> stop, confidence |-> sure, score |-> score,
             actionable |-> FALSE]
    BY <1>9 DEF r
  <2>3. [r EXCEPT !.actionable = act]
          = [direction |-> d, stop |-> stop, confidence |-> sure, score |-> score,
             actionable |-> act]
    BY <2>2
  <2>. QED  BY <2>1, <2>3 DEF r
<1>. QED  BY <1>11 DEF Results, Whole

\* What the ensemble decides is a refusal or a decision.
LEMMA EnsembleTypes == EnsembleInv => EnsembleTypeOK
<1>1. SUFFICES ASSUME EnsembleInv, verdict # NoTrade PROVE verdict \in Results
  BY DEF EnsembleInv, EnsembleTypeOK
<1>. DEFINE state == Finalized(distribution)
            said == Weighted(opinions, state)
            prediction == Predicted(serving, state)
            report == IF reading = NoReading THEN NoReading ELSE Report(reading)
            d == Favoured(said)
<1>2. serving \in Serving /\ distribution \in Distribution
  <2>1. NoServing \in Serving  BY DEF NoServing, Serving, Model
  <2>. QED  BY <1>1, <2>1, EnsembleAssumption DEF EnsembleInv
<1>3. RegimeState(state)  BY <1>2, FinalizedIsState
<1>4. verdict = Combine(said, prediction, report, state)
  BY <1>1 DEF EnsembleInv, Evaluated
<1>5. Numbers(report)
  <2>1. CASE reading = NoReading  BY <2>1 DEF Numbers
  <2>2. CASE reading # NoReading
    <3>1. reading \in Reading  BY <1>1, <2>2, EnsembleAssumption DEF EnsembleInv
    <3>. QED  BY <2>2, <3>1, ReportType
  <2>. QED  BY <2>1, <2>2
<1>. HIDE DEF state, report
<1>6. said \in [Strategies -> Voice]  BY <1>1, <1>3, WeighedVoices DEF EnsembleInv
<1>7. state.confidence \in 0..100  BY <1>3 DEF RegimeState
<1>8. Forecast(prediction)  BY <1>2, <1>7, PredictedIsForecast
<1>9. d \in {Long, Short}  BY DEF Favoured
<1>. HIDE DEF said, prediction
<1>10. /\ Passes(said, prediction, report, state, d)
       /\ verdict = Scored(Result(said, prediction, report, state, d), prediction, report, state)
  BY <1>1, <1>4 DEF Combine
<1>. HIDE DEF d
<1>. QED  BY <1>5, <1>6, <1>7, <1>8, <1>9, <1>10, ResultType

-----------------------------------------------------------------------------
(* The composition *)

\* What the decision is made of moves one part at a time, and each part as its own
\* specification allows.
THEOREM DecisionImplementsParts == DecisionSpec => PaperSpec /\ EntrySpec /\ EnsembleSpec
<1>1. DecisionInit => PaperInit /\ EntryInit /\ EnsembleInit
  BY DEF DecisionInit
<1>2. [DecisionNext]_decisionVars =>
        /\ [PaperNext]_paperVars /\ [EntryNext]_entryVars /\ [EnsembleNext]_ensembleVars
  BY DEF DecisionNext, decisionVars
<1>. QED  BY <1>1, <1>2, PTL DEF DecisionSpec, PaperSpec, EntrySpec, EnsembleSpec

\* The types of the paper account, the entries and the ensemble, and what each promises.
THEOREM DecisionSafe ==
    DecisionSpec => [](TypeOK /\ RiskWithinBudget /\ AnalysisOnlyRestricts)
<1>1. PaperInv => PaperTypeOK  BY DEF PaperInv
<1>2. EnsembleSpec => []EnsembleTypeOK
  BY EnsembleInitially, EnsembleStep, EnsembleTypes, PTL DEF EnsembleSpec
<1>3. PaperTypeOK /\ EntryTypeOK /\ EnsembleTypeOK => TypeOK
  BY DEF TypeOK
<1>. QED  BY <1>1, <1>2, <1>3, DecisionImplementsParts, PaperInvariant, EntryRiskBudgeted,
             AnalysisRestricts, PTL

=============================================================================
