-------------------------- MODULE SimulatedBroker --------------------------
(***************************************************************************)
(* brokers/simulated.py: the paper account.  Orders for one contract are   *)
(* filled against the quote of the moment, at once or when the book is     *)
(* polled; cash, position and realized P&L follow the fills.  Amounts are  *)
(* whole multiples of a unit chosen so that the average price of a         *)
(* position is exact over the fills of a behaviour.                        *)
(***************************************************************************)
EXTENDS Integers, Sequences, SequencesExt

CONSTANTS
    Quotes,         \* quotes of the contract: bid, ask, last price and depth
    Limits,         \* limit and trigger prices of the requests
    References,     \* client order ids
    MaxLots,        \* bound: the largest order, in lots
    MaxBrokerOrders,\* bound: orders in the book
    MaxUnits,       \* bound: units ordered over the life of the account
    StartingCash,
    FixedSlippage,  \* slippage of a quote without a spread
    Tick            \* the smallest price there is

NoQuote == [none |-> TRUE]   \* quote_source returns None
Absent == -1                 \* a missing bid, ask or depth
OrderTypes == {"MARKET", "LIMIT", "SL"}
Sides == {1, -1}

ASSUME PaperAssumption ==
    /\ Quotes \subseteq [bid : Nat \union {Absent}, ask : Nat \union {Absent},
                         last : Nat \ {0}, depth : Nat \union {Absent}]
    /\ MaxLots \in Nat \ {0} /\ MaxBrokerOrders \in Nat /\ MaxUnits \in Nat
    /\ StartingCash \in Int /\ FixedSlippage \in Nat /\ Tick \in Nat \ {0}
    /\ Limits \subseteq Nat /\ \A p \in Limits : p >= Tick   \* requests are in whole ticks

VARIABLES
    orders,      \* _orders, in the order of acceptance
    references,  \* _orders_by_reference
    quote,       \* what quote_source returns
    cash,        \* _cash
    holding,     \* quantity of the position, signed
    basis,       \* quantity times average_price of the position
    realized,    \* _realized_pnl
    ambiguous    \* ambiguous_next_submit

bookVars == <<orders, references>>
account == <<cash, holding, basis, realized>>
paperVars == <<bookVars, quote, account, ambiguous>>

-----------------------------------------------------------------------------
(* Order; paid is filled_quantity times average_fill_price. *)

Open(o) == o.status = "ACKED"
NewOrder(r) ==
    [side |-> r.side, type |-> r.type, qty |-> r.qty, filled |-> 0, remaining |-> r.qty,
     price |-> r.price, status |-> "ACKED", paid |-> 0]

Requests == [side : Sides, type : OrderTypes, qty : 1..MaxLots, price : Limits]

-----------------------------------------------------------------------------
(* _simulate_fill: price and quantity against a quote. *)

Spread(q) == IF q.bid <= 0 \/ q.ask <= 0 THEN 0 ELSE q.ask - q.bid

Touch(side, q) ==
    LET quoted == IF side = 1 THEN q.ask ELSE q.bid
    IN IF quoted > 0 THEN quoted ELSE q.last

\* _slippage with half of the spread, always against the order.
Slippage(q) == IF Spread(q) > 0 THEN Spread(q) \div 2 ELSE FixedSlippage

\* Mutant: a limit order is filled whenever its side is quoted.
AlwaysFills(o, q) ==
    CASE o.type = "LIMIT"  -> Touch(o.side, q) > 0
      [] o.type = "SL"     -> o.side * q.last >= o.side * o.price
      [] o.type = "MARKET" -> TRUE

Fills(o, q) ==
    CASE o.type = "LIMIT"  -> o.side * Touch(o.side, q) <= o.side * o.price
      [] o.type = "SL"     -> o.side * q.last >= o.side * o.price
      [] o.type = "MARKET" -> TRUE

FillPrice(o, q) ==
    LET raw == Touch(o.side, q) + IF o.type = "LIMIT" THEN 0 ELSE o.side * Slippage(q)
    IN IF raw < Tick THEN Tick ELSE raw

\* A thin book caps the quantity, but never under one lot; otherwise a partial fill
\* of fewer lots may be drawn.
FillQuantities(n, q) ==
    IF q.depth # Absent /\ q.depth < n
      THEN {IF q.depth < 1 THEN 1 ELSE q.depth}
      ELSE {n} \union 1..(n - 1)

-----------------------------------------------------------------------------
(* _update_position. *)

SignOf(n) == IF n > 0 THEN 1 ELSE IF n < 0 THEN -1 ELSE 0
Magnitude(n) == IF n < 0 THEN -n ELSE n

\* average_price: what the position cost, a unit.
AveragePrice == (SignOf(holding) * basis) \div Magnitude(holding)

\* Mutant: the average price moves when a position is reduced, too.
UpdatePositionAveraging(side, n, price) ==
    LET signed == side * n IN
    /\ cash' = cash - signed * price
    /\ holding' = holding + signed
    /\ basis' = IF holding' = 0 THEN 0 ELSE basis + signed * price
    /\ realized' = realized +
         IF holding # 0 /\ SignOf(holding) # SignOf(signed) /\ Magnitude(signed) >= Magnitude(holding)
           THEN SignOf(holding) * (price * Magnitude(holding)) - basis ELSE 0

\* The same side is averaged in; the other side realizes what it closes at the
\* average price and, past zero, opens at its own price.
UpdatePosition(side, n, price) ==
    LET signed  == side * n
        closing == IF Magnitude(signed) < Magnitude(holding) THEN Magnitude(signed)
                   ELSE Magnitude(holding)
    IN
    /\ cash' = cash - signed * price
    /\ holding' = holding + signed
    /\ IF holding = 0 \/ SignOf(holding) = SignOf(signed)
         THEN basis' = basis + signed * price /\ UNCHANGED realized
         ELSE /\ realized' = realized + (price - AveragePrice) * closing * SignOf(holding)
              /\ basis' = IF holding' = 0 THEN 0
                          ELSE IF SignOf(holding') # SignOf(holding) THEN holding' * price
                          ELSE AveragePrice * holding'

-----------------------------------------------------------------------------
\* _apply_fill: the order after n units filled at a price.
Filled(o, n, price) ==
    [o EXCEPT !.filled = @ + n, !.remaining = o.qty - (o.filled + n),
              !.paid = @ + n * price,
              !.status = IF o.qty = o.filled + n THEN "EXECUTED" ELSE "ACKED"]

\* What the orders may still fill is bounded, so that the average price stays exact.
UnitsSoFar == FoldSeq(LAMBDA o, sum : sum + (IF o.filled > o.qty THEN o.filled ELSE o.qty), 0, orders)

PaperInit ==
    /\ orders = <<>> /\ references = [r \in References |-> 0]
    /\ quote = NoQuote
    /\ cash = StartingCash /\ holding = 0 /\ basis = 0 /\ realized = 0
    /\ ambiguous = FALSE

NewQuote ==
    /\ quote' \in (Quotes \union {NoQuote}) \ {quote}
    /\ UNCHANGED <<bookVars, account, ambiguous>>

\* A test, or a drill, injects the fault into the next submission.
InjectAmbiguity ==
    /\ ~ambiguous /\ ambiguous' = TRUE
    /\ UNCHANGED <<bookVars, quote, account>>

\* _accept: in the book, and filled at once if it fills at all.
Accept(r, ref) ==
    LET o == NewOrder(r) IN
    /\ quote # NoQuote
    /\ Len(orders) < MaxBrokerOrders /\ UnitsSoFar + r.qty <= MaxUnits
    /\ references' = [references EXCEPT ![ref] = Len(orders) + 1]
    /\ IF Fills(o, quote)
         THEN \E n \in FillQuantities(r.qty, quote) :
                /\ orders' = Append(orders, Filled(o, n, FillPrice(o, quote)))
                /\ UpdatePosition(r.side, n, FillPrice(o, quote))
         ELSE orders' = Append(orders, o) /\ UNCHANGED account

\* place_order.  A reference already used returns its order and changes nothing;
\* an order without market data is refused.
PlaceOrder(r, ref) ==
    /\ ~ambiguous
    /\ references[ref] = 0
    /\ Accept(r, ref)
    /\ UNCHANGED <<quote, ambiguous>>

\* The injected fault: accepted, without a look at the reference, and the answer lost.
PlaceOrderAmbiguous(r, ref) ==
    /\ ambiguous
    /\ ambiguous' = FALSE
    /\ IF quote = NoQuote THEN UNCHANGED <<bookVars, account>>
       ELSE Accept(r, ref)
    /\ UNCHANGED quote

\* poll_open_orders looks at one order after another; the quote may change between.
PollOrder(i) ==
    LET o == orders[i] IN
    /\ Open(o) /\ o.remaining > 0 /\ quote # NoQuote /\ Fills(o, quote)
    /\ \E n \in FillQuantities(o.remaining, quote) :
          /\ orders' = [orders EXCEPT ![i] = Filled(o, n, FillPrice(o, quote))]
          /\ UpdatePosition(o.side, n, FillPrice(o, quote))
    /\ UNCHANGED <<references, quote, ambiguous>>

\* modify_order of an open order: the new quantity may be under what has filled.
Modify(i) ==
    /\ Open(orders[i])
    /\ \/ \E n \in 1..orders[i].qty :
            orders' = [orders EXCEPT ![i].qty = n, ![i].remaining = n - orders[i].filled]
       \/ \E p \in Limits : orders' = [orders EXCEPT ![i].price = p]
    /\ UNCHANGED <<references, quote, account, ambiguous>>

\* cancel_order; one that is terminal is returned as it is.
Cancel(i) ==
    /\ Open(orders[i])
    /\ orders' = [orders EXCEPT ![i].status = "CANCELLED", ![i].remaining = 0]
    /\ UNCHANGED <<references, quote, account, ambiguous>>

PaperNext ==
    \/ NewQuote \/ InjectAmbiguity
    \/ \E r \in Requests, ref \in References : PlaceOrder(r, ref) \/ PlaceOrderAmbiguous(r, ref)
    \/ \E i \in DOMAIN orders : PollOrder(i) \/ Modify(i) \/ Cancel(i)

PaperSpec == PaperInit /\ [][PaperNext]_paperVars

-----------------------------------------------------------------------------
OrderRecords ==
    [side : Sides, type : OrderTypes, qty : Nat, filled : Nat, remaining : Int, price : Nat,
     status : {"ACKED", "EXECUTED", "CANCELLED"}, paid : Nat]

PaperTypeOK ==
    /\ orders \in Seq(OrderRecords)
    /\ references \in [References -> 0..Len(orders)]
    /\ quote \in Quotes \union {NoQuote}
    /\ cash \in Int /\ holding \in Int /\ basis \in Int /\ realized \in Int
    /\ ambiguous \in BOOLEAN

\* The unit of the amounts is fine enough for the average price of the position.
AverageIsExact == holding # 0 => AveragePrice * holding = basis

\* The account follows its fills: what the orders have filled, bought less sold, is
\* what is held; and equity(), starting cash with realized and unrealized P&L, is
\* the cash the account really has with its position at the same price.  No fill,
\* partial fill, reduction or flip through zero creates or loses money.
AccountFollowsFills ==
    /\ holding = FoldSeq(LAMBDA o, sum : sum + o.side * o.filled, 0, orders)
    /\ \A last \in {q.last : q \in Quotes} :
          StartingCash + realized + (last * holding - basis) = cash + last * holding

\* Every unit of a limit order is filled at its limit or better, whenever it is
\* filled, on arrival or from the book, in whichever part, and however its price was
\* modified before.
LimitHonoured ==
    [][\A i \in DOMAIN orders' :
          LET new   == orders'[i]
              o     == IF i \in DOMAIN orders THEN orders[i]
                       ELSE [new EXCEPT !.filled = 0, !.paid = 0]
              n     == new.filled - o.filled IN
          (o.type = "LIMIT" /\ n > 0)
              => o.side * (new.paid - o.paid) <= o.side * n * o.price]_paperVars

=============================================================================
