--------------------------- MODULE EntryPipeline ---------------------------
(***************************************************************************)
(* The entries of one trading process: run_cycle takes the best of the     *)
(* scan one after another, and for each TradingOrchestrator._enter selects *)
(* a contract, checks it, sends the order and tracks the position.  The    *)
(* broker's account holds what was filled.                                 *)
(***************************************************************************)
EXTENDS EntryChecks, Sequences, SequencesExt

CONSTANTS
    MarketQuotes,      \* bid, ask, last price and volume of a contract
    Opportunities,     \* underlying, direction, stop and target move, win probability
    Margins,           \* what get_margin may report
    Multipliers,       \* risk multipliers, in percent
    MaxTracked,        \* max_open_positions
    MaxNet             \* bound: units of a contract held when another entry begins

ASSUME PipelineAssumption ==
    /\ MarketQuotes \subseteq [bid : Nat, ask : Nat, last : Nat \ {0}, volume : Nat]
    /\ MarketQuotes # {}
    /\ Opportunities \subseteq [underlying : Underlyings, direction : {"LONG", "SHORT"},
                                stopMove : Nat, targetMove : Nat, winPct : 0..100]
    /\ Margins \subseteq [available : Int, used : Int]
    /\ Multipliers \subseteq 0..100 /\ MaxTracked \in Nat \ {0} /\ MaxNet \in Nat

VARIABLES
    market,     \* the quote of each contract
    net,        \* net quantity of each contract at the broker
    managed,    \* the positions the loop tracks
    agenda,     \* what is left of this cycle's opportunities
    approval,   \* the approved order about to be executed, or NoApproval
    unknown,    \* signed units of orders with an unknown fate, not cancelled
    allowed     \* trading_allowed

entryVars == <<market, net, managed, agenda, approval, unknown, allowed>>

NoApproval == [units |-> 0]
LastOf(quotes) == [c \in Contracts |-> quotes[c].last]
Between == agenda = <<>> /\ approval = NoApproval

-----------------------------------------------------------------------------
EntryInit ==
    /\ market = [c \in Contracts |-> CHOOSE q \in MarketQuotes : TRUE]
    /\ net = [c \in Contracts |-> 0] /\ unknown = [c \in Contracts |-> 0]
    /\ managed = <<>> /\ agenda = <<>> /\ approval = NoApproval
    /\ allowed = TRUE

\* A cycle lasts seconds: quotes move between two of them.
MarketMoves(c) ==
    /\ Between
    /\ market' \in {[market EXCEPT ![c] = q] : q \in MarketQuotes \ {market[c]}}
    /\ UNCHANGED <<net, managed, agenda, approval, unknown, allowed>>

\* The scan's ranking, at most one opportunity of an underlying, cut to the capacity.
BeginCycle(ranked) ==
    /\ Between /\ allowed /\ Len(managed) < MaxTracked
    /\ Len(ranked) <= MaxTracked - Len(managed)
    /\ agenda' = ranked
    /\ UNCHANGED <<market, net, managed, approval, unknown, allowed>>

\* RiskEngine.evaluate of a contract; seen is the account as the broker reports it.
Approved(o, c, seen, margin, multiplier) ==
    LET q      == market[c]
        risk   == ContractRisk(c, q.last, o.stopMove)
        stop   == StopUnder(q.last, risk)
        target == q.last + ContractReward(c, o.targetMove)
        total  == Exposure(seen, LastOf(market), Contracts)
        units  == LotSize * Lots(q.last, stop, q, total, margin.available, multiplier)
        side   == IF o.direction = "LONG" THEN 1 ELSE -1   \* ensemble.decision
    IN
    /\ Suitable(c, q, o.direction)
    /\ ExpectedValuePasses(LotSize, q.last, stop, target, o.winPct, q)
    /\ Cardinality({d \in Contracts : seen[d] # 0}) < MaxTracked
    /\ Liquid(q)
    /\ units > 0
    /\ MarginAllows(q.last * units, margin)
    /\ WithinLimits(seen, LastOf(market), c, side * units, q.last)
    /\ approval' = [units |-> units, contract |-> c, side |-> side, risk |-> risk,
                    price |-> q.last, seen |-> seen]

\* _enter up to the approval, of any suitable contract: the selector's ranking and its
\* filters on greeks, decay and volatility only narrow the choice.  A get_positions that fails
\* shows an empty account.
Evaluate ==
    /\ agenda # <<>> /\ approval = NoApproval /\ Len(managed) < MaxTracked
    /\ \A d \in Contracts : Abs(net[d]) <= MaxNet
    /\ \E c \in OfUnderlying(Head(agenda).underlying), m \in Margins, mult \in Multipliers,
          seen \in {net, [d \in Contracts |-> 0]} : Approved(Head(agenda), c, seen, m, mult)
    /\ UNCHANGED <<market, net, managed, agenda, unknown, allowed>>

\* No contract, no edge, a failed control, or the limit of positions: the next one.
PassOver ==
    /\ agenda # <<>> /\ approval = NoApproval
    /\ agenda' = IF Len(managed) >= MaxTracked THEN <<>> ELSE Tail(agenda)
    /\ UNCHANGED <<market, net, managed, approval, unknown, allowed>>

\* Mutant: the stop is set under the fill by a percentage of its own.
TrackAtFill(a, n, fill) ==
    [contract |-> a.contract, units |-> n, entry |-> fill, stop |-> StopUnder(fill, fill)]

\* The ManagedPosition: long, whatever the side of the order was.
Track(a, n, fill) ==
    [contract |-> a.contract, units |-> n, entry |-> fill, stop |-> StopUnder(fill, a.risk)]

\* execute: a limit order at the touch, filled whole or in part, the rest cancelled.
Fill ==
    LET q == market[approval.contract] IN
    /\ approval # NoApproval
    /\ \E n \in 1..approval.units, fill \in {q.last, IF approval.side = 1 THEN q.ask ELSE q.bid} :
         /\ net' = [net EXCEPT ![approval.contract] = @ + approval.side * n]
         /\ managed' = Append(managed, Track(approval, n, fill))
    /\ approval' = NoApproval /\ agenda' = Tail(agenda)
    /\ UNCHANGED <<market, unknown, allowed>>

\* Refused or unfilled: nothing is held.
NoFill ==
    /\ approval # NoApproval
    /\ approval' = NoApproval /\ agenda' = Tail(agenda)
    /\ UNCHANGED <<market, net, managed, unknown, allowed>>

\* Ambiguous: entries are halted for the next cycle, this one goes on.
FillUnknown ==
    /\ approval # NoApproval
    /\ unknown' = [unknown EXCEPT ![approval.contract] = @ + approval.side * approval.units]
    /\ allowed' = FALSE
    /\ approval' = NoApproval /\ agenda' = Tail(agenda)
    /\ UNCHANGED <<market, net, managed>>

\* The order nobody knows of fills after all.
UnknownFills(c) ==
    /\ unknown[c] # 0
    /\ net' = [net EXCEPT ![c] = @ + unknown[c]]
    /\ unknown' = [unknown EXCEPT ![c] = 0]
    /\ UNCHANGED <<market, managed, agenda, approval, allowed>>

\* _manage_positions closes a position: it is sold, at the head of a cycle.
ExitManaged(i) ==
    /\ Between
    /\ net' = [net EXCEPT ![managed[i].contract] = @ - managed[i].units]
    /\ managed' = RemoveAt(managed, i)
    /\ UNCHANGED <<market, agenda, approval, unknown, allowed>>

\* _scan: the actionable opportunities, one of each underlying that could be evaluated.
Scans ==
    {S \in SUBSET Opportunities :
        S # {} /\ \A o, p \in S : o.underlying = p.underlying => o = p}
Rankings == UNION {SetToSeqs(S) : S \in Scans}

EntryNext ==
    \/ \E ranked \in Rankings : BeginCycle(ranked)
    \/ \E c \in Contracts : MarketMoves(c) \/ UnknownFills(c)
    \/ Evaluate \/ PassOver \/ Fill \/ NoFill \/ FillUnknown
    \/ \E i \in DOMAIN managed : ExitManaged(i)

EntrySpec == EntryInit /\ [][EntryNext]_entryVars

-----------------------------------------------------------------------------
EntryTypeOK ==
    /\ market \in [Contracts -> MarketQuotes]
    /\ net \in [Contracts -> Int] /\ unknown \in [Contracts -> Int]
    /\ managed \in Seq([contract : Contracts, units : Nat \ {0}, entry : Nat, stop : Nat])
    /\ Len(managed) <= MaxTracked
    /\ agenda \in Seq(Opportunities) /\ allowed \in BOOLEAN
    /\ approval # NoApproval =>
         approval \in [units : Nat \ {0}, contract : Contracts, side : {1, -1}, risk : Nat,
                       price : Nat, seen : [Contracts -> Int]]

\* Every entry leaves the whole account inside its limits: exposure to the contract,
\* the underlying, what is correlated with it, its sector, and what may be deployed,
\* also when it is the second of a cycle and adds to what is held already.  Only a
\* failed report of the positions, or an order of unknown fate, gets around them.
EntriesWithinLimits ==
    [][(approval # NoApproval /\ approval.seen = net /\ net' # net
          /\ \A c \in Contracts : unknown[c] = 0) =>
        LET u    == UnderlyingOf[approval.contract]
            E(S) == Exposure(net', LastOf(market), S)
        IN /\ E({approval.contract}) <= MaxPerInstrument
           /\ E(OfUnderlying(u)) <= MaxPerUnderlying
           /\ E(CorrelatedWith(u)) <= MaxCorrelated
           /\ E(OfGroup(GroupOf[u])) <= MaxPerSector
           /\ E(Contracts) <= Deployable]_entryVars

\* The stop a position is tracked with risks no more than the budget of a trade, even
\* though the size was computed from the quote and the stop set from the fill.  Only
\* where the risk is all of the price, and the stop as low as the distance of the fill
\* from the last price or one tick, does that distance come on top.
RiskWithinBudget ==
    \A i \in DOMAIN managed :
      LET p == managed[i] IN
      \/ p.units * (p.entry - p.stop) <= RiskBudget
      \/ \E q \in MarketQuotes :
           /\ p.entry \in {q.bid, q.ask} /\ p.stop <= Bigger(1, p.entry - q.last)
           /\ p.units * (p.entry - p.stop) <= RiskBudget + p.units * (p.entry - q.last)

\* "long the option; direction is in CE vs PE": as long as the fate of every order is
\* known, a contract of which no position is tracked any more is not held.
ClosedMeansFlat ==
    (Between /\ allowed) =>
        \A c \in Contracts :
            (\A i \in DOMAIN managed : managed[i].contract # c) => net[c] = 0

=============================================================================
