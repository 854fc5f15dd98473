---------------------------- MODULE EntryChecks ----------------------------
(***************************************************************************)
(* What an entry is checked against before it is sent: the filters of      *)
(* options/selector.py, the costs and the expected value of risk/costs.py  *)
(* and signals/expected_value.py, the size of risk/sizing.py and the       *)
(* projected portfolio of risk/portfolio.py and RiskEngine.evaluate.       *)
(* Prices and amounts are in ticks, rates in percent; what a percentage of *)
(* the equity allows is a constant amount.                                 *)
(***************************************************************************)
EXTENDS Integers, FiniteSets, FiniteSetsExt

CONSTANTS
    Contracts,         \* option contracts ...
    UnderlyingOf, GroupOf, OptionOf, DeltaOf, VegaOf,  \* ... and what they are
    LotSize,
    RiskBudget,        \* equity times risk_per_trade_pct
    MaxPositionValue, Deployable, MaxPerInstrument, MaxPerUnderlying,
    MaxCorrelated, MaxPerSector, MaxDelta, MaxVega,
    SelectorMaxSpread, MaxSpread, SlippageFraction, MaxSlippage,
    MinVolume, FreezeQuantity, MaxMarginUse,
    Brokerage, LegRate, MinRiskReward, MinExpectedValue

\* RiskConfig and OptionSelectionConfig: the amounts their fractions allow.
RiskConfig ==
    /\ {RiskBudget, MaxPositionValue, Deployable, MaxPerInstrument, MaxPerUnderlying,
        MaxCorrelated, MaxPerSector, MaxDelta, MaxVega} \subseteq Nat \ {0}
    /\ {MinVolume, MaxSlippage, SlippageFraction} \subseteq Nat
    /\ {SelectorMaxSpread, MaxSpread, MaxMarginUse} \subseteq 1..100

\* _post_validate: sections of the configuration that contradict each other are refused.
SectionsAgree == SelectorMaxSpread <= MaxSpread /\ MaxPositionValue <= Deployable

ASSUME ChecksAssumption ==
    /\ RiskConfig /\ SectionsAgree /\ FreezeQuantity \in Nat
    /\ IsFiniteSet(Contracts) /\ LotSize \in Nat \ {0}
    /\ DeltaOf \in [Contracts -> -100..100] /\ VegaOf \in [Contracts -> Nat]
    /\ OptionOf \in [Contracts -> {"CE", "PE"}]
    /\ GroupOf \in [{UnderlyingOf[c] : c \in Contracts} -> STRING]

Abs(n) == IF n < 0 THEN -n ELSE n
Bigger(a, b) == IF a > b THEN a ELSE b
Unclassified == "unclassified"
Underlyings == {UnderlyingOf[c] : c \in Contracts}

-----------------------------------------------------------------------------
(* OptionSelector: calls for a rise, puts for a fall, through hard filters. *)

SpreadPct(q) == (100 * (q.ask - q.bid)) \div q.last

Suitable(c, q, direction) ==
    /\ OptionOf[c] = IF direction = "LONG" THEN "CE" ELSE "PE"
    /\ q.last > 0 /\ q.bid > 0 /\ q.ask > 0
    /\ SpreadPct(q) <= SelectorMaxSpread
    /\ q.volume >= MinVolume
    /\ q.last * LotSize <= MaxPositionValue

-----------------------------------------------------------------------------
(* The contract's stop and target, from those of the underlying: _enter. *)

ContractRisk(c, price, move) == Bigger(15 * price, move * Abs(DeltaOf[c])) \div 100
ContractReward(c, move) == (move * Abs(DeltaOf[c])) \div 100
StopUnder(price, risk) == Bigger(1, price - risk)   \* one tick is 0.05

-----------------------------------------------------------------------------
(* TransactionCostModel and ExpectedValueEngine, in hundredths of a tick. *)

LegCost(n, price, q) ==
    100 * Brokerage + n * price * LegRate + n * (q.ask - q.bid) * SlippageFraction

RoundTrip(n, entry, exit, q) == LegCost(n, entry, q) + LegCost(n, exit, q)

\* p is the blended win probability in percent, n the quantity of one lot.
ExpectedValuePasses(n, price, stop, target, p, q) ==
    LET risk   == price - stop
        reward == target - price
        gain   == 75 * reward * n    \* DEFAULT_TARGET_REALIZATION
        loss   == 105 * risk * n     \* DEFAULT_STOP_REALIZATION
        cost   == RoundTrip(n, price, target, q)
    IN
    /\ risk > 0
    /\ 100 * reward >= MinRiskReward * risk
    /\ p * (gain + loss) > 100 * (loss + cost)      \* above the breakeven probability
    /\ p * gain - (100 - p) * loss - 100 * cost > 100 * 100 * MinExpectedValue

-----------------------------------------------------------------------------
(* PositionSizer.size: whole lots under every cap, never rounded up.       *)
(* multiplier is that of ladder, health and events together, in percent.   *)

Lots(price, stop, q, exposure, margin, multiplier) ==
    LET perLot == (price - stop) * LotSize
        cost   == price * LotSize
        funds  == {MaxPositionValue, Bigger(0, Deployable - exposure), margin}
    IN IF perLot <= 0 THEN 0
       ELSE Min({(RiskBudget * multiplier) \div (100 * perLot)}
                \union {f \div cost : f \in funds}
                \union {FreezeQuantity \div LotSize, (2 * q.volume) \div (100 * LotSize)})

-----------------------------------------------------------------------------
(* PortfolioManager.  A portfolio gives each contract its signed quantity; *)
(* the candidate is projected as one more position beside those, so that   *)
(* it adds to the exposure whatever is held.                               *)

Exposure(portfolio, last, S) == MapThenSumSet(LAMBDA c : Abs(portfolio[c]) * last[c], S)

OfUnderlying(u) == {c \in Contracts : UnderlyingOf[c] = u}
OfGroup(g) == {c \in Contracts : GroupOf[UnderlyingOf[c]] = g}

\* are_correlated: an unclassified underlying is correlated with itself only.
CorrelatedWith(u) ==
    IF GroupOf[u] = Unclassified THEN OfUnderlying(u) ELSE OfGroup(GroupOf[u])

\* _position_greeks under projected_state, which knows the price of the candidate's
\* underlying and its greeks alone: the others count half their quantity as delta,
\* a put's too, and nothing as vega.
ProjectedDelta(portfolio, c, n) ==
    n * DeltaOf[c] + MapThenSumSet(LAMBDA d : portfolio[d] *
        (IF UnderlyingOf[d] = UnderlyingOf[c] THEN DeltaOf[d] ELSE 50), Contracts)
ProjectedVega(portfolio, c, n) ==
    n * VegaOf[c] + MapThenSumSet(LAMBDA d : portfolio[d] * VegaOf[d], OfUnderlying(UnderlyingOf[c]))

\* Mutant: the limits are checked against the portfolio as it is.
WithinLimitsBefore(portfolio, last, c, signed, price) ==
    LET u == UnderlyingOf[c] IN
    /\ Exposure(portfolio, last, {c}) <= MaxPerInstrument
    /\ Exposure(portfolio, last, OfUnderlying(u)) <= MaxPerUnderlying
    /\ Exposure(portfolio, last, CorrelatedWith(u)) <= MaxCorrelated
    /\ Exposure(portfolio, last, OfGroup(GroupOf[u])) <= MaxPerSector
    /\ Abs(signed) * price <= MaxPositionValue

\* The concentration and greek controls of RiskEngine.evaluate, all projected.
WithinLimits(portfolio, last, c, signed, price) ==
    LET u   == UnderlyingOf[c]
        new == Abs(signed) * price
    IN
    /\ Exposure(portfolio, last, {c}) + new <= MaxPerInstrument
    /\ Exposure(portfolio, last, OfUnderlying(u)) + new <= MaxPerUnderlying
    /\ Exposure(portfolio, last, CorrelatedWith(u)) + new <= MaxCorrelated
    /\ Exposure(portfolio, last, OfGroup(GroupOf[u])) + new <= MaxPerSector
    /\ new <= MaxPositionValue
    /\ Abs(ProjectedDelta(portfolio, c, signed)) <= MaxDelta
    /\ Abs(ProjectedVega(portfolio, c, signed)) <= MaxVega

\* Liquidity and execution quality, and the margin the broker reports.
Liquid(q) ==
    /\ q.bid > 0 /\ q.ask > 0 /\ SpreadPct(q) <= MaxSpread
    /\ SpreadPct(q) * SlippageFraction <= 100 * MaxSlippage
    /\ q.volume >= MinVolume

MarginAllows(required, margin) ==
    /\ 100 * (margin.used + required) <= MaxMarginUse * (margin.available + margin.used)
    /\ required <= margin.available

=============================================================================
