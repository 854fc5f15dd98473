----------------------------- MODULE MarketData -----------------------------
(***************************************************************************)
(* The market data of one underlying: data/quality.py judges each quote    *)
(* with the memory of the former ones, data/candles.py folds the accepted  *)
(* ones into base bars and derives a coarser timeframe from them, and      *)
(* data/market_data.py serves the bars that have closed.  Time counts base *)
(* bars; the market opens Open bars into the day.                          *)
(***************************************************************************)
EXTENDS Integers, FiniteSets, FiniteSetsExt

CONSTANTS
    BarsPerDay, Open, Coarse,   \* base bars in a day, before the open, in a coarse bar
    Prices, MaxJump,
    MaxAge, MaxSkew,            \* of a quote's timestamp, in base bars
    MaxFailures,                \* max_consecutive_failures
    MaxBars,                    \* bars a series keeps
    FirstTime, LastClock,       \* bound: the time the model runs from and for
    MaxQuotes                   \* bound: quotes answered

\* DataQualityConfig: every threshold may be tightened, none switched off.
DataQualityConfig == {MaxJump, MaxAge, MaxFailures} \subseteq Nat \ {0}

ASSUME MarketDataAssumption ==
    /\ DataQualityConfig
    /\ {BarsPerDay, Coarse, MaxBars} \subseteq Nat \ {0}
    /\ {Open, MaxSkew, FirstTime, LastClock, MaxQuotes} \subseteq Nat
    /\ Prices \subseteq Nat \ {0} /\ Prices # {} /\ Open < BarsPerDay
    /\ FirstTime <= LastClock

VARIABLES
    clock, session,     \* the day the engine was last reset for
    lastPrice, lastStamp, identical, failures,   \* _SymbolState
    base,               \* base bars, by their start
    coarse,             \* the derived bars as _series holds them
    dirty,              \* _dirty of the store
    answered            \* bound: quotes so far

memory == <<lastPrice, lastStamp, identical, failures>>
marketDataVars == <<clock, session, memory, base, coarse, dirty, answered>>

Nothing == 0          \* no price seen yet
NoBars == <<>>
Bar(price) == [open |-> price, high |-> price, low |-> price, close |-> price]
Bars == [open : Prices, high : Prices, low : Prices, close : Prices]

Day(t) == t \div BarsPerDay
OpenOf(t) == Day(t) * BarsPerDay + Open
InSession(t) == t >= OpenOf(t)

\* bar_start: bars are counted from the open of the session, or of the one before.
BarStart(t, size) ==
    LET anchor == IF t < OpenOf(t) THEN OpenOf(t) - BarsPerDay ELSE OpenOf(t) IN
    anchor + ((t - anchor) \div size) * size

\* resample: bars are counted from midnight, origin="start_day".
Label(t) == t - ((t % BarsPerDay) % Coarse)

Group(bars, label) == {t \in DOMAIN bars : Label(t) = label}

Resample(bars) ==
    [label \in {Label(t) : t \in DOMAIN bars} |->
        LET group == Group(bars, label) IN
        [open |-> bars[Min(group)].open, close |-> bars[Max(group)].close,
         high |-> Max({bars[t].high : t \in group}), low |-> Min({bars[t].low : t \in group})]]

\* Mutant: nothing is trimmed.
TrimmedNever(bars) == bars

\* _trim
Trimmed(bars) ==
    LET kept == {t \in DOMAIN bars : Cardinality({u \in DOMAIN bars : u > t}) < MaxBars} IN
    [t \in kept |-> bars[t]]

\* closed_frame: the bars that start before the one the clock is in.
Closed(bars, size, now) ==
    [t \in {u \in DOMAIN bars : u < BarStart(now, size)} |-> bars[t]]

\* series, and frame: coarse bars are derived again while the store is dirty.
CoarseBars == IF dirty THEN Resample(base) ELSE coarse
CoarseFrame == Closed(CoarseBars, Coarse, clock)
BaseFrame == Closed(base, 1, clock)

Distance(a, b) == IF a > b THEN a - b ELSE b - a

\* A quote: its venue timestamp, its price, and what else is wrong with it: nothing, an
\* impossible value, or a book the gate refuses (crossed, wide, outside the circuit).
Quotes ==
    [stamp : (clock - MaxAge - 1)..(clock + MaxSkew + 1), price : Prices,
     defect : {"none", "impossible", "book"}]

Repeats(q) == lastPrice # Nothing /\ q.stamp = lastStamp /\ q.price = lastPrice

\* Mutant: a quote of any age passes.
ValidQuoteOfAnyAge(q) ==
    /\ q.defect = "none" /\ q.stamp <= clock + MaxSkew
    /\ lastPrice # Nothing =>
         /\ Distance(q.price, lastPrice) <= MaxJump
         /\ ~(Repeats(q) /\ identical >= 2)

\* check_quote, the verdict: a third repetition of one tick is a frozen feed.
ValidQuote(q) ==
    /\ q.defect = "none"
    /\ q.stamp <= clock + MaxSkew /\ clock - q.stamp <= MaxAge
    /\ lastPrice # Nothing =>
         /\ q.stamp >= lastStamp
         /\ Distance(q.price, lastPrice) <= MaxJump
         /\ ~(Repeats(q) /\ identical >= 2)

\* check_quote, the memory: quotes without an impossible value leave their mark, the
\* refused ones too.
Remember(q) ==
    /\ identical' = IF Repeats(q) THEN identical + 1 ELSE 0
    /\ failures' = IF ValidQuote(q) THEN 0 ELSE failures + 1
    /\ IF q.defect = "impossible" THEN UNCHANGED <<lastPrice, lastStamp>>
       ELSE lastPrice' = q.price /\ lastStamp' = q.stamp

\* update_from_tick
Fold(bars, q) ==
    LET start == BarStart(q.stamp, 1)
        folded(bar) == [bar EXCEPT !.high = Max({@, q.price}), !.low = Min({@, q.price}),
                                   !.close = q.price] IN
    Trimmed([t \in DOMAIN bars \union {start} |->
        IF t # start THEN bars[t]
        ELSE IF start \in DOMAIN bars THEN folded(bars[start]) ELSE Bar(q.price)])

\* is_circuit_broken: such a symbol is not asked for again.
CircuitBroken == failures >= MaxFailures

-----------------------------------------------------------------------------
MarketDataInit ==
    /\ clock = FirstTime /\ session = -1
    /\ lastPrice = Nothing /\ lastStamp = 0 /\ identical = 0 /\ failures = 0
    /\ base = NoBars /\ coarse = NoBars /\ dirty = TRUE
    /\ answered = 0

ClockAdvances ==
    /\ clock < LastClock
    /\ clock' = clock + 1
    /\ UNCHANGED <<session, memory, base, coarse, dirty, answered>>

\* warm_up, before the first cycle: history up to now, of one price or the other, the
\* bar that is forming among it or not, and the derived bars with it.
WarmUp ==
    /\ session = -1 /\ base = NoBars
    /\ \E until \in {clock, clock + 1}, p \in Prices :
         LET times == {t \in 0..(until - 1) : InSession(t)} IN
         /\ times # {}
         /\ base' = Trimmed([t \in times |-> Bar(p)])
         /\ coarse' = Resample(base')
    /\ dirty' = FALSE
    /\ UNCHANGED <<clock, session, memory, answered>>

WarmUpFails ==
    /\ session = -1 /\ failures = 0
    /\ failures' = failures + 1
    /\ UNCHANGED <<clock, session, lastPrice, lastStamp, identical, base, coarse, dirty, answered>>

\* reset_session, on the first cycle of a day: the gate forgets.
NewSession ==
    /\ InSession(clock) /\ session # Day(clock)
    /\ session' = Day(clock)
    /\ lastPrice' = Nothing /\ lastStamp' = 0 /\ identical' = 0 /\ failures' = 0
    /\ UNCHANGED <<clock, base, coarse, dirty, answered>>

Scanning == InSession(clock) /\ session = Day(clock) /\ ~CircuitBroken /\ answered < MaxQuotes

\* fetch_quotes and ingest_quote of one cycle.
Ingest ==
    /\ Scanning
    /\ answered' = answered + 1
    /\ \E q \in Quotes :
         /\ Remember(q)
         /\ IF ValidQuote(q) THEN base' = Fold(base, q) /\ dirty' = TRUE
            ELSE UNCHANGED <<base, dirty>>
    /\ UNCHANGED <<clock, session, coarse>>

QuoteFails ==
    /\ Scanning
    /\ answered' = answered + 1 /\ failures' = failures + 1
    /\ UNCHANGED <<clock, session, lastPrice, lastStamp, identical, base, coarse, dirty>>

MarketDataNext ==
    ClockAdvances \/ WarmUp \/ WarmUpFails \/ NewSession \/ Ingest \/ QuoteFails

MarketDataSpec == MarketDataInit /\ [][MarketDataNext]_marketDataVars

-----------------------------------------------------------------------------
MarketDataTypeOK ==
    /\ clock \in FirstTime..LastClock /\ session \in -1..Day(LastClock)
    /\ lastPrice \in Prices \union {Nothing} /\ lastStamp \in (-MaxAge - 1)..(LastClock + MaxSkew + 1)
    /\ {identical, failures} \subseteq 0..(MaxQuotes + 1) /\ answered \in 0..MaxQuotes
    /\ \A t \in DOMAIN base : base[t] \in Bars
    /\ \A t \in DOMAIN coarse : coarse[t] \in Bars
    /\ Cardinality(DOMAIN base) <= MaxBars
    /\ dirty \in BOOLEAN

\* "Bars guaranteed to have closed as of `now`": no bar the features read is still open.
ClosedBarsEnded ==
    /\ \A t \in DOMAIN BaseFrame : t + 1 <= clock
    /\ \A t \in DOMAIN CoarseFrame : t + Coarse <= clock

\* History does not repaint: a bar that is served as closed has ended, and once the
\* oldest quote the gate still takes is younger than its end it never changes, at either
\* timeframe, through late quotes, rejected ones, restarts of the session and rebuilds.
\* Only the oldest coarse bar may, when a part of it is trimmed away.
ClosedBarsFinal ==
    [][LET settled(end) == end + MaxAge <= clock
           kept(label) == Group(base, label) \subseteq DOMAIN base' IN
       /\ ClosedBarsEnded
       /\ \A t \in DOMAIN BaseFrame : settled(t + 1) /\ t \in DOMAIN base' =>
            t \in DOMAIN BaseFrame' /\ BaseFrame'[t] = BaseFrame[t]
       /\ \A t \in DOMAIN CoarseFrame : settled(t + Coarse) /\ kept(t) =>
            t \in DOMAIN CoarseFrame' /\ CoarseFrame'[t] = CoarseFrame[t]
       /\ \A t \in DOMAIN CoarseFrame' :
            CoarseFrame'[t].close = base'[Max(Group(base', t))].close]_marketDataVars

=============================================================================
