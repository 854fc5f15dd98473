------------------------------ MODULE Backtest ------------------------------
(***************************************************************************)
(* backtest/engine.py: the bar-by-bar replay.  Each bar fills what is      *)
(* pending, manages the open positions against its range, then asks for a  *)
(* signal.  Prices are integers; spread, slippage and fees, which the code *)
(* takes as fractions of the price, are constant amounts.                  *)
(***************************************************************************)
EXTENDS Integers, FiniteSets, FiniteSetsExt

CONSTANTS
    FrameBars,            \* bars the frame may have, of prices that are multiples of Tick
    Tick, LowestPrice,
    HalfSpread, Slippage, Fee,
    Capital, RiskFraction, \* equity, and the part of it (1/RiskFraction) a trade may risk
    CapitalFraction,       \* ... and commit
    LotSize,
    Risks, Rewards, Holdings,  \* of a signal: distance of its stop, its target; bars
    Delays, FillModels,        \* values of latency_bars + entry_delay_bars and fill_model
    MaxSimultaneous,
    SessionEnds,               \* bars at or after 15:15
    ExpiryBar, LastBar         \* bound: bars of the frame

MinOf(a, b) == IF a < b THEN a ELSE b
MaxOf(a, b) == IF a > b THEN a ELSE b

\* BacktestConfig
BacktestConfig ==
    /\ Capital \in Nat \ {0} /\ Delays \subseteq Nat
    /\ FillModels \subseteq {"next_bar_open", "current_close", "mid_plus_slippage"}

ASSUME BacktestAssumption ==
    /\ BacktestConfig
    /\ Risks \cup Rewards \cup Holdings \subseteq Nat
    /\ {Tick, LotSize, RiskFraction, CapitalFraction, LastBar, ExpiryBar} \subseteq Nat \ {0}
    /\ {HalfSpread, Slippage, Fee, MaxSimultaneous} \subseteq Nat
    /\ LowestPrice \in Nat \ {0}
    /\ \A b \in FrameBars :
         /\ b \in [open : Nat, high : Nat, low : Nat, close : Nat]
         /\ b.low <= MinOf(b.open, b.close) /\ MaxOf(b.open, b.close) <= b.high
         /\ b.open % Tick = 0 /\ b.open >= LowestPrice

VARIABLES
    delay, fillModel,   \* the configuration of the run
    i,                  \* bars replayed
    funds,              \* equity: initial capital and the net results
    waiting,            \* pending, at most one entry: a set
    opened,             \* open_positions: a bar opens one at most, so that no two are equal
    closed              \* the trades the last bar closed

backtestVars == <<delay, fillModel, i, funds, waiting, opened, closed>>

Signals == [sign : {1, -1}, risk : Risks, reward : Rewards, holding : Holdings]

\* round(price / tick) * tick: to the nearest tick, a half to the even one.
RoundTick(price) ==
    LET q == price \div Tick
        r == price % Tick IN
    (IF 2 * r < Tick \/ (2 * r = Tick /\ q % 2 = 0) THEN q ELSE q + 1) * Tick

\* _open_position: filled at the open, worsened; stop and target move with the fill.
FillPrice(open, sign) == MaxOf(LowestPrice, RoundTick(open + sign * (HalfSpread + Slippage)))

LotsFor(price, risk) ==
    MinOf((funds \div RiskFraction) \div (risk * LotSize),
          (funds \div CapitalFraction) \div (price * LotSize))

Opened(w, b) ==
    LET s == w.signal
        fill == FillPrice(b.open, s.sign) IN
    [sign |-> s.sign, entry |-> fill,
     stop |-> fill - s.sign * s.risk, target |-> fill + s.sign * s.reward,
     quantity |-> LotsFor(fill, s.risk) * LotSize,
     holding |-> s.holding, entryBar |-> i + 1,
     signalBar |-> w.signalBar, entryOpen |-> b.open]    \* history

\* run, step 1: what is due is filled, unless too many are open or no lot fits.
Due == {w \in waiting : w.fillBar <= i + 1}
Fillable(b) ==
    {w \in Due : /\ Cardinality(opened) < MaxSimultaneous
                 /\ w.signal.risk > 0
                 /\ LotsFor(FillPrice(b.open, w.signal.sign), w.signal.risk) >= 1}
WithFills(b) == opened \union {Opened(w, b) : w \in Fillable(b)}

Reaches(p, b, level) ==   \* the bar trades at the level or beyond it, against or for p
    [stop |-> IF p.sign = 1 THEN b.low <= level ELSE b.high >= level,
     target |-> IF p.sign = 1 THEN b.high >= level ELSE b.low <= level]

\* The exits that do not depend on a level, at the close.
TimedOut(p) ==
    \/ p.holding > 0 /\ (i + 1) - p.entryBar >= p.holding
    \/ i + 1 >= ExpiryBar
    \/ i + 1 \in SessionEnds
    \/ i + 1 = LastBar

NoExit == -1

\* Mutant: when one bar reaches both levels the target is taken.
TargetFirst(p, b) ==
    IF Reaches(p, b, p.target).target THEN p.target
    ELSE IF Reaches(p, b, p.stop).stop THEN p.stop
    ELSE IF TimedOut(p) THEN b.close ELSE NoExit

\* _check_exit: "the stop is assumed to fill first".
CheckExit(p, b) ==
    IF Reaches(p, b, p.stop).stop THEN p.stop
    ELSE IF Reaches(p, b, p.target).target THEN p.target
    ELSE IF TimedOut(p) THEN b.close ELSE NoExit

\* _close_position: the exit crosses the spread and slips; the slippage of both legs is
\* deducted once more from the result.
Realized(price, sign) == price - sign * (HalfSpread + Slippage)
Net(p, price) ==
    p.quantity * (p.sign * (Realized(price, p.sign) - p.entry) - 2 * Fee - 2 * Slippage)

Trade(p, b) ==
    [position |-> p, exit |-> CheckExit(p, b), net |-> Net(p, CheckExit(p, b)), bar |-> b]

\* The bar a signal of this bar is meant for.
FillBar == IF fillModel = "next_bar_open" THEN (i + 1) + MaxOf(1, delay) ELSE i + 1

-----------------------------------------------------------------------------
BacktestInit ==
    /\ delay \in Delays /\ fillModel \in FillModels
    /\ i = 0 /\ funds = Capital
    /\ waiting = {} /\ opened = {} /\ closed = {}

\* One turn of the loop of run, over the bar b.
Replay(b) ==
    LET held == WithFills(b)
        exits == {p \in held : CheckExit(p, b) # NoExit}
        asks == Cardinality(held \ exits) < MaxSimultaneous /\ waiting \ Due = {} IN
    /\ i < LastBar
    /\ i' = i + 1
    /\ opened' = held \ exits
    /\ closed' = {Trade(p, b) : p \in exits}
    /\ funds' = funds + MapThenSumSet(LAMBDA p : Net(p, CheckExit(p, b)), exits)
    /\ \/ waiting' = waiting \ Due
       \/ /\ asks /\ FillBar <= LastBar
          /\ \E s \in Signals :
               waiting' = {[signal |-> s, fillBar |-> FillBar, signalBar |-> i + 1]}
    /\ UNCHANGED <<delay, fillModel>>

BacktestNext == \E b \in FrameBars : Replay(b)

BacktestSpec == BacktestInit /\ [][BacktestNext]_backtestVars

-----------------------------------------------------------------------------
BacktestTypeOK ==
    /\ i \in 0..LastBar /\ funds \in Int
    /\ delay \in Delays /\ fillModel \in FillModels
    /\ Cardinality(waiting) <= 1 /\ Cardinality(opened) <= MaxSimultaneous
    /\ \A w \in waiting : w.signal \in Signals /\ w.signalBar <= i
    /\ \A p \in opened : p.entryBar <= i /\ p.quantity > 0
    /\ \A t \in closed : t.exit # NoExit

\* Nothing invents profit that could not be captured: a trade is entered on a later bar
\* than the one its signal saw and no better than at its open; a bar that reaches the
\* stop never pays more than the stop, whatever else it reaches; and no trade earns more
\* than from that open to the best price of the bar it leaves in.  One case is left out:
\* a bar that opens beyond the stop is left at the stop, though it never traded there.
ResultsNotInflated ==
    \A t \in closed :
        LET p == t.position
            best == IF p.sign = 1 THEN t.bar.high ELSE t.bar.low
            gap == p.sign * (t.bar.open - p.stop) < 0 IN
        /\ p.signalBar < p.entryBar
        /\ p.sign * (p.entry - p.entryOpen) >= 0
        /\ Reaches(p, t.bar, p.stop).stop => p.sign * (t.exit - p.stop) <= 0
        /\ gap \/ t.net <= p.quantity * p.sign * (best - p.entryOpen)

=============================================================================
