------------------------ MODULE DrawdownProtection ------------------------
(***************************************************************************)
(* risk/drawdown.py: the four-level drawdown ladder, the daily-loss pause, *)
(* the losing-streak pause, the cooldown after a loss and the daily trade  *)
(* count.  Everything here is in the memory of one engine process.         *)
(*                                                                         *)
(* Percentages are whole numbers and ratios are compared by cross-         *)
(* multiplication.  The cooldown is the number of minutes it still has to  *)
(* run: 0 stands both for "None" and for an expiry in the past, which      *)
(* in_cooldown treats alike.                                               *)
(***************************************************************************)
EXTENDS Integers

CONSTANTS
    Equities,              \* the account values the broker can report
    Level2Pct,             \* drawdown_level2_pct
    Level3Pct,             \* drawdown_level3_pct
    Level4Pct,             \* drawdown_level4_pct (<= max_portfolio_drawdown_pct)
    MaxDailyLossPct,       \* max_daily_loss_pct
    MaxConsecutiveLosses,  \* max_consecutive_losses
    MaxTradesPerDay,       \* max_trades_per_day
    CooldownMinutes,       \* cooldown_minutes_after_loss
    CounterBound           \* bound: trades counted, and losses in a row

\* RiskConfig's field constraints and its _ladder_is_monotonic validator.
ASSUME RiskConfigAssumption ==
    /\ Equities \subseteq Nat
    /\ Level2Pct \in 1..100 /\ Level3Pct \in 1..100 /\ Level4Pct \in 1..100
    /\ Level2Pct < Level3Pct /\ Level3Pct < Level4Pct
    /\ MaxDailyLossPct \in 1..100
    /\ MaxConsecutiveLosses \in Nat \ {0}
    /\ MaxTradesPerDay \in Nat \ {0}
    /\ CooldownMinutes \in Nat
    /\ CounterBound \in Nat

VARIABLES
    level,        \* state.level
    peak,         \* state.peak_equity
    equity,       \* state.current_equity
    dayStart,     \* state.day_start_equity
    dailyPnl,     \* state.daily_pnl
    losses,       \* state.consecutive_losses
    tradesToday,  \* state.trades_today
    cooldown      \* minutes left until state.cooldown_until

ladderVars == <<level, peak, equity, dayStart, dailyPnl, losses, tradesToday, cooldown>>

-----------------------------------------------------------------------------
NORMAL == 1
REDUCED == 2
PAUSED == 3
SHUTDOWN == 4
Levels == NORMAL..SHUTDOWN

HigherOf(a, b) == IF a >= b THEN a ELSE b

\* state.drawdown_pct >= pct, for peak pk and equity eq.
DrawdownAtLeast(pct, pk, eq) ==
    pk > 0 /\ (pk - eq) * 100 >= pct * pk

\* -state.daily_loss_pct >= pct, for day-start equity ds and daily P&L pnl.
DailyLossAtLeast(pct, ds, pnl) ==
    ds > 0 /\ (-pnl) * 100 >= pct * ds

\* The level the drawdown and the daily loss call for, before the ratchet.
Target(pk, eq, ds, pnl) ==
    LET byDrawdown ==
            IF DrawdownAtLeast(Level4Pct, pk, eq) THEN SHUTDOWN
            ELSE IF DrawdownAtLeast(Level3Pct, pk, eq) THEN PAUSED
            ELSE IF DrawdownAtLeast(Level2Pct, pk, eq) THEN REDUCED
            ELSE NORMAL
    IN  IF DailyLossAtLeast(MaxDailyLossPct, ds, pnl)
          THEN HigherOf(byDrawdown, PAUSED)
          ELSE byDrawdown

\* The drawdown is back under 80% of the threshold that triggers level lv.
ClearedBuffer(lv, pk, eq) ==
    \/ lv = REDUCED /\ (pk <= 0 \/ (pk - eq) * 500 < 4 * Level2Pct * pk)
    \/ lv = PAUSED  /\ (pk <= 0 \/ (pk - eq) * 500 < 4 * Level3Pct * pk)

\* Mutant: the ladder eases as soon as the target is lower.
ApplyLadderNoBuffer(lv, target, pk, eq) == IF lv = SHUTDOWN THEN lv ELSE target

\* _apply_ladder: up at once, down only past the buffer, never out of SHUTDOWN.
ApplyLadder(lv, target, pk, eq) ==
    IF lv # SHUTDOWN /\ (target > lv \/ (target < lv /\ ClearedBuffer(lv, pk, eq)))
      THEN target
      ELSE lv

-----------------------------------------------------------------------------
StartSession(e) ==
    /\ dayStart' = e
    /\ equity' = e
    /\ peak' = HigherOf(peak, e)
    /\ dailyPnl' = 0
    /\ tradesToday' = 0
    /\ cooldown' = 0
    /\ level' = IF level = SHUTDOWN THEN SHUTDOWN ELSE NORMAL
    /\ UNCHANGED losses

UpdateEquity(e) ==
    /\ equity' = e
    /\ peak' = HigherOf(peak, e)
    /\ dailyPnl' = IF dayStart > 0 THEN e - dayStart ELSE dailyPnl
    /\ level' = ApplyLadder(level, Target(peak', e, dayStart, dailyPnl'), peak', e)
    /\ UNCHANGED <<dayStart, losses, tradesToday, cooldown>>

\* Mutant: only losses are counted as trades.
RecordWinUncounted ==
    /\ losses' = 0
    /\ UNCHANGED <<level, peak, equity, dayStart, dailyPnl, tradesToday, cooldown>>

RecordWin ==
    /\ tradesToday < CounterBound
    /\ tradesToday' = tradesToday + 1
    /\ losses' = 0
    /\ UNCHANGED <<level, peak, equity, dayStart, dailyPnl, cooldown>>

RecordLoss ==
    /\ tradesToday < CounterBound /\ losses < CounterBound
    /\ tradesToday' = tradesToday + 1
    /\ losses' = losses + 1
    /\ cooldown' = IF CooldownMinutes > 0 THEN CooldownMinutes ELSE cooldown
    /\ level' = IF losses + 1 >= MaxConsecutiveLosses THEN PAUSED ELSE level
    /\ UNCHANGED <<peak, equity, dayStart, dailyPnl>>

\* Mutant: only level 4 blocks.
CanTradeWhilePaused ==
    /\ level # SHUTDOWN
    /\ cooldown = 0
    /\ tradesToday < MaxTradesPerDay

\* can_trade: neither paused nor shut down, not cooling down, trades left today.
CanTrade ==
    /\ level \in {NORMAL, REDUCED}
    /\ cooldown = 0
    /\ tradesToday < MaxTradesPerDay

EmergencyShutdown ==
    /\ level' = SHUTDOWN
    /\ UNCHANGED <<peak, equity, dayStart, dailyPnl, losses, tradesToday, cooldown>>

ResetShutdown ==
    /\ level = SHUTDOWN
    /\ level' = NORMAL
    /\ losses' = 0
    /\ cooldown' = 0
    /\ UNCHANGED <<peak, equity, dayStart, dailyPnl, tradesToday>>

\* The clock: a minute of the cooldown passes.
PassMinute ==
    /\ cooldown > 0
    /\ cooldown' = cooldown - 1
    /\ UNCHANGED <<level, peak, equity, dayStart, dailyPnl, losses, tradesToday>>

LadderInit ==
    \E e \in Equities :
        /\ level = NORMAL /\ peak = e /\ equity = e /\ dayStart = e
        /\ dailyPnl = 0 /\ losses = 0 /\ tradesToday = 0 /\ cooldown = 0

LadderNext ==
    \/ \E e \in Equities : StartSession(e)
    \/ \E e \in Equities : UpdateEquity(e)
    \/ RecordWin
    \/ RecordLoss
    \/ EmergencyShutdown
    \/ ResetShutdown
    \/ PassMinute

LadderSpec == LadderInit /\ [][LadderNext]_ladderVars

-----------------------------------------------------------------------------
\* Every field has its type; the peak is a high-water mark of the equity.
LadderTypeOK ==
    /\ level \in Levels
    /\ peak \in Nat /\ equity \in Nat /\ dayStart \in Nat
    /\ dailyPnl \in Int
    /\ losses \in Nat /\ tradesToday \in Nat
    /\ cooldown \in 0..CooldownMinutes
    /\ equity <= peak /\ dayStart <= peak

\* A new reading of the equity never leaves the ladder milder than the loss it
\* shows: after it, the level is at least the one the drawdown from the peak and
\* the loss of the day call for (update_equity, _apply_ladder).
LadderCoversLoss ==
    [][\A e \in Equities :
          UpdateEquity(e) => level' >= Target(peak', equity', dayStart', dailyPnl')]_ladderVars

\* Within a session the ladder eases out of REDUCED and PAUSED only when the
\* drawdown is back under 80% of that level's threshold: an equity that hovers
\* around a threshold cannot switch trading on and off.
EasingNeedsRecovery ==
    [][(level \in {REDUCED, PAUSED} /\ level' < level)
          => \/ ClearedBuffer(level, peak', equity')
             \/ \E e \in Equities : StartSession(e)]_ladderVars

=============================================================================
