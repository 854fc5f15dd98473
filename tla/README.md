# Verification of aqtp

TLA+ models of the options trading platform in `src/`, the TLC runs that check them on
small instances, and theorems about them, proved with TLAPS for every value of their
constants. Source paths below are relative to `src/src/aqtp/` unless they name a file of
the repository's root.

    tlc -workers 2 -config RiskGate.cfg MCRiskGate.tla      # any run of the table below
    tlapm RiskGate_proofs.tla                               # any module of proofs

## 1. The system

One process trades one account. Every cycle it marks the equity, manages its open
positions, asks the risk gate, and enters the opportunities the gate approves. Orders go
through an execution engine, which journals an intent before it sends anything, and a
broker adapter over REST. A supervisor runs the cycles and a watchdog thread looks for a
stalled one. Kill switches live in a file that outlives every process, and that the
operator's command line edits as well.

    supervisor loop --run_cycle--> orchestrator --evaluate--> RiskEngine, DrawdownProtection
         ^  |                        |   |   |
    watchdog|reconnect, start        |   |   +--execute, close_position--> ExecutionEngine
     thread |                        |   +--evaluate, apply--> PositionManager   |  |
         |  +--start/_reconcile----> |                              ^            |  +--> journal
         |                           +--reconcile_positions---------+            |     (SQLite)
         +--engage--> KillSwitchManager --> killswitches.json                    v
    `aqtp kill/resume/stop` ---------^                               GrowwBroker / simulator

### Inventory

| Component | State | Operations | What makes it hard | What makes it correct |
|---|---|---|---|---|
| Risk gate (`risk/drawdown.py`, `risk/engine.py`, `orchestrator.py`) | level, peak, equity, losses, trades today, cooldown (in memory); GLOBAL switch (on disk) | start, rollover, equity mark, record of a trade, gate, entry | exits between the mark and the gate rewrite the level; a restart forgets the ladder; thresholds hit exactly | no entry the drawdown forbids; no easing without recovery; level 4 outlives the process |
| Order execution (`execution/engine.py`, `brokers/groww.py`, `brokers/rest.py`, `journal/`, `execution/reconcile.py`) | idempotency guard, tracked position, `trading_allowed` (memory); intents (SQLite); the broker's book | execute, close_position, lookups, cancel, record, startup / reconnect / periodic reconciliation | lost, late or unreadable answers, partial fills, crashes between any two steps | at most one order per key; nothing unknown while entries go on |
| Kill switches (`risk/killswitch.py`, `cli/main.py`) | records in memory, one JSON file and its temporary file | engage, release, save, load | several processes, crashes inside a save, stale copies | what is engaged survives; the loop never unblocks itself |
| Supervisor (`runtime/supervisor.py`) | stop flag, error counts, last cycle, squared_off | loop, watchdog, reconnect, square-off, shutdown | two threads; blocked calls; a loop that wakes up after the watchdog has acted | a halt holds; a stop is honoured; a stall is noticed |
| Positions (`execution/position_manager.py`, `execution/reconcile.py`, `orchestrator.py`) | tracked positions, their stops and targets; the broker's holding | update, evaluate, apply, exit, reconcile, adopt | prices, partial and late fills, averaging, manual trades, restarts | stops only tighten; secured profit stays; exits are covered by the holding |
| Entries, sizing and portfolio limits (`orchestrator.py`, `options/selector.py`, `risk/sizing.py`, `risk/portfolio.py`, `risk/costs.py`, `signals/expected_value.py`) | the ranked opportunities of a cycle, the portfolio as reported | select, check, size, project, execute, track | a second entry uses limits the first has used up; size from the quote, stop from the fill; the side of a put | every entry leaves the account inside its limits; the stop risks no more than the budget; closed means flat |
| Signals (`signals/ensemble.py`, `scanner/opportunity.py`, `regime/`, `ml/predict.py`, `analysis/`) | none between cycles | weigh votes, blend models, regime and analysis, score | thresholds in sequence, discounts by rank, evidence that is missing or too old | dissent never helps; the analysis only restricts |
| Simulated broker (`brokers/simulated.py`) | order book, position, cash, realized P&L | place, poll, modify, cancel, margin | resting orders, parts, flips through zero, a submission whose answer is lost | the account is what the fills made it; a limit is a limit |
| Manual trading (`execution/manual.py`, `cli/trade.py`) | none of its own: broker, journal, switches | enter, exit, close-all, cancel, modify, set-stop, dry run | a process per command; prompts; exits that fill after the command has ended | exits only reduce |
| Broker session (`brokers/rest.py`, `brokers/groww.py`) | token and its expiry, sliding-window limiter, attempt | check, login, acquire, send, retry | a token that runs out between two tries or while the limiter waits | a refused token has one of two reasons |
| Strategy health (`strategies/health.py`) | recent outcomes, state, pause | record, can_trade, reset | trades that close during a pause | a sentence is served |
| Event calendar (`events/risk.py`) | parsed events, mtime | reload, assess | edits under a running loop, broken or removed files | what is known is heeded |
| Model registry (`ml/registry.py`, `cli/research.py`) | index file, temporary file, a copy per command | register, promote, save | concurrent commands, crashes inside a save | a live model is earned |
| Market data (`data/`) | candles at several timeframes, quality counters, the last price | ingest, resample, trim, closed frames, new session | late and repeated quotes, forming bars, trimmed parts | history does not repaint |
| Research (`backtest/`, `ml/dataset.py`, `ml/train.py`) | positions of a replay, folds, scores | replay a bar, cut folds, judge | stop and target in one bar, gaps, nights inside an embargo | results are not inflated; no fold leaks |
| Configuration and live interlocks (`configuration/`, `cli/main.py`) | settings | load, validate, arm | combinations of flags | real orders only when armed |
| Strategies' rules, features, pricing, statistics; alerts, latency, dashboards | none, or messages | float formulas; throttling | numerical | — |

`PROJECT.json` lists each with its sources, its status and the reason where it is not
modelled, and under `hazards` what is hard to test in the code, each at its line with the
properties that would catch it.

## 2. The modules

| Module | What it models | Composition |
|---|---|---|
| `DrawdownProtection` | the drawdown ladder: update_equity, record_trade, can_trade, cooldown, start_session | — |
| `RiskGate` | the trading loop around the ladder: start, rollover, mark, exits, gate, entries, stop, operator | EXTENDS `DrawdownProtection` |
| `OrderPromise` | abstract: for each idempotency key, intent on disk before the broker has the order, at most one order, and no broker id lost again | — |
| `OrderExecution` | one contract's order path with journal, broker, crash and restart | INSTANCE `OrderPromise` with a refinement mapping |
| `KillSwitches` | several processes, each with its own copy, over one file written in three steps | — |
| `Supervisor` | loop and watchdog threads, time of day, reconnection, shutdown | — |
| `Positions` | the positions in one contract against the broker's holding | — |
| `EntryChecks` | what an entry is checked against: selector, costs and expected value, size, projected limits, margin | — |
| `EntryPipeline` | the entries of a cycle: scan, selection, checks, order, tracked position, exit | EXTENDS `EntryChecks` |
| `MarketEvidence` | regime, forecast and analysis report, each from what was measured | — |
| `SignalEnsemble` | votes, models, regime and analysis combined into one decision, and the scanner's score | EXTENDS `MarketEvidence` |
| `SimulatedBroker` | the paper account | — |
| `ManualTrading` | the operator's trade commands over the broker, one process each | — |
| `BrokerSession` | token, limiter and retries of one adapter | — |
| `StrategyHealth` | one strategy's judgement, pause and disablement | — |
| `EventRisk` | the calendar on disk, its reloads, and the window an entry is told of | — |
| `ModelRegistry` | several research commands over one index file | — |
| `MarketData` | quotes, candles and closed frames of one symbol at two timeframes | — |
| `Backtest` | the bar-by-bar replay | — |
| `WalkForward` | folds, walk-forward windows, scores and verdicts | — |
| `RiskGate_proofs`, `OrderExecution_proofs`, `KillSwitches_proofs`, `Supervisor_proofs`, `Positions_proofs` | the theorems about the module of that name | EXTENDS it and `TLAPS` |
| `Decision_proofs`, `Lifecycle_proofs` | the theorems about the parts of `MCDecision` and `MCLifecycle`, and about the whole | EXTENDS them |
| `Collections_proofs` | lemmas about sums over finite sets, the library's folds, least and largest members, and sequences | EXTENDED by `Positions_proofs`, `Decision_proofs` and `Lifecycle_proofs` |
| `MCX` | constants of the instances of `X` | EXTENDS `X` |
| `MCDecision` | SimulatedBroker, EntryPipeline, SignalEnsemble side by side | EXTENDS them |
| `MCLifecycle` | ManualTrading, BrokerSession, StrategyHealth, EventRisk, ModelRegistry, MarketData, Backtest, WalkForward side by side | EXTENDS them |

Between the modules the interfaces are kept narrow and named:

* **RiskGate – Supervisor.** `CycleFails` and `Stop` of RiskGate are what the supervisor
  does to a cycle; `Gate`, `Evaluate` and `Submit` of Supervisor are what a cycle does
  while the watchdog may interfere.
* **RiskGate – KillSwitches.** RiskGate has the GLOBAL switch as one persistent bit. That
  this bit survives a crash inside a save is EngagedSurvives of KillSwitches.
* **OrderExecution – Positions.** OrderExecution follows one order through the engine and
  the journal; Positions takes what an order may end as (filled, partly filled, with a
  live rest, not filled) and follows the position through the days after.
* **SignalEnsemble – EntryPipeline.** A decision of the ensemble is an opportunity of the
  pipeline: underlying, direction, stop and target move, win probability.
* **StrategyHealth, EventRisk, DrawdownProtection – EntryPipeline.** Each ends as a factor in
  the one risk multiplier of an entry, or as its refusal.
* **OrderExecution – EntryPipeline, ManualTrading.** Both take from OrderExecution what an
  order may end as, and do not repeat its path.
* **MarketData – MarketEvidence.** What the features, the regime and the analysis measure is
  computed from the closed frames of MarketData.

MCDecision and MCLifecycle put parts side by side that share no state: a behaviour chooses its
`subject` at the start and moves that part alone. Nothing is lost by it, since an interleaving of
parts without common variables has no behaviour of a part that the part does not have alone.

### How state and actions correspond to the code

**DrawdownProtection, RiskGate.** `level`, `peak`, `equity`, `dayStart`, `dailyPnl`,
`losses`, `tradesToday`, `cooldown` are fields of DrawdownState. The comparisons of percentages
are made by cross-multiplication over integers, so that the thresholds and the 80 %
buffer are exact. A cycle is `Mark` (_refresh_equity with on_equity_update), one `CloseTrade` for
each position it exits, `Gate` (_entry_blocked), `Enter` for each approved opportunity and
`FinishCycle`; `CycleFails` ends it by an exception at any point. `open` counts
positions, `adopted` those of a former process: their evaluation raises (finding 5), so
they never get as far as record_trade. `killed` is on disk; everything else is lost in `Stop`.

**OrderExecution.** `pc` is where the process is between two externally visible steps: the intent
written, the request sent, its answer, the lookup of the adapter, the lookup of the
engine, polling, cancelling, the record. A key is what make_client_order_id digests: operation,
quantity and minute. `placed`, `filled`, `live`, `inFlight` and `held` are the broker;
`rows` is the journal with the status of each row and whether a broker id was stored
(pending_order_intents selects on both). `Crash` is possible at every `pc`. `Faults` selects
what a run adds: failing lookups, unreadable answers, late arrivals, restarts in the same minute.

**KillSwitches.** `_save` is three steps (truncate the temporary file, write it, rename
it), since a crash between them is what the rename is for. Each process loads the file in its
constructor only, as the code does, and saves its whole copy.

**Supervisor.** One action per step between which the other thread can run: the loop's
`pc` covers the top of the loop, each exit of a square-off, management, gate, each
evaluation and submission, the waiting, reconnection and shutdown; the watchdog's three
steps are the trip, the engage, and the end of the thread. `Block` lets a call stop
returning, and return again.

**Positions.** `book` is PositionManager._positions in the order of insertion (the order decides
which one reconcile keeps for a symbol). `Manage` is update, evaluate and apply for one position;
`ScaleOut` and `Close` choose how much of the order is filled; `ReconcilePositions` is
_reconcile_positions with drop, correction of quantity and of price. `scenario` fixes at the start
which faults a behaviour may meet. The properties are stated over `book`, `held` and `working` (what
a live rest of an order may still fill).

**EntryChecks, EntryPipeline.** `BeginCycle` takes the ranked opportunities of a scan. `Evaluate` is all
of _enter up to the approval of the risk engine, since nothing else of the process runs in it;
`Fill`, `NoFill` and `FillUnknown` are what the order ends as, after the quote may have moved. `net` is
the account, `managed` what the loop tracks, `unknown` what an order of unknown fate has filled.
`seen` is the portfolio as the engine was shown it: empty when get_positions failed.

**MarketEvidence, SignalEnsemble.** SignalEnsemble.combine is a function of the opinions, the
forecast, the report and the regime; each of its early returns is a conjunct of `Passes` or of
`EnoughEvidence`. Actions change one piece of evidence, as the next cycle may, and combine again.

**SimulatedBroker.** `orders` is the book in the order of submission with what was paid for each;
`basis` is quantity times average price, which keeps the average exact over integers. `PollOrder` is
one pass of poll_open_orders over one order.

**ManualTrading.** `desk` is the one command that runs; it has a copy of the account from its start
(`book`) and knows nothing of exits left working (`beside`, history). `crossed` remembers the
contracts of which an order was sent while an exit of it was working.

**BrokerSession.** `request` is the call under way with its stage and attempt, `sends` the
limiter's window, `issued` and `expiry` the token as the broker sees it and as the adapter computed it.

**StrategyHealth.** `sentence` is history: what the judgements so far oblige the strategy to.
**EventRisk.** `file` and `mtime` are the disk, `cache` and `seen` the provider, `lastGood` history.
**ModelRegistry.** `index` and `draft` are the files, each command has its `records`, its `phase` in
a save, and the file its open handle writes to (`target`): a rename moves a file that another
command has open.

**MarketData.** `base` and `coarse` map a bar's label to what it has seen; `dirty` says that the
coarse frame must be rebuilt. **Backtest.** `i` is the bar, `waiting` what fills next, `opened` and
`closed` the trades. **WalkForward.** `fold` is the fold under way as three sets of samples, `score`
what each family has gathered, `conclusion` the verdict.

## 3. The runs

| Run | What it checks | Result |
|---|---|---|
| `RiskGate` | TypeOK, EntriesBounded, NoEntryAfterLevel4, EntryRespectsLadder, GateEasesAfterRecovery | hold, 492,242 states |
| `OrderExecution` | TypeOK, EntriesKnowTheirOrders, refinement of OrderPromise (KeepsPromise) | hold, 425,900 states |
| `OrderExecution_faults` | IntentBeforeSubmit, UnblockedMeansReconciled, under all four faults | hold, 226,533 states |
| `KillSwitches` | TypeOK, EngagedSurvives, LoopStaysBlocked | hold |
| `Supervisor` | TypeOK, HaltStopsEntries, SquaredOffStaysFlat; liveness StopIsHonoured, StallIsNoticed, NeverFailsForever | hold |
| `Positions` | TypeOK, ProfitLocked, ExitsNeverOversell, StopNeverLoosens, ReconciledMatchesBroker | hold, 529,682 states |
| `Decision` | TypeOK, AccountFollowsFills, LimitHonoured; RiskWithinBudget, EntriesWithinLimits; AnalysisOnlyRestricts, DissentOnlyHinders | hold, 395,232 states |
| `Lifecycle` | TypeOK; ManualExitsReduce; RefusalsExplained; SentencesAreServed; CalendarIsHeeded; ActiveIsEarned; ClosedBarsFinal; ResultsNotInflated; NoFoldLeaks | hold, 1,179,653 states |
| `KillSwitches_stop` | StopIsNoticed | violated: finding 3 |
| `Positions_adopted` | AdoptedStaysBounded | violated: finding 5 |
| `Decision_puts` | ClosedMeansFlat | violated: finding 7 |
| `Lifecycle_forming` | ClosedBarsEnded, with the session opening off the coarse grid | violated: finding 8 |

Four more configurations reproduce findings that are settled and not run with the others:
`OrderExecution_exit.cfg` (AmbiguousExitNotRepeated, finding 1), `OrderExecution_lookup.cfg`
(EntriesKnowTheirOrders under a failing lookup, finding 2), `Supervisor_flatten.cfg`
(WatchdogFlattens, finding 4) and `Positions_shared.cfg` (ReconciledMatchesBroker with two positions
in a contract, finding 6).

### Bounds, and why they are enough

* **RiskGate.** Six equities, 180 to 200: with the peak at 200 they sit on the level-4, 3 and 2
  thresholds (180, 186, 192), inside a buffer (189, 195) and at no loss; from lower peaks
  they fall between. Two open positions, two trades a day, two losses, a
  cooldown of one minute: each limit can be met, exceeded by one in the code's own way,
  and met again after a restart. CounterBound 3 caps the counters above every limit; MaxDropped 1
  is one position lost to reconciliation in a session, which is all that EntriesBounded is
  sensitive to (it is linear in it, and proved for every value).
* **OrderExecution.** Two orders of up to two units in two minutes: an entry and its exit, or an
  entry and a second one that must not happen, with partial fills; a crash and a restart in the next
  minute. The faults run has quantity 1, since the faults are about which keys exist and not about
  quantities. The exit run allows a third order, which is the repeated exit.
* **KillSwitches.** The loop, and one command line that can be run again and again, over a
  GLOBAL, an APPLICATION and a strategy switch: two copies and one file are the smallest case of
  a stale copy. The theorems are for any number of processes.
* **Supervisor.** Three configurations that differ in the watchdog's action and in
  square_off_on_shutdown; two positions, two errors, two attempts, so that each loop
  has a first, a last and a repeated iteration. Time of day runs through the four phases again
  and again. Deadlock is not checked: the process ends.
* **Positions.** A long position of four lots entered at 20 or 22, risk 4, reward 12, prices
  at the stop, the entry, 1R, 1.5R and 2R and beyond for these entries. Four lots can be
  halved twice. Scenarios: reprice; reprice with restarts; late fills with restarts; manual
  trades with restarts. The last three get fewer prices. MaxHeld 4 caps what the account may hold.
  The theorems are for all prices and sizes.

* **Decision.** *Paper account:* two orders of up to two lots, three units, so that a fill can add
  to, reduce, close and turn a position; quotes with depth, without, and without a book. Amounts are
  multiples of 12, which keeps every average exact. *Entries:* two calls and a put on two
  underlyings of one group, limits that one entry fits and two do not, budgets that bind before and
  after the multiplier, a stop that is clamped at one tick, a failing report of positions; MaxNet 6
  is one entry more than the limits allow. *Ensemble:* four strategies, two of one family and one of
  none, three distributions of two regimes, five forecasts (one stale, one incomplete), four reports (one vetoed, one
  with too little data).
* **Lifecycle.** *Trade commands:* two contracts, two units: a partial fill, a rest that fills later
  and a second command that meets it. *Session:* seven slots and a token of three, a limiter of one
  per slot and two per two, two retries: a renewal can fall into every wait. *Health:* a lookback of
  three, judged from two, a pause of two minutes in five, two open trades: a trade can close in a
  pause, at its end and after it. *Calendar:* three edits, two calendars, events that overlap.
  *Registry:* two commands and two models of one family, which is the smallest lost update and the
  smallest doubly live family. *Data:* four bars a day, two prices, three kept bars, three quotes:
  late, jumping, identical and missing ones. *Replay:* three bars of nine shapes, stop and target
  inside one bar, gaps on either side. *Folds:* five days with one missing bar, embargoes shorter,
  equal and longer than the horizon and than the night. In `Lifecycle_forming` the session opens at
  a time that is no multiple of the coarse bar, as 09:15 is not of an hour.

### Fairness

Only Supervisor is checked for liveness. Its `Spec` assumes weak fairness of `Loop`, of
the watchdog's step and of `TimeoutPasses`, each while the process has not ended: both are threads the
operating system schedules, and time passes. Nothing is assumed of `Block` (a call need
not return), `RequestStop` (a signal need not arrive) or `Tick` (the market need not
open). StopIsHonoured and StallIsNoticed therefore have a blocked call in their premise
or conclusion, as the code has no timeout of its own around a cycle.

### What the passing runs say

* **Risk gate.** Although a losing exit lowers SHUTDOWN to PAUSED and a restart forgets the ladder,
  no entry follows a level-4 reading until an operator resumes, because the switch is engaged before
  the exits of that cycle run and the process refuses to start while it is engaged. The number of
  entries of a session is bounded by max_trades_per_day plus the positions open, not by
  max_trades_per_day alone.
* **Orders.** With answers that can be read and restarts that leave the minute, the
  broker accepts at most one order for a key, and the process does not allow an entry while there
  is an entry at the broker that its journal does not know the fate of. Whatever the
  network does, the intent is on disk before the request is sent, and allowing entries again
  means that no order at the broker is without a row.
* **Switches.** A crash anywhere inside a save keeps the old file or the new one. A loop
  that its switches block stays blocked while it lives.
* **Supervisor.** After the watchdog's halt the stalled loop sends at most the one order it had
  approved when it wakes up, even though a reconnection sets trading_allowed again.
* **Positions.** As long as the process lives and the position keeps its direction, its stop never
  moves back, whatever reconciliation corrects; profit once secured stays, and with one position per
  contract partial fills and corrections never make the exits sell more than is held.

* **Entries.** Whatever the order of two entries in a cycle, what the risk engine approves leaves
  the account inside every concentration limit at the prices it saw, unless the report of positions
  failed or an order is of unknown fate. The stop that is tracked risks no more than the budget
  although it is set from another price than the size.
* **Ensemble.** A strategy that speaks up against a decision can only weaken it, through family
  discounts, agreement and confidence; the analysis can refuse a decision and reorder the scan,
  never make a trade.
* **Paper account.** Through partial fills, flips and modifications equity is cash plus position at
  the same price.
* **Trade commands.** Exits only reduce, also those that fill long after their command; the
  exception is exactly a contract of which an order was sent while an exit was still working.
* **Session.** A request is refused for its token only in token mode, or when a renewal fell between
  a check and the next look at the clock.
* **Health, calendar, registry.** Sentences are served but for a disablement during a pause; the
  last well-formed calendar holds while the file is broken, but for a restart; lost updates never
  make a model live that did not earn it.
* **Data and research.** With a session that opens on the grid, closed bars are closed and final; a
  replay never pays more than the stop or than the bar it leaves in; a fold leaks only where a label
  crosses more time than the embargo.

## 4. The findings

Each is a configuration that violates one property, quoted from what the code or its documents say
(`PROJECT.json`, `findings`).

1. **An exit of unknown outcome is repeated** (`execution/engine.py:549`). close_position
   gives up after an unresolved lookup, nothing halts, and the next minute's cycle sends the exit
   again under a new key while the first may fill. `docs/ARCHITECTURE.md:148`: "never by resubmitting".
2. **A failing lookup is taken for a refusal** (`brokers/groww.py:744`). The error of the adapter's
   own lookup is a plain BrokerError, execute records FAILED, and entries go on with the order in
   the book.
3. **`aqtp stop` is not noticed** (`risk/killswitch.py:59`). The file is read by the
   constructor only; a loop that is already running never sees a switch another process engages.
4. **The watchdog's flatten flattens nothing** unless square_off_on_shutdown is set as well
   (`runtime/supervisor.py:156`).
5. **An adopted position is sold again and again** (`execution/reconcile.py:370`). Its entry time
   has no zone and the live clock's has; the subtraction raises TypeError in evaluate before the
   stop is managed, and in the orchestrator's _exit after the exit is filled and before untrack. The
   next cycle sells the same quantity again, and the account is short.
6. **Two positions in one contract** (`execution/reconcile.py:163`). Reconciliation sees only
   the last one and corrects it to the whole holding.
7. **A bearish entry sells the put it chose** (`orchestrator.py:665`). The decision SELL becomes the
   side of the order (`execution/engine.py:190`) for the put that `options/selector.py:115` chose to
   be bought; the position is tracked as long (`orchestrator.py:743`), and its exit sells the put
   again.
8. **A forming bar is served as closed** (`data/candles.py:83`). resample labels from midnight,
   bar_start counts from 09:15; at 10, 30 and 60 minutes and a day the bar that forms has a label
   before the one closed_frame excludes. The default regime_timeframe is one hour.

Read in the code while modelling, and not the subject of a run of their own:

* the daily-loss pause has no hysteresis (`risk/drawdown.py:154-165`, against its docstring, lines
  7-10); a losing exit after level 4 lowers SHUTDOWN to PAUSED (line 192, against the comment at
  line 92) — the GLOBAL switch is what still stops entries, and NoEntryAfterLevel4 shows that it is
  enough;
* trades_today counts exits, not entries (EntriesBounded states what does follow from it);
* the idempotency guard is in memory only, so a restart within the minute sends the same key again;
  an accepted order whose answer cannot be parsed is a plain BrokerError; an order that arrives
  after its intent was marked NEVER_SUBMITTED is known to nobody. KeepsPromise excludes the first
  two by assumption, EntriesKnowTheirOrders the last two; the other properties hold with them;
* the periodic reconciliation never allows entries again, although a comment
  (`orchestrator.py:725-726`) says a clean one does;
* two processes that save at the same time lose each other's switches and share one
  temporary file, and `aqtp resume` overwrites what was engaged while its prompt waited;
* emergency_policy and CLOSE_POSITIONS are read by nobody, so `aqtp stop --close-positions` closes
  nothing;
* the watchdog ignores a first cycle that blocks, and trips only once; squared_off is
  never reset, so a process that lives into the next day does not square off again;
  broker errors never reach the limit of consecutive errors;
* *entries:* an entry of unknown fate clears trading_allowed, but the same cycle goes on with its
  next opportunity (`orchestrator.py:335-340`, against the comment at 722-723); get_positions
  failing gives the risk engine an empty portfolio (1037-1040); projected_state recomputes greeks
  with the candidate's underlying only; one regime engine serves all underlyings, so a position is
  managed by the regime of the one scanned last (816);
* *ensemble:* without a model the model's part scores 0.35 (`signals/ensemble.py:219`), more than a
  usable model below a probability of 0.675; min_strategies_agreeing counts strategies, not
  families; a tie goes long; a weak dimension that opposes can raise the conviction of the analysis
  (`analysis/confluence.py:235-250`, against lines 17-18);
* *trade commands:* start() answers True when the state is not safe, and nothing in the session asks
  again; close_all raises after the first fill of an adopted position; an unfilled exit stays
  working (`execution/manual.py:620-624`); an entry is priced on the quote from before the prompt;
  the dry run passes no expected value and so always says that it would not send; set-stop changes
  the memory of a process that ends; an unlisted strike becomes the nearest one;
* *paper account:* cancelling an executed order answers as a success;
* *session:* token mode sets the same expired token again, and an answer 401 never invalidates one;
  auth_mode and the rate limits of the configuration are not used;
* *health:* a strategy that a trade disables during its pause is re-enabled as REDUCED when the
  pause is over (`strategies/health.py:104-108`); reduced_multiplier of the configuration is not
  used, and nothing calls override;
* *calendar:* a file that is malformed when it is first read means no events; close_positions is
  read by nobody; "continue" on one event loosens another that overlaps;
* *registry:* concurrent commands lose updates, and share `registry.tmp`, so that a mixed index can
  be published (against the comment at `ml/registry.py:110`); an index that cannot be parsed loads
  as empty;
* *market data:* a symbol whose breaker has opened is not asked again in its session; a rejected
  jump still moves the baseline;
* *research:* a gap through a stop fills at the stop (`backtest/engine.py`, against its docstring,
  lines 8-19); slippage is charged twice; fill_model and an entry_delay of 0 or 1 make no
  difference; the embargo is time while the horizon is bars; folds without trades are left out of
  the profitable share, so one traded fold of ten passes with 100 %; max() keeps a family whose
  score is NaN if it comes first;
* *interlocks:* DEMO mode submits through the broker without the checks LIVE mode has.

## 5. What is proved

| Theorem | Statement | Argument |
|---|---|---|
| `LadderTypeCorrect`, `LadderCoversEveryLoss`, `EasingOnlyAfterRecovery` | the ladder by itself: types, no reading leaves the level milder than the loss it shows, no easing above the 80 % buffer | each operation separately; arithmetic of the thresholds in lemmas |
| `GateInvariant`, `TypeCorrect`, `SessionEntriesBounded`, `Level4StopsEntries`, `GateEasingRecovered`, `EntriesRespectLadder` | the properties of the run RiskGate | `GateInv` |
| `OrderTypeCorrect`, `JournalInvariant`, `IntentsBeforeSubmits`, `UnblockingIsReconciled` | the journal knows every key at the broker or on its way, under every fault | `JournalInv` |
| `OneOrderInvariant`, `OrderPathKeepsPromise` | at most one order per key; the detailed path implements OrderPromise | `OneOrderInv`, assuming `KeysNeverReused` |
| `UnknownEntriesHalt` | an entry of unknown fate stops entries | `EntryInv`, assuming `AnswersDependable` |
| `SwitchTypeCorrect`, `BlockedLoopStaysBlocked`, `SwitchesSurvive` | the properties of the run KillSwitches, for any number of processes | `AloneInv` |
| `SupervisorTypeCorrect`, `WatchdogHaltSticks`, `SquareOffHolds` | the safety properties of the run Supervisor | `HaltInv`, `FlatInv` |
| `PositionsTypeCorrect`, `StopsNeverLoosen`, `SecuredProfitStays`, `ExitsStayCovered`, `ReconciliationMatches` | the properties of the run Positions | `AllLocked`, `Covered`; the last two assume `MaxPositions = 1` |
| `PaperInvariant`, `AccountAddsUp`, `LimitsHonoured` | AccountFollowsFills and LimitHonoured, for any quotes, sizes, slippage and number of orders | `PaperInv`, `Balanced`; the second assumes `[]AverageIsExact` |
| `EntryRiskBudgeted`, `EntriesKeepLimits` | RiskWithinBudget and EntriesWithinLimits, for any contracts, limits and multipliers | `EntryInv` of Decision_proofs |
| `AnalysisRestricts`, `DissentNeverHelps` | AnalysisOnlyRestricts and DissentOnlyHinders, for any strategies, families, weights, models, reports and gates | `EnsembleInv`; monotonicity of the evidence |
| `DecisionImplementsParts`, `DecisionSafe` | MCDecision implements the specification of each part; TypeOK and the invariants of the run Decision | the theorems above |
| `DeskInvariant`, `ManualExitsOnlyReduce`, `DeskTypesKept` | ManualExitsReduce, for any contracts and sizes | `DeskInv` |
| `RefusalsAreExplained` | RefusalsExplained, for every lifetime of the token, limit, window and number of retries | `SessionInv` |
| `SentenceInvariant`, `SentencesServed`, `HealthTypesKept` | SentencesAreServed, for every threshold, lookback, pause and history | `HealthInv` |
| `CalendarHeeded` | CalendarIsHeeded, for any calendars, edits, broken files and restarts | `CalendarInv` |
| `RegistryInvariant`, `LiveModelsAreEarned` | ActiveIsEarned, for any number of commands and models | `RegistryInv` |
| `MarketDataTypes`, `HistoryDoesNotRepaint` | ClosedBarsFinal, for every timeframe, skew and history of quotes | `MarketDataInv`; the second assumes `OpensOnGrid` |
| `NothingInflated` | ResultsNotInflated, for every frame of bars, delay and cost | `BacktestInv` |
| `NothingLeaks` | NoFoldLeaks, for any number of bars, folds and families | `WalkInv` |
| `PartsImplemented`, `LifecycleSafe` | MCLifecycle implements the specification of each part; TypeOK and the invariants of the run Lifecycle | the theorems above |

The inductive invariants, and why the properties are not inductive alone:

* **GateInv.** "No entry after level 4" needs that a breach implies the switch, and that the
  process never enters with the switch engaged. "Entries respect the ladder" needs that between
  the mark and the end of the cycle the level covers the last reading, or is at PAUSED at least:
  exits of the cycle rewrite the level but only so. The bound on entries needs the
  equation between entries, open positions, recorded trades and dropped positions.
* **JournalInv.** A key at the broker has a row only because the process had written it before
  it reached the state it submits from; BusyHasRow carries that through the submission.
* **OneOrderInv.** A key that was sent is spent: its minute is over, or this process has it in
  its guard, or no process runs, and the next one starts in a later minute. That is where
  the assumption is needed: with a restart inside the minute, or an unreadable answer that releases
  the key, two orders under one key are possible.
* **EntryInv** (OrderExecution). While entries are allowed the only entry order that the journal has no id of is the
  one being looked up, and a lookup by the engine follows only when the adapter found nothing.
* **AloneInv.** With one process at a time the file is the engaged set, and the copy in memory is
  the file with the change being saved.
* **AllLocked, Covered.** Every step lets a position be *followed* by one whose stop is no worse and
  that has secured what it had secured; the lemmas about RemoveAt give it for the whole book.
  Covered adds that nothing is left working and that what is tracked is long, held and not adopted.
* **RegistryInv.** ActiveIsEarned speaks of the index, but the next index is what some command has
  in memory or in the temporary file: all of them must be *sound*, that is, hold only ACTIVE models
  that passed and were in PAPER, one of a family. Overwriting exchanges one sound set for another,
  which is why lost updates do no harm here.
* **HealthInv.** State and pause must *agree* with the sentence at every minute; in particular a
  barred strategy that is not DISABLED had a pause left over, which is the exception
  SentencesAreServed names. How expectancies compare is never expanded.
* **DeskInv.** Of a contract that was not crossed, what works fits into what is held with the
  opposite sign, and what a command knows of it is either spent or exactly what is held, with
  nothing working.
* **PaperInv, Balanced.** What is held is the sum over all orders of what each has filled, and
  starting cash with the realized profit less the basis is the cash. AccountFollowsFills states the
  first by a fold over the book: `FoldIsNet` shows that the fold is a sum over a finite set, from
  which the change of one order can be taken out (`SumTakesOut`). A fill through zero is one step
  with two of these changes.
* **EntryInv** (EntryPipeline). What is approved carries the quote it was sized by and the limits it
  was projected to; between approval and fill only the quote moves. That is why the limits hold at
  the prices the engine saw, and why RiskWithinBudget has a second case: where the distance of the
  stop is all of the price, the stop ends at one tick or at the distance of the fill from the last
  price, and that distance comes on top of the budget. Without that case the
  property is false: with all of the price at risk and a fill above the last price, the stop rises to
  the distance between the two and no more.
* **EnsembleInv.** The verdict is what the evidence of the moment gives. DissentOnlyHinders then is a
  statement about one function at two arguments. The evidence of a side is a sum over families of
  discounted weights by rank: `RankWeights` shows that the weight of each rank grows with the
  members, `FamilyGrows` and `SideScoreGrows` carry it to the sum, `DecisionStandsWithout` through the
  gates (a favoured side stays favoured, agreement and confidence only grow) and `ConfidenceFalls`
  through the one quotient.
* **SessionInv.** A request on its way has a token of this day, or one that was pasted, or the 06:00
  since came while it waited (`spansRenewal`); a login token that still counts was issued this day or
  was overtaken in the same way; no token is good for longer than the next 06:00.
* **CalendarInv.** A provider that has read the file as it is has the last well-formed calendar in its
  cache. A broken file changes the time of the file and not the cache, which is the other half of
  CalendarIsHeeded.
* **MarketDataInv.** Both frames are finite series, and unless the coarse one is marked dirty it is the
  resampled base frame. ClosedBarsFinal follows for each kind of step: a quote that the gate takes
  is not older than MaxAge, so the bar it changes is not settled; and with `OpensOnGrid` the coarse bar
  that resample puts it into is the one that is closed by the clock at the same moment.
* **BacktestInv.** What waits was signalled on this bar or before; what is open was signalled before the
  bar it was entered on, at a price no better than its open; what is closed has an exit.
* **WalkInv.** The parts of the fold are samples of the index and keep apart (`Keeps`). It holds over all
  three ways of making folds because each puts the parts in order and at least an embargo between
  them.

`Collections_proofs` does by hand what the library's induction theorems cannot be used for: a fact
about all finite sets is shown by taking the least number of elements at which it fails
(`LeastNumber`). Sums in the model are therefore written as folds over a *function* (SumFunction), of
which `FunctionSum` shows that they do not depend on the order.

The hypotheses, which are assumptions of the theorem and not of the model:

* `KeysNeverReused`, `AnswersDependable`: a restart leaves the minute of its keys, and the adapter's
  answers can be read. `OrderExecution_lookup.cfg` shows what happens without.
* `MaxPositions = 1`: one position is tracked in a contract. `Positions_shared.cfg` shows what happens
  with two.
* `[]AverageIsExact`: amounts are in a unit in which the average price is a whole number. Rounding is
  the model's and not the code's, whose prices are floats; the hypothesis holds in every state of the
  run Decision.
* `OpensOnGrid`: the coarser bar divides the day and the session opens at a multiple of it. It is so
  for the bars of 3, 5 and 15 minutes of a session that opens at 09:15, and not at 10, 30 and 60
  minutes: `Lifecycle_forming` shows what happens there.

Only model-checked: the liveness properties StopIsHonoured, StallIsNoticed and NeverFailsForever,
since fairness and ENABLED are out of reach of the prover. Every other property of a run that passes
is stated by a theorem above.

## 6. Abstractions worth knowing

* Quantities, prices and money are small integers; percentages are exact. Rounding to ticks
  and the float tolerance of a price mismatch are left out.
* RiskGate has no market data and no sizing: which opportunity is offered, and whether another
  control refuses it, is a nondeterministic choice. Only controls that depend on the modelled state
  are guards.
* OrderExecution has one contract and one position at a time; Positions has one contract with up to
  MaxPositions positions. Exits in Positions may have any reason, since ten of the twelve are
  conditions over market data; the stop and the target also decide that a position is *not* exited.
* A crash in OrderExecution loses memory and keeps the journal: SQLite commits are atomic.
* Supervisor leaves out the cancellation of open orders at shutdown and the heartbeat files.

* EntryChecks and EntryPipeline take what a percentage of the equity allows as a constant amount,
  and delta and vega for all four greeks, which are checked alike. Costs are one amount per order
  and a rate per leg.
* SignalEnsemble computes in hundredths with division rounded down; the code's floats may differ
  from it by the rounding at a threshold. The properties compare two results of the same rounding.
* Backtest takes spread, slippage and fees as amounts, not fractions; WalkForward scores a fold by
  one of two results.
* ManualTrading takes the price, the margin and the answer of the risk engine to a manual entry as
  any size up to what was asked.
* The validated sections of the configuration are assumptions of the modules that use them; their
  defaults and the loader are not modelled.

Not modelled, and why: the strategies' rules, the features, option pricing and the statistics of the
analyses are float formulas without state; so are the models that are trained and the metrics of
research. Alerts, latency, dashboards, logging and deployment are messages and I/O that nothing in
the trading path waits for. The drift monitor and the allocation weights are called by nothing.

## 7. Plan

In the order of what can lose money:

1. The live interlock (`configuration/loader.py`, `cli/main.py`): which combinations of mode, flags
   and arming submit real orders, with the environment overrides.
2. EntryPipeline with two underlyings that share a RiskGate: the ladder's and the calendar's
   multipliers as they change between two entries.
3. Theorems: that Supervisor's view of a cycle is implemented by RiskGate's; that reconciliation
   corrects the *last* of several positions to what the broker holds, for any number of them.
4. Order modification and several contracts in OrderExecution; the limiter's lock with several callers.
