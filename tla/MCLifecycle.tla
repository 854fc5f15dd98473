---------------------------- MODULE MCLifecycle ----------------------------
(***************************************************************************)
(* Small instances of what surrounds the trading loop, from the evidence a *)
(* strategy is admitted on to what the operator does by hand: folds,       *)
(* replays, the model registry, market data, the broker session, strategy  *)
(* health, the event calendar and the trade commands.  They share no       *)
(* state, so a behaviour moves one of them, its subject, and the others    *)
(* rest in one of their initial states.                                    *)
(***************************************************************************)
EXTENDS ManualTrading, BrokerSession, StrategyHealth, EventRisk, ModelRegistry,
        MarketData, Backtest, WalkForward

VARIABLE subject

Subjects == {"desk", "session", "health", "events", "registry", "data", "replay", "folds"}

lifecycleVars ==
    <<deskVars, sessionVars, healthVars, eventVars, registryVars, marketDataVars,
      backtestVars, walkVars, subject>>

\* The trade commands and the registry: contracts, processes and models are
\* interchangeable.
MCSymmetry ==
    Permutations(DeskContracts) \union Permutations(Commands) \union Permutations(Models)

\* Strategy health: R multiples in hundredths.
MCOutcomes == {-100, -30, 10, 100}
MCReduceBelow == -5
MCPauseBelow == -20
MCDisableBelow == -40

\* The calendar: a market-wide event beside one of a stock, and two that overlap.
Event(at, impact, scope) == [at |-> at, impact |-> impact, scope |-> scope]
MCCalendars ==
    {{Event(2, 2, "market"), Event(3, 1, "TCS")}, {Event(1, 0, "TCS"), Event(3, 2, "TCS")}}

\* The registry: two models of one family.
MCFamilyOf == [m \in Models |-> "boosting"]

\* The replay: quiet, rising, falling and wide bars, and opens on either side of a stop.
FrameBar(open, high, low, close) == [open |-> open, high |-> high, low |-> low, close |-> close]
MCFrameBars ==
    {FrameBar(8, 8, 8, 8), FrameBar(8, 10, 6, 8), FrameBar(8, 12, 8, 12), FrameBar(10, 12, 6, 10),
     FrameBar(12, 12, 6, 6), FrameBar(6, 6, 6, 6), FrameBar(12, 12, 12, 12),
     FrameBar(10, 10, 8, 8), FrameBar(6, 12, 6, 10)}

\* The folds: what one may score, in R.
MCFoldResults == {-1, 2}

-----------------------------------------------------------------------------
LifecycleInit ==
    /\ subject \in Subjects
    /\ DeskInit /\ HealthInit /\ RegistryInit /\ MarketDataInit
    /\ SessionInit /\ (subject # "session" => authMode = "token")
    /\ (subject # "registry" => passing = Models)
    /\ EventInit
    /\ subject # "events" => file = Missing /\ highAction = "block_new"
    /\ BacktestInit
    /\ subject # "replay" => delay = 0 /\ fillModel = "next_bar_open"
    /\ WalkInit
    /\ subject # "folds" => method = "replay" /\ bars = SessionTimes
                            /\ horizon = 1 /\ embargo = 1 /\ step = 1

LifecycleNext ==
    /\ UNCHANGED subject
    /\ \/ subject = "desk" /\ DeskNext
            /\ UNCHANGED <<sessionVars, healthVars, eventVars, registryVars, marketDataVars,
                           backtestVars, walkVars>>
       \/ subject = "session" /\ SessionNext
            /\ UNCHANGED <<deskVars, healthVars, eventVars, registryVars, marketDataVars,
                           backtestVars, walkVars>>
       \/ subject = "health" /\ HealthNext
            /\ UNCHANGED <<deskVars, sessionVars, eventVars, registryVars, marketDataVars,
                           backtestVars, walkVars>>
       \/ subject = "events" /\ EventNext
            /\ UNCHANGED <<deskVars, sessionVars, healthVars, registryVars, marketDataVars,
                           backtestVars, walkVars>>
       \/ subject = "registry" /\ RegistryNext
            /\ UNCHANGED <<deskVars, sessionVars, healthVars, eventVars, marketDataVars,
                           backtestVars, walkVars>>
       \/ subject = "data" /\ MarketDataNext
            /\ UNCHANGED <<deskVars, sessionVars, healthVars, eventVars, registryVars,
                           backtestVars, walkVars>>
       \/ subject = "replay" /\ BacktestNext
            /\ UNCHANGED <<deskVars, sessionVars, healthVars, eventVars, registryVars,
                           marketDataVars, walkVars>>
       \/ subject = "folds" /\ WalkNext
            /\ UNCHANGED <<deskVars, sessionVars, healthVars, eventVars, registryVars,
                           marketDataVars, backtestVars>>

LifecycleSpec == LifecycleInit /\ [][LifecycleNext]_lifecycleVars

\* The type invariant of the part that moves.
TypeOK ==
    /\ subject = "desk" => DeskTypeOK
    /\ subject = "session" => SessionTypeOK
    /\ subject = "health" => HealthTypeOK
    /\ subject = "events" => EventTypeOK
    /\ subject = "registry" => RegistryTypeOK
    /\ subject = "data" => MarketDataTypeOK
    /\ subject = "replay" => BacktestTypeOK
    /\ subject = "folds" => WalkTypeOK

=============================================================================
