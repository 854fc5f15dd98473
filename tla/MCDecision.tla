----------------------------- MODULE MCDecision -----------------------------
(***************************************************************************)
(* Small instances of what leads to an order and of the account that stands*)
(* in for the broker: the signal ensemble, the entries of the loop and the *)
(* paper account.  They share no state, so a behaviour moves one of them,  *)
(* its subject.                                                            *)
(***************************************************************************)
EXTENDS SimulatedBroker, EntryPipeline, SignalEnsemble

VARIABLE subject

decisionVars == <<paperVars, entryVars, ensembleVars, subject>>

\* The paper account: two-sided books with and without depth, and none at all.
MCQuotes ==
    {[bid |-> 96, ask |-> 120, last |-> 108, depth |-> Absent],
     [bid |-> 144, ask |-> 168, last |-> 156, depth |-> 1],
     [bid |-> Absent, ask |-> Absent, last |-> 120, depth |-> Absent]}

\* The names of references do not matter.
MCSymmetry == Permutations(References)

\* The entries: two calls and a put on two underlyings of one group.
MCContracts == {"nifty_ce", "nifty_pe", "mid_ce"}
MCUnderlyingOf == [nifty_ce |-> "NIFTY", nifty_pe |-> "NIFTY", mid_ce |-> "MIDCPNIFTY"]
MCGroupOf == [u \in {"NIFTY", "MIDCPNIFTY"} |-> "broad_index"]
MCOptionOf == [nifty_ce |-> "CE", nifty_pe |-> "PE", mid_ce |-> "CE"]
MCDeltaOf == [nifty_ce |-> 50, nifty_pe |-> -50, mid_ce |-> 50]
MCVegaOf == [c \in MCContracts |-> 10]
MCMarketQuotes ==
    {[bid |-> 99, ask |-> 101, last |-> 100, volume |-> 1000],
     [bid |-> 60, ask |-> 61, last |-> 60, volume |-> 1000]}
Opportunity(u, d, stop, target) ==
    [underlying |-> u, direction |-> d, stopMove |-> stop, targetMove |-> target, winPct |-> 60]
MCOpportunities ==
    {Opportunity("NIFTY", "LONG", 40, 100), Opportunity("NIFTY", "SHORT", 40, 100),
     Opportunity("MIDCPNIFTY", "LONG", 140, 400),  \* its stop is clamped at one tick
     Opportunity("NIFTY", "LONG", 40, 60)}         \* too little reward for its risk
MCMargins == {[available |-> 1000, used |-> 0], [available |-> 500, used |-> 100]}

\* The ensemble: two strategies of a family, one of another and one of none.
MCStrategies == {"trend", "vwap", "reversion", "expiry"}
MCFamilyOf == [trend |-> "trend_family", vwap |-> "trend_family",
               reversion |-> "reversion_family", expiry |-> Alone]
MCStopDistance == [trend |-> 10, vwap |-> 20, reversion |-> 10, expiry |-> 20]
MCDiscountAt == <<100, 60, 36, 22>>
MCFitOf ==
    [trend |-> [trending |-> 100, range |-> 10, uncertain |-> 0],
     vwap |-> [trending |-> 80, range |-> 80, uncertain |-> 0],
     reversion |-> [trending |-> 0, range |-> 100, uncertain |-> 0],
     expiry |-> [trending |-> 100, range |-> 80, uncertain |-> 0]]
Likely(trending, range, entropy) ==
    [probabilities |-> [trending |-> trending, range |-> range], entropy |-> entropy]
MCDistributions == {Likely(90, 10, 47), Likely(20, 80, 72), Likely(50, 50, 100)}

\* Models that agree on a side, one that is loaded alone, two that both see an edge, and
\* features that are too old.
Forecaster(p, u) == [probability |-> p, uncertainty |-> u]
Served(age, long, short) ==
    [age |-> age, complete |-> TRUE,
     models |-> [d \in {Long, Short} |-> IF d = Long THEN long ELSE short]]
MCServings ==
    {Served(0, Forecaster(95, 4), Forecaster(40, 4)), Served(0, NoModel, Forecaster(55, 10)),
     Served(0, Forecaster(62, 4), Forecaster(60, 4)), Served(9, Forecaster(95, 4), NoModel),
     [Served(0, Forecaster(95, 4), NoModel) EXCEPT !.complete = FALSE]}

\* Four dimensions that agree, a conflict, too few that report, and a veto.
Dim(score, confidence) == [score |-> score, confidence |-> confidence]
Dims(trend, flow, positioning, statistical) ==
    [trend |-> trend, orderflow |-> flow, positioning |-> positioning, statistical |-> statistical]
MCDimensionWeight == Dims(16, 16, 14, 10)
MCVetoLimit == [spread |-> 2, toxicity |-> 0, jump |-> 5]
Quiet == [spread |-> 1, toxicity |-> 0, jump |-> 2]
MCReadings ==
    {[dims |-> Dims(Dim(95, 100), Dim(90, 100), Dim(95, 100), Dim(60, 60)), measures |-> Quiet],
     [dims |-> Dims(Dim(-95, 100), Dim(-90, 100), Dim(-95, 100), Dim(60, 60)), measures |-> Quiet],
     [dims |-> Dims(Dim(80, 100), Dim(70, 0), Dim(0, 0), Dim(0, 0)), measures |-> Quiet],
     [dims |-> Dims(Dim(95, 100), Dim(90, 100), Dim(95, 100), Dim(60, 60)),
      measures |-> [Quiet EXCEPT !.jump = 6]]}
MCScannerWeights ==
    [strategy |-> 20, ml |-> 20, analysis |-> 20, regime_fit |-> 12, liquidity |-> 12,
     expected_return |-> 8, execution_quality |-> 8]
MCExecution == [liquidity |-> 60, quality |-> 70]

-----------------------------------------------------------------------------
DecisionInit ==
    /\ PaperInit /\ EntryInit /\ EnsembleInit
    /\ subject \in {"paper", "entry", "ensemble"}
    /\ subject # "ensemble" => distribution = Likely(90, 10, 47)

DecisionNext ==
    /\ UNCHANGED subject
    /\ \/ subject = "paper" /\ PaperNext /\ UNCHANGED <<entryVars, ensembleVars>>
       \/ subject = "entry" /\ EntryNext /\ UNCHANGED <<paperVars, ensembleVars>>
       \/ subject = "ensemble" /\ EnsembleNext /\ UNCHANGED <<paperVars, entryVars>>

DecisionSpec == DecisionInit /\ [][DecisionNext]_decisionVars

\* Each part's type invariant.
TypeOK == PaperTypeOK /\ EntryTypeOK /\ EnsembleTypeOK

=============================================================================
