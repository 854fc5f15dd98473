---------------------------- MODULE MCPositions ----------------------------
(* Prices around two entries, in ticks: the stops, 1R, 1.5R, 2R and beyond.  The *)
(* scenarios with fills behind the loop's back get fewer of them.               *)
EXTENDS Positions

MCPrices == {16, 20, 22, 24, 26, 28, 30}
MCFills == {20, 22}

Meets(faults, prices) == [faults |-> faults, prices |-> prices]

MCScenarios == {Meets({"reprice"}, MCPrices), Meets({"reprice", "restart"}, {20, 22, 26, 28}),
                Meets({"late", "restart"}, {20, 26}), Meets({"manual", "restart"}, {20, 26})}
MCQuiet == {Meets({}, MCPrices)}
MCRestarts == {Meets({"restart"}, {16, 20, 30})}

=============================================================================
