---------------------------- MODULE MCSupervisor ----------------------------
(* Runtime configurations for TLC: the default one and the two other actions. *)
EXTENDS Supervisor

Runtime(action, onShutdown) ==
    [watchdogAction |-> action, squareOffOnShutdown |-> onShutdown, autoSquareOff |-> TRUE]

MCConfigs == {Runtime("halt", FALSE), Runtime("flatten", TRUE), Runtime("alert", FALSE)}
MCFlatten == {Runtime("flatten", FALSE)}

=============================================================================
