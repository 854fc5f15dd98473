-------------------------- MODULE MCKillSwitches --------------------------
(* The loop and one command line (run any number of times), three switches. *)
EXTENDS KillSwitches

CONSTANTS c1, s1, i1
MCCommands == {c1}
MCStrategies == {s1}
MCInstruments == {i1}
MCUsable == {GLOBAL, APPLICATION, Key("strategy", s1)}
=============================================================================
