------------------------- MODULE MCOrderExecution -------------------------
(* Instances of OrderExecution over two minutes. *)
EXTENDS OrderExecution

NoFaults == {}
AllFaults == {"lookupFails", "garbled", "late", "fastRestart"}
LookupFails == {"lookupFails"}
=============================================================================
