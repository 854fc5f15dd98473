---------------------------- MODULE MCRiskGate ----------------------------
(***************************************************************************)
(* A small instance of RiskGate: readings of the equity at each threshold  *)
(* of a peak of 200 (levels 2, 3, 4 at 192, 186, 180, the loss of the day  *)
(* at 194) and in the bands between them.                                  *)
(***************************************************************************)
EXTENDS RiskGate

MCEquities == {180, 186, 189, 192, 195, 200}
=============================================================================
