-------------------------------- MODULE MCPacer --------------------------------
(***************************************************************************)
(* Three audit tasks, with a short and a long penalty.                     *)
(***************************************************************************)
EXTENDS Pacer

CONSTANTS w1, w2, w3

ThreeWorkers == {w1, w2, w3}
ShortAndLong == {1, 3}
=============================================================================
