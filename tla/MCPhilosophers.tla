--------------------------- MODULE MCPhilosophers ---------------------------
(***************************************************************************)
(* Philosophers for TLC: the configurations give N, Meals and MaxFaults.   *)
(***************************************************************************)
EXTENDS Philosophers
=============================================================================
