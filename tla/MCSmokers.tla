----------------------------- MODULE MCSmokers ------------------------------
(***************************************************************************)
(* Smokers for TLC: the configurations give the numbers of smokers and     *)
(* ingredients.                                                            *)
(***************************************************************************)
EXTENDS Smokers
=============================================================================
