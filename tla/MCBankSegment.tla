--------------------------- MODULE MCBankSegment ---------------------------
(***************************************************************************)
(* BankSegment for TLC.                                                    *)
(***************************************************************************)
EXTENDS BankSegment, TLC

Symmetry == Permutations(Inits) \cup Permutations(Clients)
=============================================================================
