--------------------------- MODULE MCParallelSum ----------------------------
(***************************************************************************)
(* ParallelSum for TLC: every n from 1 to 9 with every m from 1 to 5, so   *)
(* with and without a remainder, and with more threads than positions. The *)
(* program asks for more than 1,000,000 numbers; the blocks only depend on *)
(* n \div m and its remainder.                                             *)
(***************************************************************************)
EXTENDS ParallelSum

MCSizes == 1 .. 9
MCCounts == 1 .. 5
=============================================================================
