---------------------------- MODULE MCChatServer ----------------------------
(***************************************************************************)
(* ChatServer for TLC.  Connections are interchangeable.                   *)
(***************************************************************************)
EXTENDS ChatServer, TLC

Symmetry == Permutations(Conns)
=============================================================================
