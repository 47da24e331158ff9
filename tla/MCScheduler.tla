---------------------------- MODULE MCScheduler -----------------------------
(***************************************************************************)
(* Scheduler for TLC: the configurations give the numbers of threads and   *)
(* tasks.                                                                  *)
(***************************************************************************)
EXTENDS Scheduler
=============================================================================
