------------------------------ MODULE TaskPool ------------------------------
(***************************************************************************)
(* What parallel_scheduler promises its user: tasks start in the order in  *)
(* which they were handed over, each on an idle thread, each once; and the *)
(* pool is not gone before every task has returned.  Nothing here locks,   *)
(* polls or joins; Scheduler implements this module.                       *)
(***************************************************************************)
EXTENDS Naturals, Sequences

CONSTANTS
  Threads,   \* the capacity given to the constructor
  NumTasks,  \* calls of run
  NoTask     \* an empty std::function

Worker == 1 .. Threads
Task == 0 .. NumTasks-1

VARIABLES
  queue,   \* tasks handed over and not started, oldest first
  doing,   \* the task each thread is executing
  runs,    \* how often each task has returned
  gone     \* the destructor has returned

vars == <<queue, doing, runs, gone>>

TypeOK ==
  /\ queue \in Seq(Task)
  /\ doing \in [Worker -> Task \cup {NoTask}]
  /\ runs \in [Task -> {0, 1}]
  /\ gone \in BOOLEAN

Init ==
  /\ queue = <<>>
  /\ doing = [w \in Worker |-> NoTask]
  /\ runs = [t \in Task |-> 0]
  /\ gone = FALSE

New(t) ==
  /\ runs[t] = 0
  /\ \A w \in Worker : doing[w] # t
  /\ \A j \in DOMAIN queue : queue[j] # t

Submit(t) ==
  /\ ~gone
  /\ New(t)
  /\ queue' = Append(queue, t)
  /\ UNCHANGED <<doing, runs, gone>>

Start(w) ==
  /\ doing[w] = NoTask
  /\ queue # <<>>
  /\ doing' = [doing EXCEPT ![w] = Head(queue)]
  /\ queue' = Tail(queue)
  /\ UNCHANGED <<runs, gone>>

Finish(w) ==
  /\ doing[w] # NoTask
  /\ runs' = [runs EXCEPT ![doing[w]] = @ + 1]
  /\ doing' = [doing EXCEPT ![w] = NoTask]
  /\ UNCHANGED <<queue, gone>>

Shutdown ==
  /\ ~gone
  /\ \A t \in Task : runs[t] = 1
  /\ gone' = TRUE
  /\ UNCHANGED <<queue, doing, runs>>

Next ==
  \/ \E t \in Task : Submit(t)
  \/ \E w \in Worker : Start(w) \/ Finish(w)
  \/ Shutdown

Spec == Init /\ [][Next]_vars
=============================================================================
