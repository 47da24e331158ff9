----------------------------- MODULE Scheduler ------------------------------
(***************************************************************************)
(* TH-2/main.cpp: class parallel_scheduler and the main that uses it.  A   *)
(* worker polls the queue under the mutex; main starts the workers, calls  *)
(* run for each task, sleeps, and runs the destructor, which sets stop and *)
(* joins the workers.  One step per statement that touches shared state.   *)
(***************************************************************************)
EXTENDS Naturals, Sequences

CONSTANTS
  Threads,   \* the capacity given to the constructor
  NumTasks,  \* calls of run made by main
  NoTask     \* an empty std::function

Worker == 1 .. Threads
Task == 0 .. NumTasks-1

Free == 0             \* no thread holds the mutex
Main == Threads + 1   \* the main thread, as holder of the mutex

ASSUME SchedulerAssumption ==
  /\ Threads \in Nat \ {0}
  /\ NumTasks \in Nat
  /\ NoTask \notin Nat

VARIABLES
  mutex,   \* the thread that holds parallel_scheduler::mutex, or Free
  queue,   \* parallel_scheduler::thread_stack
  stop,    \* parallel_scheduler::stop
  pc,      \* where each worker is in main_thread
  task,    \* each worker's local variable task
  main,    \* where main is
  k,       \* main's loop index
  runs     \* history: how often each task has returned

vars == <<mutex, queue, stop, pc, task, main, k, runs>>

WorkerCritical == {"test", "unlock", "unlock_break"}
MainCritical == {"push", "run_unlock", "set_stop", "stop_unlock"}

TypeOK ==
  /\ mutex \in {Free, Main} \cup Worker
  /\ queue \in Seq(Task)
  /\ stop \in BOOLEAN
  /\ pc \in [Worker -> WorkerCritical \cup {"not_started", "lock", "call", "sleep", "exited"}]
  /\ task \in [Worker -> Task \cup {NoTask}]
  /\ main \in MainCritical \cup {"spawn", "run_lock", "stop_lock", "join", "destroy", "end"}
  /\ k \in 0 .. Threads \cup Task
  /\ runs \in [Task -> {0, 1}]

Init ==
  /\ mutex = Free
  /\ queue = <<>>
  /\ stop = FALSE
  /\ pc = [w \in Worker |-> "not_started"]
  /\ task = [w \in Worker |-> NoTask]
  /\ main = "spawn"
  /\ k = 1
  /\ runs = [t \in Task |-> 0]

Lock(thread)   == mutex = Free /\ mutex' = thread
Unlock(thread) == mutex = thread /\ mutex' = Free

----------------------------------------------------------------------------
\* One worker: the loop of main_thread.

Goto(w, label) == pc' = [pc EXCEPT ![w] = label] /\ UNCHANGED <<stop, main, k>>

WorkerLock(w) ==
  /\ pc[w] = "lock"
  /\ Lock(w)
  /\ Goto(w, "test")
  /\ UNCHANGED <<queue, task, runs>>

\* Mutant of Break: a worker leaves as soon as stop is set.
BreakOnStop(w) ==
  /\ pc[w] = "test"
  /\ stop
  /\ Goto(w, "unlock_break")
  /\ UNCHANGED <<mutex, queue, task, runs>>

Break(w) ==
  /\ pc[w] = "test"
  /\ stop /\ queue = <<>>
  /\ Goto(w, "unlock_break")
  /\ UNCHANGED <<mutex, queue, task, runs>>

\* Mutant of Take: the last task is taken.
TakeLast(w) ==
  /\ pc[w] = "test"
  /\ queue # <<>>
  /\ task' = [task EXCEPT ![w] = queue[Len(queue)]]
  /\ queue' = SubSeq(queue, 1, Len(queue) - 1)
  /\ Goto(w, "unlock")
  /\ UNCHANGED <<mutex, runs>>

Take(w) ==
  /\ pc[w] = "test"
  /\ queue # <<>>
  /\ task' = [task EXCEPT ![w] = Head(queue)]
  /\ queue' = Tail(queue)
  /\ Goto(w, "unlock")
  /\ UNCHANGED <<mutex, runs>>

FindNothing(w) ==
  /\ pc[w] = "test"
  /\ ~stop /\ queue = <<>>
  /\ Goto(w, "unlock")
  /\ UNCHANGED <<mutex, queue, task, runs>>

WorkerUnlock(w) ==
  /\ pc[w] = "unlock"
  /\ Unlock(w)
  /\ Goto(w, IF task[w] # NoTask THEN "call" ELSE "sleep")
  /\ UNCHANGED <<queue, task, runs>>

UnlockBreak(w) ==
  /\ pc[w] = "unlock_break"
  /\ Unlock(w)
  /\ Goto(w, "exited")
  /\ UNCHANGED <<queue, task, runs>>

\* The task returns and the next iteration starts with an empty one.
Call(w) ==
  /\ pc[w] = "call"
  /\ runs' = [runs EXCEPT ![task[w]] = @ + 1]
  /\ task' = [task EXCEPT ![w] = NoTask]
  /\ Goto(w, "lock")
  /\ UNCHANGED <<mutex, queue>>

\* sleep_for(10 ms).
Sleep(w) ==
  /\ pc[w] = "sleep"
  /\ Goto(w, "lock")
  /\ UNCHANGED <<mutex, queue, task, runs>>

----------------------------------------------------------------------------
\* main.

Local == UNCHANGED <<queue, stop, pc, task, runs>>

\* The loop of the constructor.
Spawn ==
  /\ main = "spawn"
  /\ pc' = [pc EXCEPT ![k] = "lock"]
  /\ IF k < Threads
     THEN k' = k + 1 /\ UNCHANGED main
     ELSE k' = 0 /\ main' = IF NumTasks > 0 THEN "run_lock" ELSE "stop_lock"
  /\ UNCHANGED <<mutex, queue, stop, task, runs>>

\* run(print_task, k).
RunLock ==
  /\ main = "run_lock"
  /\ Lock(Main)
  /\ main' = "push"
  /\ Local /\ UNCHANGED k

Push ==
  /\ main = "push"
  /\ queue' = Append(queue, k)
  /\ main' = "run_unlock"
  /\ UNCHANGED <<mutex, stop, pc, task, k, runs>>

\* The last call is followed by main's sleep and the destructor.
RunUnlock ==
  /\ main = "run_unlock"
  /\ Unlock(Main)
  /\ IF k + 1 < NumTasks THEN k' = k + 1 /\ main' = "run_lock"
                         ELSE k' = 0 /\ main' = "stop_lock"
  /\ Local

StopLock ==
  /\ main = "stop_lock"
  /\ Lock(Main)
  /\ main' = "set_stop"
  /\ Local /\ UNCHANGED k

\* Mutant of SetStop: the assignment is forgotten.
SetStopForgotten ==
  /\ main = "set_stop"
  /\ main' = "stop_unlock"
  /\ Local /\ UNCHANGED <<mutex, k>>

SetStop ==
  /\ main = "set_stop"
  /\ stop' = TRUE
  /\ main' = "stop_unlock"
  /\ UNCHANGED <<mutex, queue, pc, task, k, runs>>

StopUnlock ==
  /\ main = "stop_unlock"
  /\ Unlock(Main)
  /\ k' = 1
  /\ main' = "join"
  /\ Local

Join ==
  /\ main = "join"
  /\ pc[k] = "exited"
  /\ IF k < Threads THEN k' = k + 1 /\ UNCHANGED main
                    ELSE k' = 0 /\ main' = "destroy"
  /\ Local /\ UNCHANGED mutex

\* pthread_mutex_destroy and the return from the destructor.
Destroy ==
  /\ main = "destroy"
  /\ main' = "end"
  /\ Local /\ UNCHANGED <<mutex, k>>

----------------------------------------------------------------------------
WorkerStep(w) ==
  \/ WorkerLock(w)
  \/ Break(w)
  \/ Take(w)
  \/ FindNothing(w)
  \/ WorkerUnlock(w)
  \/ UnlockBreak(w)
  \/ Call(w)
  \/ Sleep(w)

MainStep ==
  \/ Spawn
  \/ RunLock
  \/ Push
  \/ RunUnlock
  \/ StopLock
  \/ SetStop
  \/ StopUnlock
  \/ Join
  \/ Destroy

Next == MainStep \/ \E w \in Worker : WorkerStep(w)

Spec == Init /\ [][Next]_vars

\* Every thread that can run does, and main gets the mutex it waits for: the
\* workers that find nothing leave it alone for 10 ms at a time (main.cpp:68).
FairSpec ==
  /\ Spec
  /\ WF_vars(MainStep)
  /\ SF_vars(RunLock)
  /\ SF_vars(StopLock)
  /\ \A w \in Worker : WF_vars(WorkerStep(w))

----------------------------------------------------------------------------
\* The thread that holds the mutex is the one between lock and unlock: no path
\* through the loop leaves with the mutex or without it (main.cpp:53-63), and
\* run and the destructor bracket what they write (main.cpp:21, 29).
MutexHeldByOwner ==
  /\ \A w \in Worker : mutex = w <=> pc[w] \in WorkerCritical
  /\ mutex = Main <=> main \in MainCritical

\* Tasks run has pushed so far, and how many of them have left the queue.
Submitted == CASE main = "spawn" -> 0
               [] main \in {"run_lock", "push"} -> k
               [] main = "run_unlock" -> k + 1
               [] OTHER -> NumTasks
Started == Submitted - Len(queue)

\* The queue is the unbroken run of the tasks not yet started, and each of the
\* others is either in the hands of one worker or has returned, once: no task
\* is lost, run twice or overtaken (main.cpp:59-61).
EachTaskOnce ==
  /\ Len(queue) <= Submitted
  /\ \A j \in DOMAIN queue : queue[j] = Started + j - 1
  /\ \A t \in Task : /\ (\E w \in Worker : task[w] = t) \/ runs[t] = 1 <=> t < Started
                     /\ runs[t] = 1 => \A w \in Worker : task[w] # t
  /\ \A v, w \in Worker : task[v] = task[w] /\ task[v] # NoTask => v = w

\* A worker that has left its loop leaves no work behind, now or later: stop is
\* set after the last run, and the queue was empty when it looked
\* (main.cpp:54-57).
ExitLeavesNoWork ==
  \A w \in Worker :
    pc[w] \in {"unlock_break", "exited"} => stop /\ queue = <<>> /\ Submitted = NumTasks

\* The mutex is destroyed after the last worker has unlocked it and every task
\* has returned (main.cpp:33-39).
DestroyedLast ==
  main \in {"destroy", "end"} =>
    /\ \A w \in Worker : pc[w] = "exited"
    /\ mutex = Free
    /\ \A t \in Task : runs[t] = 1

\* The scheduler is a pool that starts tasks in order and waits for them all.
Pool == INSTANCE TaskPool WITH doing <- task, gone <- main = "end"
RefinesPool == Pool!Spec

\* The destructor returns.
Finishes == <>(main = "end")
=============================================================================
