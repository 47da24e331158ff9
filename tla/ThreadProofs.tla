---------------------------- MODULE ThreadProofs ----------------------------
(***************************************************************************)
(* Theorems about the programs whose main starts and joins threads: first  *)
(* Scheduler, for any number of threads and tasks, then ParallelSum, for   *)
(* every size of the vector, every number of threads and every number of   *)
(* threads that cannot be created.                                         *)
(***************************************************************************)
EXTENDS Scheduler, ParallelSum, SequenceTheorems, TLAPS

\* Where a worker's local task is empty and where it is not.
TaskInv ==
  \A w \in Worker :
    /\ task[w] # NoTask => pc[w] \in {"unlock", "call"}
    /\ pc[w] = "call" => task[w] # NoTask

\* main's loops: which worker runs, which is joined, and when stop is set.
MainInv ==
  /\ stop <=> main \in {"stop_unlock", "join", "destroy", "end"}
  /\ main = "spawn" => k \in Worker
  /\ \A w \in Worker : pc[w] = "not_started" <=> main = "spawn" /\ w >= k
  /\ main \in {"run_lock", "push", "run_unlock"} => k \in Task
  /\ main = "join" => k \in Worker /\ \A w \in 1 .. k-1 : pc[w] = "exited"
  /\ main \in {"destroy", "end"} => \A w \in Worker : pc[w] = "exited"

IInv == TypeOK /\ MutexHeldByOwner /\ EachTaskOnce /\ ExitLeavesNoWork /\ TaskInv /\ MainInv

----------------------------------------------------------------------------
\* One step of one worker or of main.
Moves == MainStep \/ \E w \in Worker : WorkerStep(w)

LEMMA SubmittedType ==
  ASSUME IInv
  PROVE  Submitted \in 0 .. NumTasks /\ Started \in 0 .. NumTasks /\ Len(queue) \in Nat
<1>1. Submitted \in 0 .. NumTasks
  BY SchedulerAssumption DEF IInv, MainInv, Submitted, Task, MainCritical, TypeOK
<1>2. Len(queue) \in Nat
  BY DEF IInv, TypeOK
<1> QED
  BY <1>1, <1>2, SchedulerAssumption DEF Started, IInv, EachTaskOnce

LEMMA InitIInv == Init => IInv
<1> SUFFICES ASSUME Init PROVE IInv
  OBVIOUS
<1> USE SchedulerAssumption DEF Init
<1>1. TypeOK
  <2>1. queue \in Seq(Task)
    OBVIOUS
  <2>2. k \in 0 .. Threads \cup Task
    OBVIOUS
  <2> QED
    BY <2>1, <2>2 DEF TypeOK, WorkerCritical
<1>2. MutexHeldByOwner
  BY DEF MutexHeldByOwner, Worker, Free, Main, MainCritical, WorkerCritical
<1>3. EachTaskOnce
  <2>1. Submitted = 0 /\ Len(queue) = 0
    BY DEF Submitted
  <2> QED
    BY <2>1 DEF EachTaskOnce, Started, Task
<1>4. ExitLeavesNoWork /\ TaskInv
  BY DEF ExitLeavesNoWork, TaskInv
<1>5. MainInv
  BY DEF MainInv, Worker
<1> QED
  BY <1>1, <1>2, <1>3, <1>4, <1>5 DEF IInv

LEMMA StepType ==
  ASSUME IInv, Moves
  PROVE  TypeOK'
<1> USE SchedulerAssumption DEF IInv, TypeOK
<1>1. ASSUME NEW w \in Worker, WorkerStep(w) PROVE TypeOK'
  <2>1. mutex' \in {Free, Main} \cup Worker
    BY <1>1 DEF WorkerStep, WorkerLock, Break, Take, FindNothing, WorkerUnlock, UnlockBreak,
                Call, Sleep, Lock, Unlock
  <2>2. pc' \in [Worker -> WorkerCritical \cup {"not_started", "lock", "call", "sleep", "exited"}]
    BY <1>1 DEF WorkerStep, WorkerLock, Break, Take, FindNothing, WorkerUnlock, UnlockBreak,
                Call, Sleep, Goto, WorkerCritical
  <2>3. UNCHANGED <<stop, main, k>>
    BY <1>1 DEF WorkerStep, WorkerLock, Break, Take, FindNothing, WorkerUnlock, UnlockBreak,
                Call, Sleep, Goto
  <2>4. queue' \in Seq(Task) /\ task' \in [Worker -> Task \cup {NoTask}]
    <3>1. CASE Take(w)
      BY <3>1, HeadTailProperties DEF Take
    <3>2. CASE ~Take(w)
      BY <1>1, <3>2 DEF WorkerStep, WorkerLock, Break, FindNothing, WorkerUnlock, UnlockBreak,
                Call, Sleep
    <3> QED
      BY <3>1, <3>2
  <2>5. runs' \in [Task -> {0, 1}]
    <3>1. CASE Call(w)
      <4>1. task[w] \in Task
        BY <3>1 DEF Call, TaskInv
      <4>2. runs[task[w]] = 0
        BY <4>1 DEF EachTaskOnce
      <4> QED
        BY <3>1, <4>1, <4>2 DEF Call
    <3>2. CASE ~Call(w)
      BY <1>1, <3>2 DEF WorkerStep, WorkerLock, Break, Take, FindNothing, WorkerUnlock,
                UnlockBreak, Sleep
    <3> QED
      BY <3>1, <3>2
  <2> QED
    BY <2>1, <2>2, <2>3, <2>4, <2>5
<1>2. CASE MainStep
  <2>1. mutex' \in {Free, Main} \cup Worker /\ stop' \in BOOLEAN
    BY <1>2 DEF MainStep, Spawn, RunLock, Push, RunUnlock, StopLock, SetStop, StopUnlock, Join,
                Destroy, Lock, Unlock, Local
  <2>2. queue' \in Seq(Task)
    <3>1. CASE Push
      BY <3>1 DEF Push, MainInv
    <3>2. CASE ~Push
      BY <1>2, <3>2 DEF MainStep, Spawn, RunLock, RunUnlock, StopLock, SetStop, StopUnlock,
                Join, Destroy, Local
    <3> QED
      BY <3>1, <3>2
  <2>3. pc' \in [Worker -> WorkerCritical \cup {"not_started", "lock", "call", "sleep", "exited"}]
    BY <1>2 DEF MainStep, Spawn, RunLock, Push, RunUnlock, StopLock, SetStop, StopUnlock, Join,
                Destroy, Local
  <2>4. UNCHANGED <<task, runs>>
    BY <1>2 DEF MainStep, Spawn, RunLock, Push, RunUnlock, StopLock, SetStop, StopUnlock, Join,
                Destroy, Local
  <2>5. main' \in MainCritical \cup {"spawn", "run_lock", "stop_lock", "join", "destroy", "end"}
    BY <1>2 DEF MainStep, Spawn, RunLock, Push, RunUnlock, StopLock, SetStop, StopUnlock, Join,
                Destroy, MainCritical
  <2>6. k' \in 0 .. Threads \cup Task
    BY <1>2 DEF MainStep, Spawn, RunLock, Push, RunUnlock, StopLock, SetStop, StopUnlock, Join,
                Destroy, Task, MainInv, Worker
  <2> QED
    BY <2>1, <2>2, <2>3, <2>4, <2>5, <2>6
<1> QED
  BY <1>1, <1>2 DEF Moves

\* Whoever takes the mutex found it free, and whoever gives it back had it.
LEMMA StepMutex ==
  ASSUME IInv, Moves
  PROVE  MutexHeldByOwner'
<1> USE SchedulerAssumption DEF IInv, TypeOK, MutexHeldByOwner, Free, Main, Worker
<1>1. ASSUME NEW w \in Worker, WorkerStep(w) PROVE MutexHeldByOwner'
  <2>1. main' = main /\ \A v \in Worker : v # w => pc'[v] = pc[v]
    BY <1>1 DEF WorkerStep, WorkerLock, Break, Take, FindNothing, WorkerUnlock, UnlockBreak,
                Call, Sleep, Goto
  <2>2. CASE WorkerLock(w)
    BY <2>1, <2>2 DEF WorkerLock, Lock, Goto, WorkerCritical
  <2>3. CASE WorkerUnlock(w) \/ UnlockBreak(w)
    BY <2>1, <2>3 DEF WorkerUnlock, UnlockBreak, Unlock, Goto, WorkerCritical
  <2>4. CASE Break(w) \/ Take(w) \/ FindNothing(w) \/ Call(w) \/ Sleep(w)
    BY <2>1, <2>4 DEF Break, Take, FindNothing, Call, Sleep, Goto, WorkerCritical
  <2> QED
    BY <1>1, <2>2, <2>3, <2>4 DEF WorkerStep
<1>2. CASE RunLock \/ StopLock
  BY <1>2 DEF RunLock, StopLock, Lock, Local, MainCritical
<1>3. CASE RunUnlock \/ StopUnlock
  BY <1>3 DEF RunUnlock, StopUnlock, Unlock, Local, MainCritical
<1>4. CASE Push \/ SetStop \/ Join \/ Destroy
  BY <1>4 DEF Push, SetStop, Join, Destroy, Local, MainCritical
<1>5. CASE Spawn
  BY <1>5 DEF Spawn, MainCritical, WorkerCritical, MainInv
<1> QED
  BY <1>1, <1>2, <1>3, <1>4, <1>5 DEF Moves, MainStep

LEMMA StepTask ==
  ASSUME IInv, Moves
  PROVE  TaskInv'
<1> USE SchedulerAssumption DEF IInv, TypeOK, TaskInv
<1>1. ASSUME NEW w \in Worker, WorkerStep(w) PROVE TaskInv'
  <2>1. CASE Take(w)
    <3>1. Head(queue) \in Task /\ Head(queue) # NoTask
      BY <2>1, HeadTailProperties DEF Take, Task
    <3> QED
      BY <2>1, <3>1 DEF Take, Goto
  <2>2. CASE ~Take(w)
    BY <1>1, <2>2 DEF WorkerStep, WorkerLock, Break, FindNothing, WorkerUnlock, UnlockBreak,
                Call, Sleep, Goto
  <2> QED
    BY <2>1, <2>2
<1>2. CASE Spawn
  BY <1>2 DEF Spawn, MainInv
<1>3. CASE MainStep /\ ~Spawn
  BY <1>3 DEF MainStep, RunLock, Push, RunUnlock, StopLock, SetStop, StopUnlock, Join, Destroy,
                Local
<1> QED
  BY <1>1, <1>2, <1>3 DEF Moves

LEMMA StepMain ==
  ASSUME IInv, Moves
  PROVE  MainInv'
<1> USE SchedulerAssumption DEF IInv, TypeOK
<1>1. ASSUME NEW w \in Worker, WorkerStep(w) PROVE MainInv'
  <2>1. /\ UNCHANGED <<stop, main, k>>
        /\ \A v \in Worker : v # w => pc'[v] = pc[v]
        /\ pc[w] \notin {"not_started", "exited"}
        /\ pc'[w] # "not_started"
    BY <1>1 DEF WorkerStep, WorkerLock, Break, Take, FindNothing, WorkerUnlock, UnlockBreak,
                Call, Sleep, Goto
  <2>2. \A v \in Worker : /\ pc'[v] = "not_started" <=> pc[v] = "not_started"
                          /\ pc[v] = "exited" => pc'[v] = "exited"
    BY <2>1
  <2>3. main = "join" => 1 .. k-1 \subseteq Worker
    BY DEF MainInv, Worker
  <2> QED
    BY <2>1, <2>2, <2>3 DEF MainInv
<1>2. CASE Spawn
  BY <1>2 DEF Spawn, MainInv, Worker, Task
<1>3. CASE RunLock \/ Push \/ RunUnlock \/ StopLock
  BY <1>3 DEF RunLock, Push, RunUnlock, StopLock, Local, MainInv, Task
<1>4. CASE SetStop
  BY <1>4 DEF SetStop, MainInv
<1>5. CASE StopUnlock \/ Join \/ Destroy
  BY <1>5 DEF StopUnlock, Join, Destroy, Local, MainInv, Worker
<1> QED
  BY <1>1, <1>2, <1>3, <1>4, <1>5 DEF Moves, MainStep

\* A step that neither pushes nor pops leaves the number of submitted tasks.
LEMMA SubmittedSteps ==
  ASSUME IInv, Moves
  PROVE  /\ Push => Submitted = k /\ Submitted' = Submitted + 1
         /\ ~Push => Submitted' = Submitted
<1> USE SchedulerAssumption DEF IInv, TypeOK
<1>1. CASE Push
  BY <1>1 DEF Push, Submitted
<1>2. CASE \E w \in Worker : WorkerStep(w)
  BY <1>2 DEF WorkerStep, WorkerLock, Break, Take, FindNothing, WorkerUnlock, UnlockBreak,
                Call, Sleep, Goto, Submitted, Push
<1>3. CASE Spawn
  BY <1>3 DEF Spawn, Submitted, Push
<1>4. CASE RunUnlock
  BY <1>4 DEF RunUnlock, Submitted, Push, MainInv, Task
<1>5. CASE RunLock \/ StopLock \/ SetStop \/ StopUnlock \/ Join \/ Destroy
  BY <1>5 DEF RunLock, StopLock, SetStop, StopUnlock, Join, Destroy, Submitted, Push
<1> QED
  BY <1>1, <1>2, <1>3, <1>4, <1>5 DEF Moves, MainStep

\* The window of waiting tasks moves by one task at either end.
LEMMA StepTasks ==
  ASSUME IInv, Moves
  PROVE  EachTaskOnce'
<1> USE SchedulerAssumption DEF IInv, TypeOK
<1>1. Submitted \in Nat /\ Len(queue) \in Nat /\ Started \in Nat /\ Started = Submitted - Len(queue)
  BY SubmittedType DEF Started
<1>2. CASE Push
  <2>1. Submitted = k /\ Submitted' = Submitted + 1 /\ k \in Task
    BY <1>2, SubmittedSteps DEF Push, MainInv
  <2>2. queue' = Append(queue, k) /\ UNCHANGED <<task, runs>>
    BY <1>2 DEF Push
  <2>3. Len(queue') = Len(queue) + 1 /\ Started' = Started
    BY <1>1, <2>1, <2>2 DEF Started
  <2>4. \A j \in DOMAIN queue' : queue'[j] = IF j <= Len(queue) THEN queue[j] ELSE k
    BY <2>1, <2>2
  <2>5. \A j \in DOMAIN queue' : queue'[j] = Started' + j - 1
    BY <1>1, <2>1, <2>2, <2>3, <2>4 DEF EachTaskOnce
  <2> QED
    BY <1>1, <2>1, <2>2, <2>3, <2>5 DEF EachTaskOnce
<1>3. ASSUME NEW w \in Worker, Take(w) PROVE EachTaskOnce'
  <2>1. Submitted' = Submitted
    BY <1>3, SubmittedSteps DEF Take, Goto, Submitted
  <2>2. /\ queue # <<>>
        /\ queue' = Tail(queue)
        /\ task' = [task EXCEPT ![w] = Head(queue)]
        /\ UNCHANGED runs
        /\ task[w] = NoTask
    BY <1>3 DEF Take, TaskInv
  <2>3. Len(queue') = Len(queue) - 1 /\ Len(queue) > 0
    BY <2>2
  <2>4. Started' = Started + 1
    BY <1>1, <2>1, <2>3 DEF Started
  <2>5. Head(queue) = Started /\ Started \in Task
    <3>1. 1 \in DOMAIN queue /\ Head(queue) = queue[1]
      BY <2>2, <2>3
    <3>2. queue[1] = Started + 1 - 1
      BY <3>1 DEF EachTaskOnce
    <3> QED
      BY <1>1, <2>3, <3>1, <3>2, SubmittedType DEF Task
  <2>6. \A j \in DOMAIN queue' : queue'[j] = queue[j+1] /\ j + 1 \in DOMAIN queue /\ j \in Nat
    <3>1. DOMAIN queue = 1 .. Len(queue) /\ DOMAIN queue' = 1 .. Len(queue) - 1
      BY <2>2, <2>3
    <3>2. \A j \in 1 .. Len(queue) - 1 : queue'[j] = queue[j+1]
      BY <2>2, HeadTailProperties
    <3> QED
      BY <1>1, <3>1, <3>2
  <2>7. \A j \in DOMAIN queue' : queue'[j] = Started' + j - 1
    BY <1>1, <2>3, <2>4, <2>6 DEF EachTaskOnce
  <2>8. \A t \in Task : t < Started' <=> t < Started \/ t = Started
    BY <1>1, <2>4 DEF Task
  <2>9. \A t \in Task : (\E v \in Worker : task'[v] = t) <=> (\E v \in Worker : task[v] = t) \/ t = Started
    BY <2>2, <2>5 DEF Task
  <2>10. /\ runs[Started] # 1
         /\ \A v \in Worker : task[v] # Started
    BY <1>1, <2>5 DEF EachTaskOnce
  <2>11. \A v \in Worker : task'[v] = IF v = w THEN Started ELSE task[v]
    BY <2>2, <2>5
  <2>12. \A t \in Task : /\ (\E v \in Worker : task'[v] = t) \/ runs'[t] = 1 <=> t < Started'
                         /\ runs'[t] = 1 => \A v \in Worker : task'[v] # t
    BY <2>2, <2>8, <2>9, <2>10, <2>11 DEF EachTaskOnce
  <2>13. \A u, v \in Worker : task'[u] = task'[v] /\ task'[u] # NoTask => u = v
    BY <2>10, <2>11 DEF EachTaskOnce
  <2> QED
    BY <1>1, <2>1, <2>3, <2>7, <2>12, <2>13 DEF EachTaskOnce
<1>4. ASSUME NEW w \in Worker, Call(w) PROVE EachTaskOnce'
  <2>1. Submitted' = Submitted /\ queue' = queue /\ Started' = Started
    BY <1>4, SubmittedSteps DEF Call, Goto, Submitted, Started
  <2>2. task[w] \in Task /\ task[w] # NoTask
    BY <1>4 DEF Call, TaskInv
  <2>3. runs[task[w]] = 0
    BY <2>2 DEF EachTaskOnce
  <2>4. /\ \A t \in Task : runs'[t] = IF t = task[w] THEN 1 ELSE runs[t]
        /\ \A v \in Worker : task'[v] = IF v = w THEN NoTask ELSE task[v]
    BY <1>4, <2>2, <2>3 DEF Call
  <2>5. \A t \in Task : t # NoTask
    BY DEF Task
  <2>6. \A t \in Task : /\ (\E v \in Worker : task'[v] = t) \/ runs'[t] = 1 <=> t < Started'
                        /\ runs'[t] = 1 => \A v \in Worker : task'[v] # t
    BY <2>1, <2>2, <2>4, <2>5 DEF EachTaskOnce
  <2>7. \A u, v \in Worker : task'[u] = task'[v] /\ task'[u] # NoTask => u = v
    BY <2>4 DEF EachTaskOnce
  <2> QED
    BY <2>1, <2>6, <2>7 DEF EachTaskOnce
<1>5. CASE ~Push /\ ~(\E w \in Worker : Take(w) \/ Call(w))
  <2>1. Submitted' = Submitted
    BY <1>5, SubmittedSteps
  <2>2. UNCHANGED <<queue, task, runs>>
    BY <1>5 DEF Moves, MainStep, WorkerStep, WorkerLock, Break, FindNothing, WorkerUnlock,
                UnlockBreak, Sleep, Spawn, RunLock, RunUnlock, StopLock, SetStop, StopUnlock,
                Join, Destroy, Local
  <2> QED
    BY <2>1, <2>2 DEF EachTaskOnce, Started
<1> QED
  BY <1>2, <1>3, <1>4, <1>5

\* stop is set once every task is submitted, so a queue found empty stays so.
LEMMA StepExit ==
  ASSUME IInv, Moves
  PROVE  ExitLeavesNoWork'
<1> USE SchedulerAssumption DEF IInv, TypeOK
<1>1. stop => Submitted = NumTasks
  BY DEF MainInv, Submitted
<1>2. stop => ~Push /\ stop'
  BY DEF MainInv, Push, Moves, MainStep, WorkerStep, WorkerLock, Break, Take, FindNothing,
         WorkerUnlock, UnlockBreak, Call, Sleep, Goto, Spawn, RunLock, RunUnlock, StopLock,
         SetStop, StopUnlock, Join, Destroy, Local
<1>3. stop => Submitted' = Submitted
  BY <1>2, SubmittedSteps
<1>4. stop /\ queue = <<>> => queue' = <<>>
  BY <1>2 DEF Moves, MainStep, WorkerStep, WorkerLock, Break, Take, FindNothing,
         WorkerUnlock, UnlockBreak, Call, Sleep, Goto, Spawn, RunLock, RunUnlock, StopLock,
         SetStop, StopUnlock, Join, Destroy, Local
<1>5. \A w \in Worker : pc'[w] \in {"unlock_break", "exited"} =>
        pc[w] \in {"unlock_break", "exited"} \/ (stop /\ queue = <<>>)
  BY DEF Moves, MainStep, WorkerStep, WorkerLock, Break, Take, FindNothing,
         WorkerUnlock, UnlockBreak, Call, Sleep, Goto, Spawn, RunLock, Push, RunUnlock, StopLock,
         SetStop, StopUnlock, Join, Destroy, Local
<1> QED
  BY <1>1, <1>2, <1>3, <1>4, <1>5 DEF ExitLeavesNoWork

LEMMA StepIInv == IInv /\ [Next]_vars => IInv'
<1> SUFFICES ASSUME IInv, [Next]_vars PROVE IInv'
  OBVIOUS
<1>1. CASE Moves
  BY <1>1, StepType, StepMutex, StepTasks, StepExit, StepTask, StepMain DEF IInv
<1>2. CASE UNCHANGED vars
  BY <1>2 DEF vars, IInv, TypeOK, MutexHeldByOwner, EachTaskOnce, Submitted, Started,
              ExitLeavesNoWork, TaskInv, MainInv
<1> QED
  BY <1>1, <1>2 DEF Next, Moves

\* The invariant holds in every reachable state.
THEOREM Invariance == Spec => []IInv
<1>1. Init => IInv
  BY InitIInv
<1>2. IInv /\ [Next]_vars => IInv'
  BY StepIInv
<1> QED
  BY <1>1, <1>2, PTL DEF Spec

\* The loops stay within the threads and tasks, and no task runs twice.
THEOREM TypeCorrect == Spec => []TypeOK
  BY Invariance, PTL DEF IInv

\* The mutex is held by the thread between lock and unlock, and by no other.
THEOREM MutualExclusion == Spec => []MutexHeldByOwner
  BY Invariance, PTL DEF IInv

\* Every task handed over waits in order, is in one worker's hands, or has
\* returned once.
THEOREM TasksAccounted == Spec => []EachTaskOnce
  BY Invariance, PTL DEF IInv

\* No worker leaves while a task waits or may still come.
THEOREM DrainedBeforeExit == Spec => []ExitLeavesNoWork
  BY Invariance, PTL DEF IInv

\* When every worker has left, every task has returned.
LEMMA AllReturned ==
  ASSUME IInv, main \in {"destroy", "end"}
  PROVE  /\ \A w \in Worker : pc[w] = "exited"
         /\ mutex = Free
         /\ \A t \in Task : runs[t] = 1
<1> USE SchedulerAssumption DEF IInv, TypeOK
<1>1. \A w \in Worker : pc[w] = "exited" /\ task[w] = NoTask
  BY DEF MainInv, TaskInv
<1>2. mutex = Free
  BY <1>1 DEF MutexHeldByOwner, WorkerCritical, MainCritical
<1>3. queue = <<>> /\ Submitted = NumTasks
  <2>1. 1 \in Worker
    BY DEF Worker
  <2> QED
    BY <1>1, <2>1 DEF ExitLeavesNoWork
<1>4. Started = NumTasks
  <2>1. Len(queue) = 0
    BY <1>3
  <2> QED
    BY <1>3, <2>1 DEF Started
<1>5. \A t \in Task : t < Started /\ t # NoTask
  BY <1>4 DEF Task
<1>6. \A t \in Task : runs[t] = 1
  BY <1>1, <1>5 DEF EachTaskOnce
<1> QED
  BY <1>1, <1>2, <1>6

\* The destructor destroys a free mutex after the last task has returned.
THEOREM MutexDestroyedLast == Spec => []DestroyedLast
<1>1. IInv => DestroyedLast
  BY AllReturned DEF DestroyedLast
<1> QED
  BY <1>1, Invariance, PTL

----------------------------------------------------------------------------
\* The safety half of Finishes.  Once stop is set, Place(w) bounds the steps worker w
\* takes before it has left its loop or has taken another task, MainPlace those that
\* main takes.
Place(w) == CASE pc[w] = "unlock"            -> 6
              [] pc[w] \in {"call", "sleep"} -> 5
              [] pc[w] = "lock"              -> 4
              [] pc[w] = "test"              -> 3
              [] pc[w] = "unlock_break"      -> 2
              [] OTHER                       -> 0
MainPlace == CASE main = "stop_unlock" -> Threads + 3
               [] main = "join"        -> Threads + 2 - k
               [] main = "destroy"     -> 1
               [] OTHER                -> 0

\* After stop each step makes the queue shorter, or leaves it and brings one thread
\* nearer to its end; none makes the queue longer.
StopCounts == stop =>
  /\ stop'
  /\ \/ Len(queue') < Len(queue)
     \/ /\ queue' = queue /\ MainPlace' = MainPlace
        /\ \E w \in Worker : /\ Place(w)' < Place(w)
                             /\ \A v \in Worker \ {w} : Place(v)' = Place(v)
     \/ /\ queue' = queue /\ MainPlace' \in Nat /\ MainPlace' < MainPlace
        /\ \A w \in Worker : Place(w)' = Place(w)

\* Who has a step to take, with the guards that the code has.
WorkerCan(w) ==
  \/ pc[w] \in {"test", "unlock", "unlock_break", "call", "sleep"}
  \/ pc[w] = "lock" /\ mutex = Free
MainCan ==
  \/ main \in {"spawn", "push", "run_unlock", "set_stop", "stop_unlock", "destroy"}
  \/ main \in {"run_lock", "stop_lock"} /\ mutex = Free
  \/ main = "join" /\ pc[k] = "exited"
SomebodyCan == main = "end" \/ MainCan \/ \E w \in Worker : WorkerCan(w)

LEMMA WorkerCounts ==
  ASSUME IInv, stop, NEW w \in Worker, WorkerStep(w)
  PROVE  StopCounts
<1> USE DEF IInv, TypeOK
<1>1. /\ UNCHANGED <<stop, main, k>>
      /\ \A v \in Worker \ {w} : pc'[v] = pc[v]
  BY DEF WorkerStep, WorkerLock, Break, Take, FindNothing, WorkerUnlock, UnlockBreak,
         Call, Sleep, Goto
<1>2. MainPlace' = MainPlace /\ \A v \in Worker \ {w} : Place(v)' = Place(v)
  BY <1>1 DEF MainPlace, Place
<1>3. CASE Take(w)
  <2>1. Len(queue') = Len(queue) - 1 /\ Len(queue) \in Nat
    BY <1>3, HeadTailProperties DEF Take
  <2> QED
    BY <1>1, <2>1 DEF StopCounts
<1>4. CASE ~Take(w)
  <2>1. queue' = queue
    BY <1>4 DEF WorkerStep, WorkerLock, Break, FindNothing, WorkerUnlock, UnlockBreak,
                Call, Sleep
  <2>2. \/ pc[w] = "lock" /\ pc'[w] = "test"
        \/ pc[w] = "test" /\ pc'[w] = "unlock_break"
        \/ pc[w] = "unlock" /\ pc'[w] \in {"call", "sleep"}
        \/ pc[w] = "unlock_break" /\ pc'[w] = "exited"
        \/ pc[w] \in {"call", "sleep"} /\ pc'[w] = "lock"
    BY <1>4 DEF WorkerStep, WorkerLock, Break, FindNothing, WorkerUnlock, UnlockBreak,
                Call, Sleep, Goto
  <2>3. Place(w)' < Place(w)
    BY <2>2 DEF Place
  <2> QED
    BY <1>1, <1>2, <2>1, <2>3 DEF StopCounts
<1> QED
  BY <1>3, <1>4

LEMMA MainCounts ==
  ASSUME IInv, stop, MainStep
  PROVE  StopCounts
<1> USE SchedulerAssumption DEF IInv, TypeOK, MainInv
<1>1. StopUnlock \/ Join \/ Destroy
  BY DEF MainStep, Spawn, RunLock, Push, RunUnlock, StopLock, SetStop
<1>2. UNCHANGED <<queue, stop, pc>>
  BY <1>1 DEF StopUnlock, Join, Destroy, Local
<1>3. \A w \in Worker : Place(w)' = Place(w)
  BY <1>2 DEF Place
<1>4. MainPlace' \in Nat /\ MainPlace' < MainPlace
  BY <1>1 DEF StopUnlock, Join, Destroy, MainPlace, Worker
<1> QED
  BY <1>2, <1>3, <1>4 DEF StopCounts

\* A worker that has started and not left can go on, or waits for the mutex while who
\* holds it can.
LEMMA HolderCan ==
  ASSUME IInv, mutex # Free
  PROVE  MainCan \/ \E w \in Worker : WorkerCan(w)
BY DEF IInv, TypeOK, MutexHeldByOwner, WorkerCritical, MainCritical, MainCan, WorkerCan

LEMMA NobodyStuck == IInv => SomebodyCan
<1> SUFFICES ASSUME IInv, main # "end", ~MainCan PROVE \E w \in Worker : WorkerCan(w)
  BY DEF SomebodyCan
<1>1. CASE mutex # Free
  BY <1>1, HolderCan
<1>2. CASE mutex = Free
  <2>1. main = "join" /\ k \in Worker /\ pc[k] # "exited" /\ pc[k] # "not_started"
    BY <1>2 DEF MainCan, IInv, TypeOK, MainInv, MainCritical
  <2>2. WorkerCan(k)
    BY <1>2, <2>1 DEF WorkerCan, IInv, TypeOK, WorkerCritical
  <2> QED
    BY <2>1, <2>2
<1> QED
  BY <1>1, <1>2

\* Before main returns some thread can always go on, and after stop no loop goes round
\* for ever: every step uses up a task or a thread's way to its end, so that the
\* destructor's joins return (main.cpp:28-39, 51-69).
THEOREM PoolWindsDown == Spec => []SomebodyCan /\ [][StopCounts]_vars
<1>1. IInv /\ [Next]_vars => [StopCounts]_vars
  BY WorkerCounts, MainCounts DEF Next, StopCounts
<1> QED
  BY <1>1, NobodyStuck, Invariance, PTL DEF Spec

----------------------------------------------------------------------------
\* Refinement: take starts a task, call finishes it, push submits it, the
\* destructor's end shuts the pool down; every other step stutters.

LEMMA InitPool == Init => Pool!Init
  BY DEF Init, Pool!Init, Worker, Pool!Worker, Task, Pool!Task

LEMMA StepPool ==
  ASSUME IInv, [Next]_vars
  PROVE  [Pool!Next]_(Pool!vars)
<1> USE SchedulerAssumption DEF IInv, TypeOK
<1>0. Pool!Worker = Worker /\ Pool!Task = Task
  BY DEF Worker, Task, Pool!Worker, Pool!Task
<1>1. CASE Push
  <2>1. k \in Task /\ Submitted = k /\ queue' = Append(queue, k)
    BY <1>1, SubmittedSteps DEF Push, MainInv, Moves, MainStep
  <2>2. UNCHANGED <<task, runs>> /\ main # "end" /\ main' # "end"
    BY <1>1 DEF Push
  <2>3. Started <= k /\ Started \in Nat /\ Len(queue) \in Nat
    BY <2>1, SubmittedType DEF Started, Task
  <2>4. runs[k] = 0 /\ \A w \in Worker : task[w] # k
    <3>1. ~(k < Started)
      BY <2>1, <2>3 DEF Task
    <3> QED
      BY <2>1, <3>1 DEF EachTaskOnce
  <2>5. \A j \in DOMAIN queue : queue[j] # k
    <3>1. \A j \in DOMAIN queue : j \in 1 .. Len(queue) /\ queue[j] = Started + j - 1
      BY DEF EachTaskOnce
    <3>2. Started + Len(queue) = k
      BY <2>1, <2>3 DEF Started, Task
    <3> QED
      BY <2>1, <2>3, <3>1, <3>2 DEF Task
  <2> QED
    BY <1>0, <2>1, <2>2, <2>4, <2>5 DEF Pool!Next, Pool!Submit, Pool!New
<1>2. ASSUME NEW w \in Worker, Take(w) PROVE Pool!Start(w)
  BY <1>2 DEF Take, Goto, TaskInv, Pool!Start
<1>3. ASSUME NEW w \in Worker, Call(w) PROVE Pool!Finish(w)
  BY <1>3 DEF Call, Goto, TaskInv, Pool!Finish
<1>4. CASE Destroy
  <2>1. main = "destroy" /\ main' = "end" /\ UNCHANGED <<queue, task, runs>>
    BY <1>4 DEF Destroy, Local
  <2>2. \A t \in Task : runs[t] = 1
    BY <2>1, AllReturned
  <2> QED
    BY <1>0, <2>1, <2>2 DEF Pool!Next, Pool!Shutdown
<1>5. CASE UNCHANGED <<queue, task, runs>> /\ (main' = "end" <=> main = "end")
  BY <1>5 DEF Pool!vars
<1>6. CASE \E w \in Worker : WorkerLock(w) \/ Break(w) \/ FindNothing(w) \/ WorkerUnlock(w)
                             \/ UnlockBreak(w) \/ Sleep(w)
  BY <1>5, <1>6 DEF WorkerLock, Break, FindNothing, WorkerUnlock, UnlockBreak, Sleep, Goto
<1>7. CASE Spawn \/ RunLock \/ RunUnlock \/ StopLock \/ SetStop \/ StopUnlock \/ Join
  BY <1>5, <1>7 DEF Spawn, RunLock, RunUnlock, StopLock, SetStop, StopUnlock, Join, Local
<1>8. CASE UNCHANGED vars
  BY <1>5, <1>8 DEF vars
<1> QED
  BY <1>0, <1>1, <1>2, <1>3, <1>4, <1>6, <1>7, <1>8
     DEF Next, MainStep, WorkerStep, Pool!Next

\* The scheduler implements the pool.
THEOREM IsAPool == Spec => RefinesPool
<1>1. Init => Pool!Init
  BY InitPool
<1>2. IInv /\ [Next]_vars => [Pool!Next]_(Pool!vars)
  BY StepPool
<1> QED
  BY <1>1, <1>2, Invariance, PTL DEF Spec, RefinesPool, Pool!Spec

----------------------------------------------------------------------------
\* The parallel sum, a program with threads of its own.

\* The bound of the block of thread t rises with t and stays within n: the
\* remainder of n / m is not negative.
LEMMA BlockBounds ==
  ASSUME NEW nn \in Nat, NEW mm \in Nat \ {0}
  PROVE  /\ nn \div mm \in Nat
         /\ \A t \in 0 .. mm : t * (nn \div mm) \in 0 .. nn
         /\ \A s, t \in 0 .. mm : s <= t => s * (nn \div mm) <= t * (nn \div mm)
         /\ \A t \in Nat : (t + 1) * (nn \div mm) = t * (nn \div mm) + nn \div mm
<1> DEFINE q == nn \div mm
<1>1. q \in Nat /\ mm * q <= nn
  OBVIOUS
<1>2. \A s, t \in Nat : s <= t => s * q <= t * q
  <2> HIDE DEF q
  <2> QED BY <1>1
<1>3. \A t \in Nat : (t + 1) * q = t * q + q
  <2> HIDE DEF q
  <2> QED BY <1>1
<1>4. \A t \in 0 .. mm : t * q \in 0 .. nn
  <2> HIDE DEF q
  <2> SUFFICES ASSUME NEW t \in 0 .. mm PROVE t * q \in 0 .. nn
    OBVIOUS
  <2>1. t * q <= mm * q
    BY <1>2
  <2>2. t * q \in Nat /\ mm * q \in Nat
    BY <1>1
  <2> QED BY <1>1, <2>1, <2>2
<1> QED BY <1>1, <1>2, <1>3, <1>4

----------------------------------------------------------------------------
\* A block lies within the vector.
LEMMA BlockType ==
  ASSUME n \in Nat \ {0}, m \in Nat \ {0}
  PROVE  \A t \in Thread : /\ Block(t) \in [start : 0 .. n, end : 0 .. n]
                           /\ Block(t).start <= Block(t).end
<1> DEFINE q == n \div m
<1>1. SUFFICES ASSUME NEW t \in Thread
               PROVE  /\ t * q \in 0 .. n
                      /\ t * q + q \in 0 .. n
                      /\ t * q <= t * q + q
  BY DEF Block, Thread
<1>2. t \in 0 .. m /\ t + 1 \in 0 .. m /\ t \in Nat
  BY DEF Thread
<1>3. q \in Nat /\ t * q \in 0 .. n /\ (t + 1) * q \in 0 .. n /\ (t + 1) * q = t * q + q
  BY <1>2, BlockBounds
<1> HIDE DEF q
<1> QED BY <1>3

\* Each block starts where the one before it ends, the first at 0 and the last
\* ends at n (main.cpp:75-81).
LEMMA BlocksFollow ==
  ASSUME n \in Nat \ {0}, m \in Nat \ {0}
  PROVE  \A t \in Thread :
           /\ Block(t).start = IF t = 0 THEN 0 ELSE Block(t-1).end
           /\ t = m-1 => Block(t).end = n
<1> DEFINE q == n \div m
<1>1. SUFFICES ASSUME NEW t \in Thread, t # 0
               PROVE  t * q = (t-1) * q + q
  <2>1. q \in Nat
    BY BlockBounds
  <2>2. 0 * q = 0
    BY <2>1
  <2> QED BY <2>2 DEF Block, Thread
<1>2. t-1 \in Nat /\ (t-1) + 1 = t
  BY <1>1 DEF Thread
<1> QED BY <1>2, BlockBounds

\* Every position lies in exactly one block.
LEMMA OneBlock ==
  ASSUME n \in Nat \ {0}, m \in Nat \ {0}, NEW x \in Position
  PROVE  \E t \in Thread : /\ x \in Positions(Block(t))
                           /\ \A s \in Thread :
                                x \in Positions(Block(s)) => s = t
<1> DEFINE q == n \div m
<1>1. /\ q \in Nat
      /\ \A s, t \in 0 .. m : s <= t => s * q <= t * q
      /\ \A t \in Nat : (t + 1) * q = t * q + q
      /\ \A t \in 0 .. m : t * q \in 0 .. n
  BY BlockBounds
<1>2. x \in 0 .. n-1
  BY DEF Position
<1>3. \A t \in Thread : x \in Positions(Block(t)) <=>
                          t * q <= x /\ (t = m-1 \/ x < (t + 1) * q)
  <2>1. TAKE t \in Thread
  <2>2. t \in 0 .. m /\ t \in Nat
    BY DEF Thread
  <2>3. t * q \in 0 .. n /\ (t + 1) * q = t * q + q
    BY <1>1, <2>2
  <2>4. Block(t) = [start |-> t * q, end |-> IF t = m-1 THEN n ELSE t * q + q]
    BY DEF Block
  <2> HIDE DEF q
  <2> QED BY <1>1, <1>2, <2>3, <2>4 DEF Positions
<1>4. \E t \in Thread : t * q <= x /\ (t = m-1 \/ x < (t + 1) * q)
  <2>1. CASE q = 0
    <3>1. m-1 \in Thread /\ (m-1) * q = 0
      BY <2>1 DEF Thread
    <3> HIDE DEF q
    <3> QED BY <3>1, <1>2
  <2>2. CASE q # 0
    <3> DEFINE r == x \div q
    <3> HIDE DEF q
    <3>1. r \in Nat /\ r * q <= x /\ x < r * q + q
      BY <2>2, <1>1, <1>2
    <3>2. (r + 1) * q = r * q + q
      BY <3>1, <1>1
    <3> HIDE DEF r
    <3>3. CASE r \in Thread
      BY <3>1, <3>2, <3>3
    <3>4. CASE r \notin Thread
      <4>1. m-1 \in Thread /\ m-1 <= r /\ m-1 \in Nat
        BY <3>1, <3>4 DEF Thread
      <4>2. (m-1) * q <= r * q
        BY <4>1, <3>1, <1>1
      <4>3. (m-1) * q \in Nat /\ r * q \in Nat
        BY <4>1, <3>1, <1>1
      <4> QED BY <4>1, <4>2, <4>3, <3>1, <1>2
    <3> QED BY <3>3, <3>4
  <2> QED BY <2>1, <2>2
<1>5. \A s, t \in Thread :
        s < t => ~(/\ x \in Positions(Block(s))
                   /\ x \in Positions(Block(t)))
  <2>1. SUFFICES ASSUME NEW s \in Thread, NEW t \in Thread, s < t,
                        x \in Positions(Block(s)),
                        x \in Positions(Block(t))
                 PROVE  FALSE
    OBVIOUS
  <2>2. s # m-1 /\ s + 1 <= t /\ s + 1 \in 0 .. m /\ t \in 0 .. m
    BY <2>1 DEF Thread
  <2>3. (s + 1) * q <= t * q /\ (s + 1) * q \in 0 .. n /\ t * q \in 0 .. n
    BY <2>2, <1>1
  <2>4. x < (s + 1) * q /\ t * q <= x
    BY <2>1, <2>2, <1>3
  <2> HIDE DEF q
  <2> QED BY <2>3, <2>4, <1>2
<1>6. PICK t \in Thread : x \in Positions(Block(t))
  BY <1>3, <1>4
<1>7. \A s \in Thread : x \in Positions(Block(s)) => s = t
  <2>1. \A s \in Thread : s < t \/ t < s \/ s = t
    BY DEF Thread
  <2> QED BY <1>5, <1>6, <2>1
<1> QED BY <1>6, <1>7

----------------------------------------------------------------------------
\* Threads are created from the first on, each with its block.
DataInv ==
  /\ \A t \in Thread : thread[t] = "none" <=> adder = "create" /\ t >= i
  /\ \A t \in Thread : thread[t] # "none" => data[t] = Block(t)

\* A thread that has ended has written the sum of its block.
PartialInv == \A t \in Thread :
  partial[t] = IF thread[t] = "ended" THEN Positions(Block(t)) ELSE {}

\* main has joined the threads before the i-th.
JoinInv ==
  adder = "join" => \A t \in Thread : t < i => thread[t] \in {"ended", "failed"}

\* What main has added.
SumInv ==
  adder = "done" =>
    multi_sum = [x \in Position |-> {t \in Thread : x \in partial[t]}]

PartsInv ==
  /\ SumTypeOK /\ DataInv /\ PartialInv /\ JoinInv /\ JoinedBeforeSum /\ SumInv

LEMMA Sized == PartsInv => n \in Nat \ {0} /\ m \in Nat \ {0}
BY ParallelSumAssumption DEF PartsInv, SumTypeOK

LEMMA PartsInit == SumInit => PartsInv
<1> SUFFICES ASSUME SumInit PROVE PartsInv
  OBVIOUS
<1>1. n \in Nat \ {0} /\ m \in Nat \ {0}
  BY ParallelSumAssumption DEF SumInit
<1>2. SumTypeOK
  BY <1>1 DEF SumInit, SumTypeOK, Thread
<1>3. DataInv /\ PartialInv /\ JoinInv /\ JoinedBeforeSum /\ SumInv
  BY <1>1 DEF SumInit, DataInv, PartialInv, JoinInv, JoinedBeforeSum, SumInv,
              Thread
<1> QED BY <1>2, <1>3 DEF PartsInv

LEMMA PartsInductive == PartsInv /\ [SumNext]_sumVars => PartsInv'
<1> SUFFICES ASSUME PartsInv, [SumNext]_sumVars PROVE PartsInv'
  OBVIOUS
<1> USE DEF PartsInv
<1>1. n \in Nat \ {0} /\ m \in Nat \ {0}
  BY Sized
<1>2. CASE Create
  <2> USE <1>2
  <2>1. i \in Thread /\ thread[i] = "none"
    <3>1. i \in Thread /\ i >= i /\ adder = "create"
      BY DEF SumTypeOK, Thread, Create
    <3> QED BY <3>1 DEF DataInv
  <2>2. Block(i) \in [start : 0 .. n, end : 0 .. n]
    BY <1>1, <2>1, BlockType
  <2>3. /\ n' = n /\ m' = m
        /\ Thread' = Thread /\ Position' = Position
    BY DEF Create, Thread, Position
  <2>4. \A t \in Thread : Block(t)' = Block(t)
    BY <2>3 DEF Block
  <2>5. /\ i + 1 < m => i' = i + 1 /\ adder' = "create"
        /\ ~(i + 1 < m) => i' = 0 /\ adder' = "join"
    BY DEF Create, Loop
  <2>6. i' \in Thread' /\ adder' \in {"create", "join"}
    BY <1>1, <2>1, <2>3, <2>5 DEF Thread
  <2>7. PICK w \in {"running", "failed"} : thread' = [thread EXCEPT ![i] = w]
    BY DEF Create
  <2>8. data' = [data EXCEPT ![i] = Block(i)] /\ UNCHANGED <<partial, multi_sum>>
    BY DEF Create
  <2>9. SumTypeOK'
    <3>1. thread' \in [Thread -> {"none", "running", "ended", "failed"}]
      BY <2>7 DEF SumTypeOK
    <3>2. data' \in [Thread -> [start : 0 .. n, end : 0 .. n]]
      BY <2>2, <2>8 DEF SumTypeOK
    <3> QED BY <2>3, <2>6, <2>8, <3>1, <3>2 DEF SumTypeOK
  <2>10. DataInv'
    <3>1. \A t \in Thread : /\ thread'[t] = IF t = i THEN w ELSE thread[t]
                            /\ data'[t] = IF t = i THEN Block(i) ELSE data[t]
      BY <2>7, <2>8 DEF SumTypeOK
    <3>2. \A t \in Thread : thread'[t] = "none" <=> adder' = "create" /\ t >= i'
      <4>0. adder = "create"
        BY DEF Create
      <4>1. \A t \in Thread : thread[t] = "none" <=> t >= i
        BY <4>0 DEF DataInv
      <4>2. \A t \in Thread : t >= i + 1 <=> t >= i /\ t # i
        BY <2>1 DEF Thread
      <4>3. ~(i + 1 < m) => \A t \in Thread : t >= i => t = i
        BY <1>1, <2>1 DEF Thread
      <4> QED BY <2>5, <2>7, <3>1, <4>1, <4>2, <4>3
    <3>3. \A t \in Thread : thread'[t] # "none" => data'[t] = Block(t)
      BY <3>1 DEF DataInv
    <3> QED BY <2>3, <2>4, <3>2, <3>3 DEF DataInv
  <2>11. PartialInv'
    <3>1. \A t \in Thread : thread'[t] = "ended" <=> thread[t] = "ended"
      BY <2>1, <2>7 DEF SumTypeOK
    <3> QED BY <2>3, <2>4, <2>8, <3>1 DEF PartialInv, Positions
  <2>12. JoinInv'
    <3>1. adder' = "join" => i' = 0
      BY <2>5
    <3> QED BY <2>3, <3>1 DEF JoinInv, Thread
  <2> QED BY <2>6, <2>9, <2>10, <2>11, <2>12 DEF JoinedBeforeSum, SumInv
<1>3. ASSUME NEW u \in Thread, SectionSum(u) PROVE PartsInv'
  <2> USE <1>3
  <2>1. /\ n' = n /\ m' = m /\ i' = i /\ adder' = adder
        /\ data' = data /\ multi_sum' = multi_sum
    BY DEF SectionSum
  <2>2. /\ Thread' = Thread /\ Position' = Position
        /\ \A t \in Thread : Block(t)' = Block(t)
    BY <2>1 DEF Thread, Position, Block
  <2>3. thread[u] = "running" /\ data[u] = Block(u)
    BY DEF SectionSum, DataInv
  <2>4. \A t \in Thread : /\ thread'[t] = IF t = u THEN "ended" ELSE thread[t]
                          /\ partial'[t] = IF t = u THEN Positions(Block(u))
                                                  ELSE partial[t]
    BY <2>3 DEF SectionSum, SumTypeOK
  <2>5. SumTypeOK'
    <3>1. Positions(Block(u)) \subseteq Position
      <4>1. Block(u).start \in 0 .. n /\ Block(u).end \in 0 .. n
        BY <1>1, BlockType
      <4> QED BY <1>1, <4>1 DEF Positions, Position
    <3>2. partial' \in [Thread -> SUBSET Position]
      BY <2>3, <3>1 DEF SectionSum, SumTypeOK
    <3>3. thread' \in [Thread -> {"none", "running", "ended", "failed"}]
      BY DEF SectionSum, SumTypeOK
    <3> QED BY <2>1, <2>2, <3>2, <3>3 DEF SumTypeOK
  <2>6. DataInv'
    BY <2>1, <2>2, <2>3, <2>4 DEF DataInv
  <2>7. PartialInv'
    BY <2>2, <2>4 DEF PartialInv, Positions
  <2>8. JoinInv' /\ JoinedBeforeSum'
    BY <2>1, <2>2, <2>4 DEF JoinInv, JoinedBeforeSum
  <2>9. SumInv'
    BY <2>1, <2>3 DEF SumInv, JoinedBeforeSum
  <2> QED BY <2>5, <2>6, <2>7, <2>8, <2>9
<1>4. CASE JoinParts
  <2> USE <1>4
  <2>1. UNCHANGED <<n, m, thread, data, partial, multi_sum>>
    BY DEF JoinParts
  <2>2. /\ Thread' = Thread /\ Position' = Position
        /\ \A t \in Thread : Block(t)' = Block(t)
    BY <2>1 DEF Thread, Position, Block
  <2>3. i \in Thread /\ adder = "join"
    BY DEF JoinParts, SumTypeOK
  <2>4. \/ /\ i + 1 < m /\ i' = i + 1 /\ adder' = "join"
           /\ thread[i] \in {"ended", "failed"}
        \/ /\ ~(i + 1 < m) /\ i' = 0 /\ adder' = "sum"
           /\ thread[i] \in {"ended", "failed"}
        \/ i' = i /\ adder' = "crashed"
    BY DEF JoinParts, Loop
  <2>5. i' \in Thread
    BY <1>1, <2>3, <2>4 DEF Thread
  <2>6. SumTypeOK'
    BY <2>1, <2>2, <2>4, <2>5 DEF SumTypeOK
  <2>7. DataInv' /\ PartialInv'
    BY <2>1, <2>2, <2>3, <2>4 DEF DataInv, PartialInv, Positions
  <2>8. JoinInv'
    <3>1. \A t \in Thread : t < i + 1 => t < i \/ t = i
      BY <2>3 DEF Thread
    <3> QED BY <2>1, <2>2, <2>3, <2>4, <3>1 DEF JoinInv
  <2>9. JoinedBeforeSum'
    <3>1. ~(i + 1 < m) => \A t \in Thread : t < i \/ t = i
      BY <1>1, <2>3 DEF Thread
    <3> QED BY <2>1, <2>2, <2>3, <2>4, <3>1 DEF JoinInv, JoinedBeforeSum
  <2> QED BY <2>4, <2>6, <2>7, <2>8, <2>9 DEF SumInv
<1>5. CASE Sum
  <2> USE <1>5
  <2>1. /\ UNCHANGED <<n, m, thread, data, partial, i>>
        /\ adder = "sum" /\ adder' = "done"
    BY DEF Sum
  <2>2. /\ Thread' = Thread /\ Position' = Position
        /\ \A t \in Thread : Block(t)' = Block(t)
    BY <2>1 DEF Thread, Position, Block
  <2>3. multi_sum' = [x \in Position |-> {t \in Thread : x \in partial[t]}]
    BY DEF Sum
  <2>4. SumTypeOK'
    BY <2>1, <2>2, <2>3 DEF SumTypeOK
  <2>5. DataInv' /\ PartialInv' /\ JoinInv'
    BY <2>1, <2>2 DEF DataInv, PartialInv, JoinInv, Positions
  <2>6. JoinedBeforeSum' /\ SumInv'
    BY <2>1, <2>2, <2>3 DEF JoinedBeforeSum, SumInv
  <2> QED BY <2>4, <2>5, <2>6
<1>6. CASE UNCHANGED sumVars
  BY <1>6 DEF sumVars, SumTypeOK, DataInv, PartialInv, JoinInv, SumInv,
              JoinedBeforeSum, Thread, Position, Block, Positions
<1> QED BY <1>2, <1>3, <1>4, <1>5, <1>6 DEF SumNext, SumMain

LEMMA PartsInvariance == SumSpec => []PartsInv
<1>1. SumInit => PartsInv
  BY PartsInit
<1>2. PartsInv /\ [SumNext]_sumVars => PartsInv'
  BY PartsInductive
<1> QED BY <1>1, <1>2, PTL DEF SumSpec

----------------------------------------------------------------------------
\* Every variable keeps its type.
THEOREM PartsTypeCorrect == SumSpec => []SumTypeOK
<1>1. PartsInv => SumTypeOK
  BY DEF PartsInv
<1> QED BY <1>1, PartsInvariance, PTL

\* For every n and m the blocks partition the vector: they follow one another
\* from its first position to its last (main.cpp:75-81).
THEOREM Partition == SumSpec => []BlocksAdjoin
<1>1. PartsInv => BlocksAdjoin
  <2> SUFFICES ASSUME PartsInv, NEW t \in Thread, thread[t] # "none"
               PROVE  /\ data[t].start = IF t = 0 THEN 0 ELSE data[t-1].end
                      /\ data[t].start <= data[t].end
                      /\ t = m-1 => data[t].end = n
    BY DEF BlocksAdjoin
  <2> USE DEF PartsInv
  <2>1. n \in Nat \ {0} /\ m \in Nat \ {0} /\ i \in Nat
    BY Sized DEF SumTypeOK, Thread
  <2>2. data[t] = Block(t)
    BY DEF DataInv
  <2>3. t # 0 => t-1 \in Thread /\ thread[t-1] # "none"
    BY <2>1 DEF Thread, DataInv
  <2>4. t # 0 => data[t-1] = Block(t-1)
    BY <2>3 DEF DataInv
  <2> QED BY <2>1, <2>2, <2>4, BlocksFollow, BlockType
<1> QED BY <1>1, PartsInvariance, PTL

\* The sum of the parts is the sum of the whole: every position is added once,
\* through the thread whose block it lies in (main.cpp:77-90).
THEOREM SumOfParts == SumSpec => []EachPositionOnce
<1>1. PartsInv => EachPositionOnce
  <2> SUFFICES ASSUME PartsInv, adder = "done", NEW x \in Position
               PROVE  \E t \in Thread :
                        /\ x \in Positions(data[t])
                        /\ multi_sum[x] = IF thread[t] = "failed" THEN {} ELSE {t}
    BY DEF EachPositionOnce
  <2> USE DEF PartsInv
  <2>1. n \in Nat \ {0} /\ m \in Nat \ {0}
    BY Sized
  <2>2. PICK t \in Thread : /\ x \in Positions(Block(t))
                           /\ \A s \in Thread :
                                x \in Positions(Block(s)) => s = t
    BY <2>1, OneBlock
  <2>3. \A s \in Thread : thread[s] \in {"ended", "failed"} /\ data[s] = Block(s)
    BY DEF JoinedBeforeSum, DataInv
  <2>4. multi_sum[x] = {s \in Thread : x \in partial[s]}
    BY DEF SumInv
  <2>5. \A s \in Thread : x \in partial[s] <=> s = t /\ thread[t] # "failed"
    BY <2>2, <2>3 DEF PartialInv
  <2>6. multi_sum[x] = IF thread[t] = "failed" THEN {} ELSE {t}
    BY <2>4, <2>5
  <2> QED BY <2>2, <2>3, <2>6
<1> QED BY <1>1, PartsInvariance, PTL

\* main adds the partial sums when no thread is left that could write one
\* (main.cpp:86-90).
THEOREM JoinsFirst == SumSpec => []JoinedBeforeSum
<1>1. PartsInv => JoinedBeforeSum
  BY DEF PartsInv
<1> QED BY <1>1, PartsInvariance, PTL
=============================================================================
