------------------------------ MODULE Smokers ------------------------------
(***************************************************************************)
(* Smokers/main.cpp: main forks one smoker per ingredient, writes each     *)
(* ingredient it reads to the pipe of its smoker, and at the end of the    *)
(* input closes the pipes, signals the smokers and waits for them.  The    *)
(* flag that stops a smoker is shared by all of them, under a mutex in     *)
(* shared memory that the signal handler locks too.                        *)
(*                                                                         *)
(* A pipe carries copies of one byte, so its contents are a number.  The   *)
(* handler is installed with signal, which in glibc restarts an            *)
(* interrupted read: the EINTR branch of the loop is never taken.          *)
(***************************************************************************)
EXTENDS Naturals

CONSTANTS
  N,          \* smokers and pipes: 3 in the code
  MaxGiven    \* bound: ingredients for each smoker, below the size of a pipe

ASSUME SmokersAssumption ==
  /\ N \in Nat \ {0}
  /\ MaxGiven \in Nat

Smoker == 0 .. N-1
Nobody == N   \* no smoker holds the mutex

VARIABLES
  pipe,       \* bytes in each pipe
  smoked,     \* lines each smoker has printed
  given,      \* history: ingredients written to each pipe
  terminate,  \* SharedData::terminate
  mutex,      \* the smoker that holds SharedData::mtx, or Nobody
  pc,         \* where each smoker is in its loop
  signal,     \* each smoker's SIGTERM: not sent, pending, or where the handler is
  main,       \* where main is
  k,          \* main's loop index
  closed      \* pipes whose write end main has closed

vars == <<pipe, smoked, given, terminate, mutex, pc, signal, main, k, closed>>

InHandler == {"lock", "asleep", "set"}

TypeOK ==
  /\ pipe \in [Smoker -> 0 .. MaxGiven]
  /\ smoked \in [Smoker -> 0 .. MaxGiven]
  /\ given \in [Smoker -> 0 .. MaxGiven]
  /\ terminate \in BOOLEAN
  /\ mutex \in Smoker \cup {Nobody}
  /\ pc \in [Smoker -> {"unborn", "born", "lock", "asleep", "check", "read", "print",
                        "leave", "exited"}]
  /\ signal \in [Smoker -> InHandler \cup {"none", "pending", "handled"}]
  /\ main \in {"fork", "input", "close", "kill", "wait", "done", "sigpipe"}
  /\ k \in Smoker
  /\ closed \subseteq Smoker

Init ==
  /\ pipe = [s \in Smoker |-> 0]
  /\ smoked = [s \in Smoker |-> 0]
  /\ given = [s \in Smoker |-> 0]
  /\ terminate = FALSE
  /\ mutex = Nobody
  /\ pc = [s \in Smoker |-> "unborn"]
  /\ signal = [s \in Smoker |-> "none"]
  /\ main = "fork"
  /\ k = 0
  /\ closed = {}

Running(s) == pc[s] \notin {"unborn", "exited"}

\* A smoker closes its own write end and keeps those of the others.
HasWriter(s) == s \notin closed \/ \E t \in Smoker \ {s} : Running(t)

\* main closes a read end after each fork: a later smoker does not inherit it.
HasReader(s) == \E t \in 0 .. s : Running(t)

----------------------------------------------------------------------------
\* The loop of a smoker.  It stands still while its handler runs.

At(s, label) == pc[s] = label /\ signal[s] \notin InHandler
Goto(s, label) == pc' = [pc EXCEPT ![s] = label] /\ UNCHANGED <<signal, main, k, closed, given>>

Start(s) ==
  /\ At(s, "born")
  /\ Goto(s, "lock")
  /\ UNCHANGED <<pipe, smoked, terminate, mutex>>

Lock(s) ==
  /\ At(s, "lock")
  /\ mutex = Nobody
  /\ mutex' = s
  /\ Goto(s, "check")
  /\ UNCHANGED <<pipe, smoked, terminate>>

\* std::mutex is private to a process: an unlock in another one need not wake
\* the smoker that found it locked.
Sleep(s) ==
  /\ At(s, "lock")
  /\ mutex # Nobody
  /\ Goto(s, "asleep")
  /\ UNCHANGED <<pipe, smoked, terminate, mutex>>

Wake(s) ==
  /\ At(s, "asleep")
  /\ Goto(s, "lock")
  /\ UNCHANGED <<pipe, smoked, terminate, mutex>>

\* Mutant of Check: the break leaves with the mutex locked.
CheckKeepsLock(s) ==
  /\ At(s, "check")
  /\ mutex' = IF terminate THEN mutex ELSE Nobody
  /\ Goto(s, IF terminate THEN "leave" ELSE "read")
  /\ UNCHANGED <<pipe, smoked, terminate>>

Check(s) ==
  /\ At(s, "check")
  /\ mutex' = Nobody
  /\ Goto(s, IF terminate THEN "leave" ELSE "read")
  /\ UNCHANGED <<pipe, smoked, terminate>>

Read(s) ==
  /\ At(s, "read")
  /\ pipe[s] > 0
  /\ pipe' = [pipe EXCEPT ![s] = @ - 1]
  /\ Goto(s, "print")
  /\ UNCHANGED <<smoked, terminate, mutex>>

\* Mutant of ReadEnd: an empty pipe ends the loop, whoever may still write.
ReadEndEmpty(s) ==
  /\ At(s, "read")
  /\ pipe[s] = 0
  /\ Goto(s, "leave")
  /\ UNCHANGED <<pipe, smoked, terminate, mutex>>

ReadEnd(s) ==
  /\ At(s, "read")
  /\ pipe[s] = 0
  /\ ~HasWriter(s)
  /\ Goto(s, "leave")
  /\ UNCHANGED <<pipe, smoked, terminate, mutex>>

\* Mutants of PrintLine: the line is printed twice; the loop ends after one line.
PrintTwice(s) ==
  /\ At(s, "print")
  /\ smoked' = [smoked EXCEPT ![s] = @ + 2]
  /\ Goto(s, "lock")
  /\ UNCHANGED <<pipe, terminate, mutex>>

PrintOnce(s) ==
  /\ At(s, "print")
  /\ smoked' = [smoked EXCEPT ![s] = @ + 1]
  /\ Goto(s, "leave")
  /\ UNCHANGED <<pipe, terminate, mutex>>

PrintLine(s) ==
  /\ At(s, "print")
  /\ smoked' = [smoked EXCEPT ![s] = @ + 1]
  /\ Goto(s, "lock")
  /\ UNCHANGED <<pipe, terminate, mutex>>

\* exit closes every descriptor of the smoker.
Leave(s) ==
  /\ At(s, "leave")
  /\ Goto(s, "exited")
  /\ UNCHANGED <<pipe, smoked, terminate, mutex>>

----------------------------------------------------------------------------
\* SIGTERM in a smoker: before the handler is installed it ends the process.

Handle(s, label) ==
  /\ signal' = [signal EXCEPT ![s] = label]
  /\ UNCHANGED <<pipe, smoked, given, main, k, closed>>

Deliver(s) ==
  /\ signal[s] = "pending"
  /\ Running(s)
  /\ IF pc[s] = "born"
     THEN pc' = [pc EXCEPT ![s] = "exited"] /\ Handle(s, "handled")
     ELSE Handle(s, "lock") /\ UNCHANGED pc
  /\ UNCHANGED <<terminate, mutex>>

HandlerLock(s) ==
  /\ signal[s] = "lock"
  /\ mutex = Nobody
  /\ mutex' = s
  /\ Handle(s, "set")
  /\ UNCHANGED <<pc, terminate>>

\* Also when the holder is s itself, which the signal has interrupted.
HandlerSleep(s) ==
  /\ signal[s] = "lock"
  /\ mutex # Nobody
  /\ Handle(s, "asleep")
  /\ UNCHANGED <<pc, terminate, mutex>>

HandlerWake(s) ==
  /\ signal[s] = "asleep"
  /\ Handle(s, "lock")
  /\ UNCHANGED <<pc, terminate, mutex>>

\* The handler returns: a read and a wait for the mutex start again.
HandlerSet(s) ==
  /\ signal[s] = "set"
  /\ terminate' = TRUE
  /\ mutex' = Nobody
  /\ pc' = [pc EXCEPT ![s] = IF @ = "asleep" THEN "lock" ELSE @]
  /\ Handle(s, "handled")

----------------------------------------------------------------------------
\* main.

Children == UNCHANGED <<smoked, terminate, mutex>>

Loop(next) == IF k + 1 < N THEN k' = k + 1 /\ UNCHANGED main
                           ELSE k' = 0 /\ main' = next

Fork ==
  /\ main = "fork"
  /\ pc' = [pc EXCEPT ![k] = "born"]
  /\ Loop("input")
  /\ Children /\ UNCHANGED <<pipe, given, signal, closed>>

\* The input offers an ingredient; any other character is ignored.  A write to
\* a pipe without a reader raises SIGPIPE.
Write(s) ==
  /\ main = "input"
  /\ given[s] < MaxGiven
  /\ IF ~HasReader(s)
     THEN main' = "sigpipe" /\ UNCHANGED <<pipe, given>>
     ELSE /\ pipe' = [pipe EXCEPT ![s] = @ + 1]
          /\ given' = [given EXCEPT ![s] = @ + 1]
          /\ UNCHANGED main
  /\ Children /\ UNCHANGED <<pc, signal, k, closed>>

EndOfInput ==
  /\ main = "input"
  /\ main' = "close"
  /\ Children /\ UNCHANGED <<pipe, given, pc, signal, k, closed>>

Close ==
  /\ main = "close"
  /\ closed' = closed \cup {k}
  /\ main' = "kill"
  /\ Children /\ UNCHANGED <<pipe, given, pc, signal, k>>

\* A smoker that has exited is a zombie and takes no notice.
Kill ==
  /\ main = "kill"
  /\ signal' = [signal EXCEPT ![k] = "pending"]
  /\ k' = (k + 1) % N
  /\ main' = IF k' = 0 THEN "wait" ELSE "close"
  /\ Children /\ UNCHANGED <<pipe, given, pc, closed>>

\* waitpid(children[k]); after the last one main destroys the shared data.
Wait ==
  /\ main = "wait"
  /\ pc[k] = "exited"
  /\ Loop("done")
  /\ Children /\ UNCHANGED <<pipe, given, pc, signal, closed>>

----------------------------------------------------------------------------
Smokes(s) ==
  \/ Start(s)
  \/ Lock(s)
  \/ Sleep(s)
  \/ Check(s)
  \/ Read(s)
  \/ ReadEnd(s)
  \/ PrintLine(s)
  \/ Leave(s)

Handles(s) ==
  \/ Deliver(s)
  \/ HandlerLock(s)
  \/ HandlerSleep(s)
  \/ HandlerSet(s)

Main == Fork \/ Close \/ Kill \/ Wait

Next ==
  \/ Main
  \/ EndOfInput
  \/ \E s \in Smoker : Write(s) \/ Smokes(s) \/ Handles(s) \/ Wake(s) \/ HandlerWake(s)

Spec == Init /\ [][Next]_vars

\* Every process that can run does, and signals are delivered.  Nobody has to
\* end the input, and who sleeps in the mutex need not be woken.
FairSpec ==
  /\ Spec
  /\ WF_vars(Main)
  /\ \A s \in Smoker : WF_vars(Smokes(s)) /\ WF_vars(Handles(s))

----------------------------------------------------------------------------
\* The mutex is held by a smoker in its test of the flag or by one whose
\* handler sets it, never by both, and every way out of the loop gives it back
\* (main.cpp:18, 27-29).
MutexHeldByOwner ==
  \A s \in Smoker : mutex = s <=> pc[s] = "check" \/ signal[s] = "set"

\* An ingredient is in its pipe, in the hands of its smoker or smoked: none is
\* lost under way or smoked twice (main.cpp:31-34, 82).
EachIngredientOnce ==
  \A s \in Smoker :
    given[s] = pipe[s] + smoked[s] + (IF pc[s] = "print" THEN 1 ELSE 0)

\* A smoker stays until the input has ended, so that main never writes to a
\* pipe without a reader; it leaves an ingredient behind only if somebody was
\* signalled (main.cpp:28-33, 82).
SmokersServeInput ==
  \A s \in Smoker : pc[s] \in {"leave", "exited"} =>
    /\ main \notin {"fork", "input", "sigpipe"}
    /\ pipe[s] > 0 => terminate \/ signal[s] = "handled"

\* The shared data is destroyed when no smoker is left to use it, and its mutex
\* is free (main.cpp:92-98).
DestroyedLast == main = "done" => mutex = Nobody /\ \A s \in Smoker : pc[s] = "exited"

\* What can hold a smoker up: it waits for an ingredient although it has been
\* signalled, nobody woke it when the mutex was unlocked, or its handler waits
\* for the loop it has interrupted.
WaitsToRead(s) == At(s, "read") /\ signal[s] = "handled" /\ pipe[s] = 0 /\ HasWriter(s)
WaitsForMutex(s) ==
  \/ (pc[s] = "asleep" \/ signal[s] = "asleep") /\ mutex = Nobody
  \/ signal[s] \in {"lock", "asleep"} /\ mutex = s
Stuck(s) == WaitsToRead(s) \/ WaitsForMutex(s)

\* While the input goes on, what is in a pipe is smoked, unless its smoker
\* sleeps in the mutex (main.cpp:27, 31).
IngredientsTaken ==
  \A s \in Smoker :
    pipe[s] > 0 ~> (pipe[s] = 0 \/ WaitsForMutex(s) \/ main \notin {"fork", "input"})

\* Once the input has ended main ends, or from some moment on there is always a
\* smoker held up in one of these ways: there is no other reason
\* (main.cpp:87-94).
EndsOrStuck ==
  main = "close" ~> (main = "done" \/ [](\E s \in Smoker : Stuck(s)))
=============================================================================
