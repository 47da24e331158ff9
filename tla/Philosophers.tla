---------------------------- MODULE Philosophers ----------------------------
(***************************************************************************)
(* Philosophers/main.cpp: main creates one semaphore per stick, forks one  *)
(* process per philosopher, waits for as many children and destroys the    *)
(* semaphores.  Philosopher 0 takes its sticks in the other order.         *)
(***************************************************************************)
EXTENDS Naturals, FiniteSets

CONSTANTS
  N,          \* philosophers, and sticks: the macro N
  Meals,      \* meals of each philosopher: the bound of the loop over meals
  MaxFaults   \* bound: forks that fail and philosophers killed, together

ASSUME PhilosophersAssumption ==
  /\ N \in Nat \ {0, 1}
  /\ Meals \in Nat
  /\ MaxFaults \in Nat

Philosopher == 0 .. N-1
Stick == 0 .. N-1

VARIABLES
  stick,    \* value of each semaphore
  pc,       \* where each philosopher is
  meals,    \* meals each philosopher has finished
  main,     \* where main is
  k,        \* main's loop index
  reaped,   \* children whose end a wait(NULL) has returned
  killed    \* philosophers that died; their pc stays where they died

vars == <<stick, pc, meals, main, k, reaped, killed>>

PC == {"unborn", "not_forked", "think", "take_second", "eat", "put_first", "exited"}

TypeOK ==
  /\ stick \in [Stick -> {0, 1}]
  /\ pc \in [Philosopher -> PC]
  /\ meals \in [Philosopher -> 0 .. Meals]
  /\ main \in {"fork", "wait", "destroy", "done"}
  /\ k \in 0 .. N-1
  /\ reaped \subseteq Philosopher
  /\ killed \subseteq Philosopher

\* Mutant of Order: philosopher 0 takes its left stick first, like the others.
OrderUnswapped(p) == [first |-> p, second |-> (p + 1) % N]

\* left and right after the swap.
Order(p) == IF p = 0 THEN [first |-> (p + 1) % N, second |-> p]
                     ELSE [first |-> p, second |-> (p + 1) % N]

First(p)  == Order(p).first
Second(p) == Order(p).second

Holds(p, s) ==
  \/ s = First(p)  /\ pc[p] \in {"take_second", "eat", "put_first"}
  \/ s = Second(p) /\ pc[p] = "eat"

Faults == killed \cup {p \in Philosopher : pc[p] = "not_forked"}
Alive(p) == p \notin killed

Init ==
  /\ stick = [s \in Stick |-> 1]
  /\ pc = [p \in Philosopher |-> "unborn"]
  /\ meals = [p \in Philosopher |-> 0]
  /\ main = "fork"
  /\ k = 0
  /\ reaped = {}
  /\ killed = {}

----------------------------------------------------------------------------
\* A philosopher.  Thinking and eating take time and no shared state: they are
\* what a philosopher does before the next step.

At(p, label) == Alive(p) /\ pc[p] = label
Goto(p, label) == pc' = [pc EXCEPT ![p] = label] /\ UNCHANGED <<main, k, reaped, killed>>

SemWait(s) == stick[s] > 0 /\ stick' = [stick EXCEPT ![s] = @ - 1]
SemPost(s) == stick' = [stick EXCEPT ![s] = @ + 1]

TakeFirst(p) ==
  /\ At(p, "think")
  /\ meals[p] < Meals
  /\ SemWait(First(p))
  /\ Goto(p, "take_second")
  /\ UNCHANGED meals

TakeSecond(p) ==
  /\ At(p, "take_second")
  /\ SemWait(Second(p))
  /\ Goto(p, "eat")
  /\ UNCHANGED meals

PutSecond(p) ==
  /\ At(p, "eat")
  /\ SemPost(Second(p))
  /\ Goto(p, "put_first")
  /\ UNCHANGED meals

\* Mutant of PutFirst: the second stick is posted twice.
PutSecondAgain(p) ==
  /\ At(p, "put_first")
  /\ SemPost(Second(p))
  /\ meals' = [meals EXCEPT ![p] = @ + 1]
  /\ Goto(p, "think")

PutFirst(p) ==
  /\ At(p, "put_first")
  /\ SemPost(First(p))
  /\ meals' = [meals EXCEPT ![p] = @ + 1]
  /\ Goto(p, "think")

Leave(p) ==
  /\ At(p, "think")
  /\ meals[p] = Meals
  /\ Goto(p, "exited")
  /\ UNCHANGED <<stick, meals>>

\* The environment: a signal ends a child wherever it is; its semaphores stay
\* as they are.
Kill(p) ==
  /\ Alive(p)
  /\ pc[p] \notin {"unborn", "not_forked", "exited"}
  /\ Cardinality(Faults) < MaxFaults
  /\ killed' = killed \cup {p}
  /\ UNCHANGED <<stick, pc, meals, main, k, reaped>>

----------------------------------------------------------------------------
\* main.

Loop(next) == IF k + 1 < N THEN k' = k + 1 /\ UNCHANGED main
                           ELSE k' = 0 /\ main' = next

\* fork returns -1 in no child: main goes on without looking.
Fork ==
  /\ main = "fork"
  /\ \/ pc' = [pc EXCEPT ![k] = "think"]
     \/ Cardinality(Faults) < MaxFaults /\ pc' = [pc EXCEPT ![k] = "not_forked"]
  /\ Loop("wait")
  /\ UNCHANGED <<stick, meals, reaped, killed>>

Children == {p \in Philosopher : pc[p] \notin {"unborn", "not_forked"}}
Ended(p) == pc[p] = "exited" \/ ~Alive(p)

\* Mutants of Wait: it returns without a child that has ended; it does not
\* return when main has no child left.
WaitNoHang ==
  /\ main = "wait"
  /\ reaped' = reaped \cup {p \in Children \ reaped : Ended(p)}
  /\ Loop("destroy")
  /\ UNCHANGED <<stick, pc, meals, killed>>

WaitForChild ==
  /\ main = "wait"
  /\ \E p \in Children \ reaped : Ended(p) /\ reaped' = reaped \cup {p}
  /\ Loop("destroy")
  /\ UNCHANGED <<stick, pc, meals, killed>>

\* wait(NULL) returns one ended child, or fails at once when main has none left.
Wait ==
  /\ main = "wait"
  /\ \/ \E p \in Children \ reaped : Ended(p) /\ reaped' = reaped \cup {p}
     \/ Children \subseteq reaped /\ UNCHANGED reaped
  /\ Loop("destroy")
  /\ UNCHANGED <<stick, pc, meals, killed>>

\* sem_destroy and munmap of stick k.
Destroy ==
  /\ main = "destroy"
  /\ Loop("done")
  /\ UNCHANGED <<stick, pc, meals, reaped, killed>>

Main == Fork \/ Wait \/ Destroy

Dine(p) == \/ TakeFirst(p)
           \/ TakeSecond(p)
           \/ PutSecond(p)
           \/ PutFirst(p)
           \/ Leave(p)

Next == Main \/ \E p \in Philosopher : Dine(p) \/ Kill(p)

Spec == Init /\ [][Next]_vars

\* Every process that can run does.
FairSpec == Spec /\ WF_vars(Main) /\ \A p \in Philosopher : WF_vars(Dine(p))

----------------------------------------------------------------------------
\* A stick is worth 1 exactly when nobody holds it and no two philosophers
\* hold it: neighbours never eat together, and no stick is lost or posted
\* twice (main.cpp:33-41).
SticksAreExclusive ==
  \A s \in Stick :
    /\ stick[s] = 1 <=> \A p \in Philosopher : ~Holds(p, s)
    /\ \A p, q \in Philosopher : Holds(p, s) /\ Holds(q, s) => p = q

Wanted(p) == IF pc[p] = "think" THEN First(p) ELSE Second(p)
Waiting(p) ==
  /\ Alive(p)
  /\ \/ pc[p] = "think" /\ meals[p] < Meals
     \/ pc[p] = "take_second"
  /\ stick[Wanted(p)] = 0
WaitsFor(p, q) == Waiting(p) /\ Holds(q, Wanted(p))

\* No set of philosophers, each waiting for a stick another of them holds:
\* what the swap of main.cpp:26 is for.
NoCircularWait ==
  \A C \in (SUBSET {p \in Philosopher : Waiting(p)}) \ {{}} :
    \E p \in C : \A q \in C : ~WaitsFor(p, q)

DeadHolder == \E p \in killed, s \in Stick : Holds(p, s)

\* While a child still dines somebody can move, unless a philosopher was
\* killed with a stick in its hand (sem_wait of main.cpp:33 has no timeout).
NoDeadlock ==
  LET Diners == {p \in Children \ killed : pc[p] # "exited"}
  IN Diners # {} => (\E p \in Diners : ~Waiting(p)) \/ DeadHolder

\* No stick is destroyed while a child may still use one, whatever the order
\* in which children end and although main ignores failed forks and the result
\* of wait (main.cpp:53, 60, 63).
SticksOutliveChildren ==
  main \in {"destroy", "done"} => \A p \in Children : Ended(p)

\* main gets to its end, unless a philosopher was killed with a stick in hand.
Finishes == <>(main = "done" \/ DeadHolder)
=============================================================================
