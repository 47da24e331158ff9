------------------------- MODULE PhilosophersProofs -------------------------
(***************************************************************************)
(* Theorems about Philosophers, for any number of philosophers, meals and  *)
(* faults.  The absence of circular waits needs no invariant beyond the    *)
(* exclusive sticks: it follows from the order in which they are taken.    *)
(***************************************************************************)
EXTENDS Philosophers, FiniteSetTheorems, TLAPS

\* What main knows of its children.
ChildrenInv ==
  /\ \A p \in Philosopher : pc[p] = "unborn" <=> main = "fork" /\ p >= k
  /\ killed \subseteq Children
  /\ \A p \in reaped : p \in Children /\ Ended(p)
  /\ main = "wait" => Children \subseteq reaped \/ Cardinality(reaped) >= k
  /\ main \in {"destroy", "done"} => Children \subseteq reaped

\* A philosopher with a stick in hand has a meal left.
MealsInv ==
  \A p \in Philosopher :
    pc[p] \in {"take_second", "eat", "put_first"} => meals[p] < Meals

IInv == TypeOK /\ SticksAreExclusive /\ ChildrenInv /\ MealsInv

----------------------------------------------------------------------------
\* Arithmetic of the circle.
LEMMA Modulo ==
  ASSUME NEW p \in Philosopher
  PROVE  (p + 1) % N = IF p = N - 1 THEN 0 ELSE p + 1
  BY PhilosophersAssumption DEF Philosopher

LEMMA Sticks ==
  ASSUME NEW p \in Philosopher
  PROVE  /\ First(p) \in Stick
         /\ Second(p) \in Stick
         /\ First(p) # Second(p)
  BY Modulo, PhilosophersAssumption DEF First, Second, Order, Philosopher, Stick

\* The order of the sticks that every philosopher follows: 1, 2, ..., N-1, 0.
Rank(s) == IF s = 0 THEN N ELSE s

LEMMA SticksAscend ==
  ASSUME NEW p \in Philosopher
  PROVE  Rank(First(p)) < Rank(Second(p))
  BY Modulo, PhilosophersAssumption DEF First, Second, Order, Philosopher, Rank

----------------------------------------------------------------------------
\* The inductive invariant, part by part.
LEMMA InitIInv == Init => IInv
<1> SUFFICES ASSUME Init PROVE IInv
  OBVIOUS
<1>1. TypeOK
  BY PhilosophersAssumption DEF Init, TypeOK, PC
<1>2. SticksAreExclusive
  BY DEF Init, SticksAreExclusive, Holds
<1>3. ChildrenInv
  BY DEF Init, ChildrenInv, Philosopher
<1>4. MealsInv
  BY DEF Init, MealsInv
<1> QED
  BY <1>1, <1>2, <1>3, <1>4 DEF IInv

\* Philosopher p may do whatever a step of p can do.
Moves(p) == Dine(p) \/ Kill(p)

LEMMA StepType ==
  ASSUME IInv, Main \/ \E p \in Philosopher : Moves(p)
  PROVE  TypeOK'
<1> USE PhilosophersAssumption DEF IInv, TypeOK, PC
<1>1. CASE Main
  <2>1. k' \in 0 .. N-1 /\ main' \in {"fork", "wait", "destroy", "done"}
    BY <1>1 DEF Main, Fork, Wait, Destroy, Loop
  <2>2. pc' \in [Philosopher -> PC] /\ reaped' \subseteq Philosopher
    BY <1>1 DEF Main, Fork, Wait, Destroy, Children
  <2> QED
    BY <1>1, <2>1, <2>2 DEF Main, Fork, Wait, Destroy
<1>2. ASSUME NEW p \in Philosopher, Moves(p) PROVE TypeOK'
  <2>1. stick' \in [Stick -> {0, 1}]
    <3>1. CASE TakeFirst(p) \/ TakeSecond(p)
      BY <3>1 DEF TakeFirst, TakeSecond, SemWait
    <3>2. CASE PutFirst(p)
      BY <3>2, Sticks DEF PutFirst, SemPost, At, SticksAreExclusive, Holds
    <3>3. CASE PutSecond(p)
      BY <3>3, Sticks DEF PutSecond, SemPost, At, SticksAreExclusive, Holds
    <3>4. CASE Leave(p) \/ Kill(p)
      BY <3>4 DEF Leave, Kill
    <3> QED
      BY <1>2, <3>1, <3>2, <3>3, <3>4 DEF Moves, Dine
  <2>2. meals' \in [Philosopher -> 0 .. Meals]
    <3>1. CASE PutFirst(p)
      <4>1. meals[p] + 1 \in 0 .. Meals
        BY <3>1 DEF PutFirst, At, MealsInv
      <4> QED
        BY <3>1, <4>1 DEF PutFirst
    <3> QED
      BY <1>2, <3>1 DEF Moves, Dine, TakeFirst, TakeSecond, PutSecond, Leave, Kill
  <2>3. pc' \in [Philosopher -> PC] /\ killed' \subseteq Philosopher
    BY <1>2 DEF Moves, Dine, TakeFirst, TakeSecond, PutFirst, PutSecond, Leave, Kill, Goto
  <2>4. UNCHANGED <<main, k, reaped>>
    BY <1>2 DEF Moves, Dine, TakeFirst, TakeSecond, PutFirst, PutSecond, Leave, Kill, Goto
  <2> QED
    BY <2>1, <2>2, <2>3, <2>4
<1> QED
  BY <1>1, <1>2

LEMMA StepMeals ==
  ASSUME IInv, Main \/ \E p \in Philosopher : Moves(p)
  PROVE  MealsInv'
<1> USE DEF IInv, TypeOK, MealsInv
<1>1. CASE Main
  BY <1>1 DEF Main, Fork, Wait, Destroy
<1>2. ASSUME NEW p \in Philosopher, Moves(p) PROVE MealsInv'
  BY <1>2 DEF Moves, Dine, TakeFirst, TakeSecond, PutSecond, PutFirst, Leave, Kill, At, Goto
<1> QED
  BY <1>1, <1>2

\* Each step changes one stick together with who holds it.
LEMMA StepSticks ==
  ASSUME IInv, Main \/ \E p \in Philosopher : Moves(p)
  PROVE  SticksAreExclusive'
<1> USE DEF IInv, TypeOK
<1>1. CASE Main
  <2>1. stick' = stick
    BY <1>1 DEF Main, Fork, Wait, Destroy
  <2>2. \A p \in Philosopher, s \in Stick : Holds(p, s)' <=> Holds(p, s)
    <3>1. CASE Fork
      <4>1. PICK l \in {"think", "not_forked"} : pc' = [pc EXCEPT ![k] = l]
        BY <3>1 DEF Fork
      <4>2. pc[k] = "unborn"
        BY <3>1, PhilosophersAssumption DEF Fork, ChildrenInv, Philosopher
      <4> QED
        BY <4>1, <4>2 DEF Holds
    <3>2. CASE Wait \/ Destroy
      BY <3>2 DEF Wait, Destroy, Holds
    <3> QED
      BY <1>1, <3>1, <3>2 DEF Main
  <2> QED
    BY <2>1, <2>2 DEF SticksAreExclusive
<1>2. ASSUME NEW p \in Philosopher, Moves(p) PROVE SticksAreExclusive'
  <2>1. \A q \in Philosopher : q # p => \A s \in Stick : Holds(q, s)' <=> Holds(q, s)
    BY <1>2 DEF Moves, Dine, TakeFirst, TakeSecond, PutSecond, PutFirst, Leave, Kill, Goto, Holds
  <2>2. CASE TakeFirst(p)
    <3>1. stick[First(p)] = 1 /\ stick' = [stick EXCEPT ![First(p)] = 0]
      <4>1. stick[First(p)] = 1
        BY <2>2, Sticks DEF TakeFirst, SemWait
      <4> QED
        BY <2>2, <4>1 DEF TakeFirst, SemWait
    <3>2. pc[p] = "think" /\ pc'[p] = "take_second"
      BY <2>2 DEF TakeFirst, At, Goto
    <3>3. \A s \in Stick : ~Holds(p, s) /\ (Holds(p, s)' <=> s = First(p))
      BY <3>2 DEF Holds
    <3> QED
      BY <2>1, <3>1, <3>3, Sticks DEF SticksAreExclusive
  <2>3. CASE TakeSecond(p)
    <3>1. stick[Second(p)] = 1 /\ stick' = [stick EXCEPT ![Second(p)] = 0]
      <4>1. stick[Second(p)] = 1
        BY <2>3, Sticks DEF TakeSecond, SemWait
      <4> QED
        BY <2>3, <4>1 DEF TakeSecond, SemWait
    <3>2. pc[p] = "take_second" /\ pc'[p] = "eat"
      BY <2>3 DEF TakeSecond, At, Goto
    <3>3. \A s \in Stick : /\ Holds(p, s) <=> s = First(p)
                           /\ Holds(p, s)' <=> s \in {First(p), Second(p)}
      BY <3>2 DEF Holds
    <3> QED
      BY <2>1, <3>1, <3>3, Sticks DEF SticksAreExclusive
  <2>4. CASE PutSecond(p)
    <3>1. /\ \A s \in Stick : Holds(p, s) <=> s \in {First(p), Second(p)}
          /\ \A s \in Stick : Holds(p, s)' <=> s = First(p)
      BY <2>4, Sticks DEF PutSecond, At, Goto, Holds
    <3>2. stick' = [stick EXCEPT ![Second(p)] = 1]
      <4>1. stick[Second(p)] # 1
        BY <3>1, Sticks DEF SticksAreExclusive
      <4>2. stick[Second(p)] = 0
        BY <4>1, Sticks
      <4> QED
        BY <2>4, <4>2 DEF PutSecond, SemPost
    <3> QED
      BY <2>1, <3>1, <3>2, Sticks DEF SticksAreExclusive
  <2>5. CASE PutFirst(p)
    <3>1. /\ \A s \in Stick : Holds(p, s) <=> s = First(p)
          /\ \A s \in Stick : ~Holds(p, s)'
      BY <2>5, Sticks DEF PutFirst, At, Goto, Holds
    <3>2. stick' = [stick EXCEPT ![First(p)] = 1]
      <4>1. stick[First(p)] # 1
        BY <3>1, Sticks DEF SticksAreExclusive
      <4>2. stick[First(p)] = 0
        BY <4>1, Sticks
      <4> QED
        BY <2>5, <4>2 DEF PutFirst, SemPost
    <3> QED
      BY <2>1, <3>1, <3>2, Sticks DEF SticksAreExclusive
  <2>6. CASE Leave(p) \/ Kill(p)
    <3>1. stick' = stick /\ \A s \in Stick : Holds(p, s)' <=> Holds(p, s)
      BY <2>6 DEF Leave, Kill, At, Goto, Holds
    <3> QED
      BY <2>1, <3>1 DEF SticksAreExclusive
  <2> QED
    BY <1>2, <2>2, <2>3, <2>4, <2>5, <2>6 DEF Moves, Dine
<1> QED
  BY <1>1, <1>2

\* wait(NULL), N times, returns every child: each call either reaps one more or
\* finds that none is left.
LEMMA StepChildren ==
  ASSUME IInv, Main \/ \E p \in Philosopher : Moves(p)
  PROVE  ChildrenInv'
<1> USE DEF IInv, TypeOK
<1>1. CASE Fork
  <2>1. PICK l \in {"think", "not_forked"} : pc' = [pc EXCEPT ![k] = l]
    BY <1>1 DEF Fork
  <2>2. k \in Philosopher /\ pc[k] = "unborn"
    BY <1>1, PhilosophersAssumption DEF Fork, ChildrenInv, Philosopher
  <2>3. UNCHANGED <<reaped, killed>>
    BY <1>1 DEF Fork
  <2>4. \/ main' = "fork" /\ k' = k + 1 /\ k + 1 < N
        \/ main' = "wait" /\ k' = 0 /\ k = N - 1
    BY <1>1, PhilosophersAssumption DEF Fork, Loop
  <2>5. \A p \in Philosopher : pc'[p] = "unborn" <=> main' = "fork" /\ p >= k'
    BY <1>1, <2>1, <2>2, <2>4, PhilosophersAssumption DEF Fork, ChildrenInv, Philosopher
  <2>6. Children \subseteq Children' /\ \A p \in Children : Ended(p)' <=> Ended(p)
    BY <2>1, <2>2, <2>3 DEF Children, Ended, Alive
  <2>7. IsFiniteSet(reaped) /\ Cardinality(reaped) \in Nat
    <3>1. IsFiniteSet(Philosopher)
      BY FS_Interval, PhilosophersAssumption DEF Philosopher
    <3> QED
      BY <3>1, FS_Subset, FS_CardinalityType
  <2> QED
    BY <2>3, <2>4, <2>5, <2>6, <2>7 DEF ChildrenInv
<1>2. CASE Wait
  <2>1. UNCHANGED <<pc, killed>> /\ Children' = Children
    BY <1>2 DEF Wait, Children
  <2>2. /\ main = "wait"
        /\ \/ main' = "wait" /\ k' = k + 1
           \/ main' = "destroy" /\ k = N - 1
    BY <1>2, PhilosophersAssumption DEF Wait, Loop
  <2>3. \A p \in Philosopher : Ended(p)' <=> Ended(p)
    BY <2>1 DEF Ended, Alive
  <2>4. IsFiniteSet(Philosopher) /\ Cardinality(Philosopher) = N
    BY FS_Interval, PhilosophersAssumption DEF Philosopher
  <2>5. IsFiniteSet(reaped) /\ Cardinality(reaped) \in Nat
    BY <2>4, FS_Subset, FS_CardinalityType
  <2>6. \A p \in reaped' : p \in Children' /\ Ended(p)'
    BY <1>2, <2>1, <2>3 DEF Wait, ChildrenInv, Children
  <2>7. Children' \subseteq reaped' \/ Cardinality(reaped') >= k + 1
    <3>1. CASE Children \subseteq reaped
      BY <1>2, <3>1, <2>1 DEF Wait
    <3>2. CASE \E p \in Children \ reaped : reaped' = reaped \cup {p}
      <4>1. Cardinality(reaped') = Cardinality(reaped) + 1
        BY <3>2, <2>5, FS_AddElement
      <4>2. Cardinality(reaped) >= k
        BY <3>2, <2>2 DEF ChildrenInv
      <4> QED
        BY <4>1, <4>2, <2>5
    <3> QED
      BY <1>2, <3>1, <3>2 DEF Wait
  <2>8. Cardinality(reaped') >= N => Children' \subseteq reaped'
    <3>1. reaped' \subseteq Philosopher
      BY <2>1, <2>6 DEF Children
    <3>2. Cardinality(reaped') \in Nat /\ Cardinality(reaped') <= N
      BY <3>1, <2>4, FS_Subset, FS_CardinalityType
    <3>3. Cardinality(reaped') = N => reaped' = Philosopher
      BY <3>1, <2>4, FS_Subset
    <3>4. Children' \subseteq Philosopher
      BY <2>1 DEF Children
    <3> QED
      BY <3>2, <3>3, <3>4, PhilosophersAssumption
  <2>9. main' = "wait" => Children' \subseteq reaped' \/ Cardinality(reaped') >= k'
    BY <2>2, <2>7
  <2>10. main' \in {"destroy", "done"} => Children' \subseteq reaped'
    BY <2>2, <2>7, <2>8, PhilosophersAssumption
  <2> QED
    BY <2>1, <2>2, <2>6, <2>9, <2>10 DEF ChildrenInv
<1>3. CASE Destroy
  <2>1. UNCHANGED <<pc, reaped, killed>> /\ main = "destroy" /\ main' \in {"destroy", "done"}
    BY <1>3 DEF Destroy, Loop
  <2>2. Children' = Children /\ \A p \in Philosopher : Ended(p)' <=> Ended(p)
    BY <2>1 DEF Children, Ended, Alive
  <2> QED
    BY <2>1, <2>2 DEF ChildrenInv
<1>4. ASSUME NEW p \in Philosopher, Moves(p) PROVE ChildrenInv'
  <2>1. UNCHANGED <<main, k, reaped>>
    BY <1>4 DEF Moves, Dine, TakeFirst, TakeSecond, PutSecond, PutFirst, Leave, Kill, Goto
  <2>2. p \in Children
    BY <1>4 DEF Moves, Dine, TakeFirst, TakeSecond, PutSecond, PutFirst, Leave, Kill, At, Children
  <2>3. /\ pc' \in [Philosopher -> PC]
        /\ \A q \in Philosopher : q # p => pc'[q] = pc[q]
        /\ pc'[p] \notin {"unborn", "not_forked"}
    BY <1>4, <2>2 DEF Moves, Dine, TakeFirst, TakeSecond, PutSecond, PutFirst, Leave, Kill,
                      Goto, PC, Children
  <2>4. killed' \in {killed, killed \cup {p}}
    BY <1>4 DEF Moves, Dine, TakeFirst, TakeSecond, PutSecond, PutFirst, Leave, Kill, Goto
  <2>5. pc[p] # "exited"
    BY <1>4 DEF Moves, Dine, TakeFirst, TakeSecond, PutSecond, PutFirst, Leave, Kill, At
  <2>6. Children' = Children
    BY <2>2, <2>3 DEF Children
  <2>7. \A q \in Philosopher : Ended(q) => Ended(q)'
    BY <2>3, <2>4, <2>5 DEF Ended, Alive
  <2>8. \A q \in Philosopher : pc'[q] = "unborn" <=> pc[q] = "unborn"
    BY <2>2, <2>3 DEF Children
  <2> QED
    BY <2>1, <2>2, <2>4, <2>6, <2>7, <2>8 DEF ChildrenInv
<1> QED
  BY <1>1, <1>2, <1>3, <1>4 DEF Main

LEMMA StepIInv == IInv /\ [Next]_vars => IInv'
<1> SUFFICES ASSUME IInv, [Next]_vars PROVE IInv'
  OBVIOUS
<1>1. CASE Main \/ \E p \in Philosopher : Moves(p)
  BY <1>1, StepType, StepSticks, StepChildren, StepMeals DEF IInv
<1>2. CASE UNCHANGED vars
  BY <1>2 DEF vars, IInv, TypeOK, SticksAreExclusive, Holds, ChildrenInv, Children, Ended,
              Alive, MealsInv
<1> QED
  BY <1>1, <1>2 DEF Next, Moves

\* The invariant holds in every reachable state.
THEOREM Invariance == Spec => []IInv
<1>1. Init => IInv
  BY InitIInv
<1>2. IInv /\ [Next]_vars => IInv'
  BY StepIInv
<1> QED
  BY <1>1, <1>2, PTL DEF Spec

----------------------------------------------------------------------------
\* The sticks are the numbers 0 to N-1 and the children are all that was forked,
\* whatever main's loops do.
THEOREM TypeCorrect == Spec => []TypeOK
  BY Invariance, PTL DEF IInv

\* No two philosophers ever hold the same stick.
THEOREM Exclusion == Spec => []SticksAreExclusive
  BY Invariance, PTL DEF IInv

\* Every set of naturals has a least element.
LEMMA LeastNatural ==
  ASSUME NEW T \in SUBSET Nat, T # {}
  PROVE  \E x \in T : \A y \in T : x <= y
<1>1. PICK x \in T : \A y \in T : <<y, x>> \notin OpToRel(<, Nat)
  BY NatLessThanWellFounded, WFMin
<1>2. \A y \in T : ~(y < x)
  BY <1>1 DEF OpToRel
<1> QED
  BY <1>2

\* Whoever waits for a philosopher that waits too is waiting for that one's
\* first stick.
LEMMA WaitsForFirst ==
  ASSUME IInv, NEW p \in Philosopher, NEW q \in Philosopher,
         WaitsFor(p, q), Waiting(q)
  PROVE  Wanted(p) = First(q) /\ Wanted(q) = Second(q) /\ pc[q] = "take_second"
  BY DEF WaitsFor, Waiting, Wanted, Holds

\* In a circle the philosopher whose second stick ranks highest waits for one
\* whose first stick is that one, and whose second stick ranks higher still.
LEMMA Acyclic == IInv => NoCircularWait
<1> SUFFICES ASSUME IInv,
                    NEW C \in (SUBSET {p \in Philosopher : Waiting(p)}) \ {{}},
                    \A p \in C : \E q \in C : WaitsFor(p, q)
             PROVE  FALSE
  BY DEF NoCircularWait
<1> DEFINE D == {q \in C : \E p \in C : WaitsFor(p, q)}
           Height(q) == N - Rank(Second(q))
<1>1. D # {}
  OBVIOUS
<1>2. \A q \in D : Height(q) \in Nat
  BY Sticks, PhilosophersAssumption DEF Rank, Stick
<1>3. {Height(q) : q \in D} \in SUBSET Nat /\ {Height(q) : q \in D} # {}
  BY <1>1, <1>2
<1>4. PICK h \in {Height(q) : q \in D} : \A x \in {Height(q) : q \in D} : h <= x
  BY <1>3, LeastNatural
<1>5. PICK q \in D : \A r \in D : Height(q) <= Height(r)
  BY <1>4
<1>6. PICK r \in C : WaitsFor(q, r)
  OBVIOUS
<1>7. \A x \in C : Waiting(x)
  BY DEF WaitsFor
<1>8. Wanted(q) = Second(q)
  BY <1>7, WaitsForFirst
<1>9. Wanted(q) = First(r)
  BY <1>6, <1>7, WaitsForFirst
<1>10. r \in D
  BY <1>6
<1>11. Rank(Second(q)) < Rank(Second(r))
  BY <1>8, <1>9, SticksAscend
<1>12. Rank(Second(q)) \in Nat /\ Rank(Second(r)) \in Nat
  BY Sticks, PhilosophersAssumption DEF Rank, Stick
<1> QED
  BY <1>5, <1>10, <1>11, <1>12, PhilosophersAssumption

\* The philosophers never wait for one another in a circle.
THEOREM NoCircle == Spec => []NoCircularWait
  BY Invariance, Acyclic, PTL

\* If every child that still dines were waiting, and no dead one held a stick,
\* they would wait for one another.
LEMMA SomebodyMoves == IInv => NoDeadlock
<1> DEFINE Diners == {p \in Children \ killed : pc[p] # "exited"}
<1> SUFFICES ASSUME IInv,
                    Diners # {},
                    \A p \in Diners : Waiting(p),
                    ~DeadHolder
             PROVE  FALSE
  BY DEF NoDeadlock
<1>1. \A p \in Diners : \E q \in Diners : WaitsFor(p, q)
  <2> TAKE p \in Diners
  <2>1. p \in Philosopher /\ Waiting(p)
    BY DEF Children
  <2>2. Wanted(p) \in Stick /\ stick[Wanted(p)] = 0
    BY <2>1, Sticks DEF Waiting, Wanted
  <2>3. PICK q \in Philosopher : Holds(q, Wanted(p))
    BY <2>2 DEF IInv, SticksAreExclusive
  <2>4. q \notin killed
    BY <2>2, <2>3 DEF DeadHolder
  <2>5. pc[q] \in {"take_second", "eat", "put_first"}
    BY <2>3 DEF Holds
  <2>6. q \in Diners
    BY <2>4, <2>5 DEF Children
  <2> QED
    BY <2>1, <2>3, <2>6 DEF WaitsFor
<1>2. Diners \in (SUBSET {p \in Philosopher : Waiting(p)}) \ {{}}
  BY DEF Children
<1> QED
  BY <1>1, <1>2, Acyclic DEF NoCircularWait

\* Somebody can always move, unless a philosopher died with a stick in hand.
THEOREM DeadlockFree == Spec => []NoDeadlock
  BY Invariance, SomebodyMoves, PTL

\* main destroys the sticks after the last child has ended.
THEOREM DestroyedLast == Spec => []SticksOutliveChildren
<1>1. IInv => SticksOutliveChildren
  BY DEF IInv, ChildrenInv, SticksOutliveChildren
<1> QED
  BY <1>1, Invariance, PTL

----------------------------------------------------------------------------
\* Why main comes to its end.  Each process has a way to go, a number of steps
\* that no step of another process makes longer.
Way(p) ==
  LET left == 4 * (Meals - meals[p])
  IN CASE p \in killed \/ pc[p] \in {"not_forked", "exited"} -> 0
       [] Alive(p) /\ pc[p] = "unborn"      -> left + 2
       [] Alive(p) /\ pc[p] = "think"       -> left + 1
       [] Alive(p) /\ pc[p] = "take_second" -> left
       [] Alive(p) /\ pc[p] = "eat"         -> left - 1
       [] Alive(p) /\ pc[p] = "put_first"   -> left - 2

MainWay ==
  CASE main = "fork"    -> 3 * N - k
    [] main = "wait"    -> 2 * N - k
    [] main = "destroy" -> N - k
    [] main = "done"    -> 0

WaysAreNumbers == MainWay \in Nat /\ \A p \in Philosopher : Way(p) \in Nat

\* A step shortens the way of one process and lengthens none.
StepCounts ==
  \/ MainWay' < MainWay /\ \A p \in Philosopher : Way(p)' <= Way(p)
  \/ \E p \in Philosopher : /\ Way(p)' < Way(p)
                            /\ \A q \in Philosopher \ {p} : Way(q)' = Way(q)
                            /\ MainWay' = MainWay

\* Who has a step to take, with the guards that the code has.
DineCan(p) ==
  /\ Alive(p)
  /\ \/ pc[p] \in {"think", "take_second"} /\ ~Waiting(p)
     \/ pc[p] \in {"eat", "put_first"}
MainCan ==
  \/ main \in {"fork", "destroy"}
  \/ main = "wait" /\ (Children \subseteq reaped \/ \E p \in Children \ reaped : Ended(p))
SomebodyCan == main = "done" \/ MainCan \/ \E p \in Philosopher : DineCan(p)

LEMMA WayValues ==
  ASSUME IInv, NEW p \in Philosopher
  PROVE  /\ Meals - meals[p] \in Nat
         /\ ~Alive(p) \/ pc[p] \in {"not_forked", "exited"} => Way(p) = 0
         /\ Alive(p) /\ pc[p] = "unborn" => Way(p) = 4 * (Meals - meals[p]) + 2
         /\ Alive(p) /\ pc[p] = "think" => Way(p) = 4 * (Meals - meals[p]) + 1
         /\ Alive(p) /\ pc[p] = "take_second" =>
              Way(p) = 4 * (Meals - meals[p]) /\ Meals - meals[p] >= 1
         /\ Alive(p) /\ pc[p] = "eat" =>
              Way(p) = 4 * (Meals - meals[p]) - 1 /\ Meals - meals[p] >= 1
         /\ Alive(p) /\ pc[p] = "put_first" =>
              Way(p) = 4 * (Meals - meals[p]) - 2 /\ Meals - meals[p] >= 1
<1>1. meals[p] \in 0 .. Meals /\ Meals \in Nat
  BY PhilosophersAssumption DEF IInv, TypeOK
<1>2. pc[p] \in {"take_second", "eat", "put_first"} => meals[p] < Meals
  BY DEF IInv, MealsInv
<1> QED
  BY <1>1, <1>2 DEF Way, Alive

LEMMA WaysNumbered == IInv => WaysAreNumbers
<1> SUFFICES ASSUME IInv PROVE WaysAreNumbers
  OBVIOUS
<1>1. MainWay \in Nat
  BY PhilosophersAssumption DEF IInv, TypeOK, MainWay
<1>2. ASSUME NEW p \in Philosopher PROVE Way(p) \in Nat
  <2>1. pc[p] \in PC
    BY DEF IInv, TypeOK
  <2> QED
    BY <2>1, WayValues DEF PC
<1> QED
  BY <1>1, <1>2 DEF WaysAreNumbers

\* A process whose variables do not change keeps its way.
LEMMA WayKept ==
  ASSUME IInv, IInv', NEW p \in Philosopher, pc'[p] = pc[p], meals'[p] = meals[p],
         p \in killed' <=> p \in killed
  PROVE  Way(p)' = Way(p)
BY DEF Way, Alive

LEMMA StepDines ==
  ASSUME IInv, IInv', NEW p \in Philosopher, Moves(p)
  PROVE  Way(p)' < Way(p)
<1> DEFINE d == Meals - meals[p]
<1>0. d \in Nat /\ Meals \in Nat /\ meals[p] \in Nat
  BY PhilosophersAssumption DEF IInv, TypeOK
<1>1. CASE Kill(p)
  <2>1. Alive(p) /\ pc[p] \in {"think", "take_second", "eat", "put_first"} /\ ~Alive(p)'
    BY <1>1 DEF Kill, Alive, IInv, TypeOK, PC
  <2>2. Way(p)' = 0
    BY <2>1 DEF Way, Alive
  <2>3. Way(p) >= 1 /\ Way(p) \in Nat
    BY <1>0, <2>1, WayValues, WaysNumbered DEF WaysAreNumbers
  <2> HIDE DEF d
  <2> QED
    BY <2>2, <2>3
<1>2. CASE Dine(p)
  <2>1. Alive(p) /\ Alive(p)'
    BY <1>2 DEF Dine, TakeFirst, TakeSecond, PutSecond, PutFirst, Leave, At, Goto, Alive
  <2>2. /\ Alive(p)' /\ pc'[p] = "take_second" => Way(p)' = 4 * (Meals - meals'[p])
        /\ Alive(p)' /\ pc'[p] = "eat" => Way(p)' = 4 * (Meals - meals'[p]) - 1
        /\ Alive(p)' /\ pc'[p] = "put_first" => Way(p)' = 4 * (Meals - meals'[p]) - 2
        /\ Alive(p)' /\ pc'[p] = "think" => Way(p)' = 4 * (Meals - meals'[p]) + 1
        /\ pc'[p] = "exited" => Way(p)' = 0
    BY DEF Way, Alive
  <2>3. CASE PutFirst(p)
    <3>1. pc[p] = "put_first" /\ pc'[p] = "think" /\ meals'[p] = meals[p] + 1
      BY <2>3 DEF PutFirst, At, Goto, IInv, TypeOK
    <3>2. Way(p) = 4 * (Meals - meals[p]) - 2 /\ Way(p)' = 4 * (Meals - meals'[p]) + 1
      BY <2>1, <2>2, <3>1, WayValues
    <3> QED
      BY <1>0, <3>1, <3>2
  <2>4. CASE TakeFirst(p) \/ TakeSecond(p) \/ PutSecond(p) \/ Leave(p)
    <3>1. /\ \/ pc[p] = "think" /\ pc'[p] \in {"take_second", "exited"}
             \/ pc[p] = "take_second" /\ pc'[p] = "eat"
             \/ pc[p] = "eat" /\ pc'[p] = "put_first"
          /\ meals'[p] = meals[p]
      BY <2>4 DEF TakeFirst, TakeSecond, PutSecond, Leave, At, Goto, IInv, TypeOK
    <3>2. /\ pc[p] = "think" => Way(p) = 4 * d + 1
          /\ pc[p] = "take_second" => Way(p) = 4 * d
          /\ pc[p] = "eat" => Way(p) = 4 * d - 1
      BY <2>1, WayValues
    <3>3. /\ pc'[p] = "take_second" => Way(p)' = 4 * d
          /\ pc'[p] = "eat" => Way(p)' = 4 * d - 1
          /\ pc'[p] = "put_first" => Way(p)' = 4 * d - 2
          /\ pc'[p] = "exited" => Way(p)' = 0
      BY <2>1, <2>2, <3>1
    <3> HIDE DEF d
    <3> QED
      BY <1>0, <3>1, <3>2, <3>3
  <2> QED
    BY <1>2, <2>3, <2>4 DEF Dine
<1> QED
  BY <1>1, <1>2 DEF Moves

LEMMA StepOfMain ==
  ASSUME IInv, IInv', Main
  PROVE  MainWay' < MainWay /\ \A p \in Philosopher : Way(p)' <= Way(p)
<1>1. MainWay' < MainWay
  <2>1. k \in 0 .. N-1 /\ N \in Nat \ {0, 1}
    BY PhilosophersAssumption DEF IInv, TypeOK
  <2>2. \/ main = "fork" /\ Loop("wait")
        \/ main = "wait" /\ Loop("destroy")
        \/ main = "destroy" /\ Loop("done")
    BY DEF Main, Fork, Wait, Destroy
  <2> QED
    BY <2>1, <2>2 DEF Loop, MainWay
<1>2. ASSUME NEW p \in Philosopher PROVE Way(p)' <= Way(p)
  <2>1. CASE pc'[p] = pc[p]
    <3>1. meals' = meals /\ killed' = killed
      BY DEF Main, Fork, Wait, Destroy
    <3>2. Way(p) \in Nat
      BY WaysNumbered DEF WaysAreNumbers
    <3> QED
      BY <2>1, <3>1, <3>2, WayKept
  <2>2. CASE pc'[p] # pc[p]
    <3>1. Fork /\ p = k /\ pc'[p] \in {"think", "not_forked"} /\ UNCHANGED <<meals, killed>>
      BY <2>2 DEF Main, Fork, Wait, Destroy, IInv, TypeOK
    <3>2. pc[p] = "unborn" /\ Alive(p)
      BY <3>1 DEF Fork, IInv, TypeOK, ChildrenInv, Philosopher, Children, Alive
    <3>3. Way(p) = 4 * (Meals - meals[p]) + 2 /\ Meals - meals[p] \in Nat
      BY <3>2, WayValues
    <3>4. Way(p)' = 4 * (Meals - meals[p]) + 1 \/ Way(p)' = 0
      BY <3>1, <3>2 DEF Way, Alive
    <3> QED
      BY <3>3, <3>4
  <2> QED
    BY <2>1, <2>2
<1> QED
  BY <1>1, <1>2

LEMMA EachStepCounts == IInv /\ IInv' /\ [Next]_vars => [StepCounts]_vars
<1> SUFFICES ASSUME IInv, IInv', Next PROVE StepCounts
  OBVIOUS
<1>1. ASSUME NEW p \in Philosopher, Moves(p)
      PROVE  /\ \A q \in Philosopher \ {p} : Way(q)' = Way(q)
             /\ MainWay' = MainWay
  <2>1. UNCHANGED <<main, k>>
        /\ \A q \in Philosopher \ {p} : /\ pc'[q] = pc[q] /\ meals'[q] = meals[q]
                                        /\ q \in killed' <=> q \in killed
    BY <1>1 DEF Moves, Dine, TakeFirst, TakeSecond, PutSecond, PutFirst, Leave, Kill, Goto,
               IInv, TypeOK
  <2> QED
    BY <2>1, WayKept DEF MainWay
<1> QED
  BY <1>1, StepDines, StepOfMain DEF Next, Moves, StepCounts

\* No behaviour goes on for ever: every step brings one process nearer to its end
\* and takes none away from its own, and a way of no steps is its end
\* (main.cpp:28-65).
THEOREM EveryStepCounts == Spec => []WaysAreNumbers /\ [][StepCounts]_vars
  BY Invariance, WaysNumbered, EachStepCounts, PTL DEF Spec

\* And nothing stops before main is done, but at a stick in a dead hand: so main
\* gets to its end where every process that can run does (main.cpp:33-41, 60).
THEOREM NothingStops == Spec => [](SomebodyCan \/ DeadHolder)
<1>1. IInv => SomebodyCan \/ DeadHolder
  <2> SUFFICES ASSUME IInv, ~DeadHolder, main = "wait", ~MainCan
               PROVE  \E p \in Philosopher : DineCan(p)
    BY DEF SomebodyCan, MainCan, IInv, TypeOK
  <2>1. PICK p \in Children \ reaped : ~Ended(p)
    BY DEF MainCan
  <2>2. p \in {q \in Children \ killed : pc[q] # "exited"}
    BY <2>1 DEF Ended, Alive
  <2>3. PICK q \in Children \ killed : pc[q] # "exited" /\ ~Waiting(q)
    BY <2>2, SomebodyMoves DEF NoDeadlock
  <2>4. q \in Philosopher /\ Alive(q) /\ pc[q] \in {"think", "take_second", "eat", "put_first"}
    BY <2>3 DEF Children, Alive, IInv, TypeOK, PC
  <2> QED
    BY <2>3, <2>4 DEF DineCan
<1> QED
  BY <1>1, Invariance, PTL
=============================================================================
