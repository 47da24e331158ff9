----------------------------- MODULE PipeProofs -----------------------------
(***************************************************************************)
(* Theorems about the programs whose processes talk through pipes: first   *)
(* Smokers, for any number of smokers and ingredients, then PrimePipe, for *)
(* ints of any size and any numbers whose primes are ints.                 *)
(***************************************************************************)
EXTENDS Smokers, PrimePipe, FiniteSetTheorems, TLAPS

\* What the place of main says of its children: none is signalled before the
\* input has ended, and the first k have been waited for.
PhaseInv ==
  /\ main # "sigpipe"
  /\ main \in {"fork", "input"} =>
       /\ ~terminate
       /\ closed = {}
       /\ \A s \in Smoker : signal[s] = "none"
  /\ main \in {"close", "kill"} => \A s \in k .. N-1 : signal[s] = "none"
  /\ \A s \in Smoker : pc[s] = "unborn" <=> main = "fork" /\ s >= k
  /\ main = "wait" => \A s \in 0 .. k-1 : pc[s] = "exited"
  /\ main = "done" => \A s \in Smoker : pc[s] = "exited"

\* The handler has the mutex only if the loop it interrupted has not, and ends
\* before its smoker does.
HandlerInv ==
  \A s \in Smoker :
    /\ signal[s] = "set" => pc[s] # "check"
    /\ pc[s] = "exited" => signal[s] \notin InHandler

IInv ==
  /\ TypeOK /\ MutexHeldByOwner /\ EachIngredientOnce /\ SmokersServeInput
  /\ PhaseInv /\ HandlerInv

----------------------------------------------------------------------------
LEMMA InitIInv == Init => IInv
<1> SUFFICES ASSUME Init PROVE IInv
  OBVIOUS
<1> USE SmokersAssumption DEF Init, Smoker, Nobody
<1>1. TypeOK
  <2>1. 0 \in 0 .. N-1 /\ 0 \in 0 .. MaxGiven
    OBVIOUS
  <2> QED
    BY <2>1 DEF TypeOK
<1>2. MutexHeldByOwner /\ EachIngredientOnce /\ SmokersServeInput
  BY DEF MutexHeldByOwner, EachIngredientOnce, SmokersServeInput
<1>3. PhaseInv /\ HandlerInv
  BY DEF PhaseInv, HandlerInv, InHandler
<1> QED
  BY <1>1, <1>2, <1>3 DEF IInv

\* One step of one smoker, or of main.
SmokerStep(s) == Smokes(s) \/ Handles(s) \/ Wake(s) \/ HandlerWake(s)
MainStep == Main \/ EndOfInput \/ \E s \in Smoker : Write(s)

LEMMA NextIndex ==
  ASSUME IInv
  PROVE  /\ k + 1 < N => k + 1 \in Smoker /\ (k + 1) % N = k + 1
         /\ ~(k + 1 < N) => k + 1 = N /\ (k + 1) % N = 0
         /\ 0 \in Smoker
<1>1. k \in 0 .. N-1 /\ N \in Nat \ {0}
  BY SmokersAssumption DEF IInv, TypeOK, Smoker
<1> QED
  BY <1>1 DEF Smoker

----------------------------------------------------------------------------
LEMMA StepType ==
  ASSUME IInv, MainStep \/ \E s \in Smoker : SmokerStep(s)
  PROVE  TypeOK'
<1> USE SmokersAssumption DEF IInv, TypeOK
<1>1. ASSUME NEW s \in Smoker, SmokerStep(s) PROVE TypeOK'
  <2> USE DEF Goto, Handle, InHandler
  <2>1. CASE PrintLine(s)
    <3>1. smoked[s] + 1 \in 0 .. MaxGiven
      BY <2>1 DEF PrintLine, At, EachIngredientOnce
    <3> QED
      BY <2>1, <3>1 DEF PrintLine
  <2>2. CASE Read(s)
    BY <2>2 DEF Read
  <2>3. CASE Start(s) \/ Lock(s) \/ Sleep(s) \/ Wake(s) \/ ReadEnd(s) \/ Leave(s)
    BY <2>3 DEF Start, Lock, Sleep, Wake, ReadEnd, Leave
  <2>4. CASE Check(s)
    BY <2>4 DEF Check
  <2>5. CASE Deliver(s) \/ HandlerLock(s) \/ HandlerSleep(s) \/ HandlerWake(s)
    BY <2>5 DEF Deliver, HandlerLock, HandlerSleep, HandlerWake
  <2>6. CASE HandlerSet(s)
    BY <2>6 DEF HandlerSet
  <2> QED
    BY <1>1, <2>1, <2>2, <2>3, <2>4, <2>5, <2>6 DEF SmokerStep, Smokes, Handles
<1>2. ASSUME NEW s \in Smoker, Write(s) PROVE TypeOK'
  <2>1. pipe[s] + 1 \in 0 .. MaxGiven /\ given[s] + 1 \in 0 .. MaxGiven
    BY <1>2 DEF Write, EachIngredientOnce
  <2> QED
    BY <1>2, <2>1 DEF Write, Children
<1>3. CASE Main \/ EndOfInput
  BY <1>3, NextIndex DEF Main, Fork, Close, Kill, Wait, EndOfInput, Loop, Children
<1> QED
  BY <1>1, <1>2, <1>3 DEF MainStep

\* Places of the loop outside the critical section.
PlainPlace == {"lock", "asleep", "print", "leave", "exited"}

LEMMA StepMutex ==
  ASSUME IInv, MainStep \/ \E s \in Smoker : SmokerStep(s)
  PROVE  MutexHeldByOwner'
<1> USE SmokersAssumption DEF IInv, TypeOK, MutexHeldByOwner, HandlerInv
<1>1. ASSUME NEW s \in Smoker, SmokerStep(s) PROVE MutexHeldByOwner'
  <2> USE DEF Goto, Handle, InHandler, At, Nobody, Smoker
  <2>1. CASE Lock(s)
    BY <2>1 DEF Lock
  <2>2. CASE Check(s)
    BY <2>2 DEF Check
  <2>3. CASE HandlerLock(s)
    BY <2>3 DEF HandlerLock
  <2>4. CASE HandlerSet(s)
    <3>1. \A t \in Smoker \ {s} : pc[t] # "check" /\ signal[t] # "set"
      BY <2>4 DEF HandlerSet
    <3>2. /\ \A t \in Smoker \ {s} : pc'[t] = pc[t] /\ signal'[t] = signal[t]
          /\ pc'[s] # "check" /\ signal'[s] # "set"
      BY <2>4 DEF HandlerSet
    <3> QED
      BY <2>4, <3>1, <3>2 DEF HandlerSet
  <2>5. CASE Start(s) \/ Sleep(s) \/ Wake(s) \/ Read(s) \/ ReadEnd(s) \/ PrintLine(s) \/ Leave(s)
    <3>1. /\ UNCHANGED <<mutex, signal>>
          /\ pc[s] # "check"
          /\ \E label \in PlainPlace : pc' = [pc EXCEPT ![s] = label]
      BY <2>5 DEF Start, Sleep, Wake, Read, ReadEnd, PrintLine, Leave, PlainPlace
    <3> QED
      BY <3>1 DEF PlainPlace
  <2>6. CASE HandlerSleep(s)
    BY <2>6 DEF HandlerSleep
  <2>7. CASE HandlerWake(s)
    BY <2>7 DEF HandlerWake
  <2>8. CASE Deliver(s)
    <3>1. pc[s] = "born" => mutex # s
      BY <2>8 DEF Deliver
    <3> QED
      BY <2>8, <3>1 DEF Deliver
  <2> QED
    BY <1>1, <2>1, <2>2, <2>3, <2>4, <2>5, <2>6, <2>7, <2>8 DEF SmokerStep, Smokes, Handles
<1>2. CASE Fork
  <2>1. k \in Smoker /\ pc[k] = "unborn" /\ mutex # k /\ signal[k] = "none"
    BY <1>2 DEF Fork, PhaseInv, Smoker
  <2> QED
    BY <1>2, <2>1 DEF Fork, Children
<1>3. CASE Kill
  <2>1. signal[k] # "set"
    BY <1>3 DEF Kill, PhaseInv, Smoker
  <2> QED
    BY <1>3, <2>1 DEF Kill, Children
<1>4. CASE Close \/ Wait \/ EndOfInput \/ \E s \in Smoker : Write(s)
  BY <1>4 DEF Close, Wait, EndOfInput, Write, Children
<1> QED
  BY <1>1, <1>2, <1>3, <1>4 DEF MainStep, Main

LEMMA StepHandler ==
  ASSUME IInv, MainStep \/ \E s \in Smoker : SmokerStep(s)
  PROVE  HandlerInv'
<1> USE SmokersAssumption DEF IInv, TypeOK, HandlerInv, InHandler
<1>1. ASSUME NEW s \in Smoker, SmokerStep(s) PROVE HandlerInv'
  <2> USE DEF Goto, Handle, At
  <2>1. CASE Start(s) \/ Lock(s) \/ Sleep(s) \/ Wake(s) \/ Read(s) \/ ReadEnd(s) \/ PrintLine(s)
    <3>1. UNCHANGED signal /\ signal[s] \notin InHandler
      BY <2>1 DEF Start, Lock, Sleep, Wake, Read, ReadEnd, PrintLine
    <3>2. \E label \in {"lock", "check", "asleep", "print", "leave"} :
             pc' = [pc EXCEPT ![s] = label]
      BY <2>1 DEF Start, Lock, Sleep, Wake, Read, ReadEnd, PrintLine
    <3> QED
      BY <3>1, <3>2
  <2>2. CASE Check(s) \/ Leave(s)
    BY <2>2 DEF Check, Leave
  <2>3. CASE HandlerLock(s)
    <3>1. pc[s] # "check"
      BY <2>3 DEF HandlerLock, MutexHeldByOwner, Nobody, Smoker
    <3> QED
      BY <2>3, <3>1 DEF HandlerLock
  <2>4. CASE HandlerSleep(s) \/ HandlerWake(s)
    BY <2>4 DEF HandlerSleep, HandlerWake
  <2>5. CASE HandlerSet(s)
    BY <2>5 DEF HandlerSet
  <2>6. CASE Deliver(s)
    BY <2>6 DEF Deliver, Running
  <2> QED
    BY <1>1, <2>1, <2>2, <2>3, <2>4, <2>5, <2>6 DEF SmokerStep, Smokes, Handles
<1>2. CASE Fork
  BY <1>2 DEF Fork
<1>3. CASE Kill
  BY <1>3 DEF Kill
<1>4. CASE Close \/ Wait \/ EndOfInput \/ \E s \in Smoker : Write(s)
  BY <1>4 DEF Close, Wait, EndOfInput, Write
<1> QED
  BY <1>1, <1>2, <1>3, <1>4 DEF MainStep, Main

LEMMA StepIngredients ==
  ASSUME IInv, MainStep \/ \E s \in Smoker : SmokerStep(s)
  PROVE  EachIngredientOnce'
<1> USE SmokersAssumption DEF IInv, TypeOK, EachIngredientOnce
<1>1. ASSUME NEW s \in Smoker, SmokerStep(s) PROVE EachIngredientOnce'
  <2> USE DEF Goto, Handle, At
  <2>1. CASE Read(s)
    BY <2>1 DEF Read
  <2>2. CASE PrintLine(s)
    BY <2>2 DEF PrintLine
  <2>3. CASE Start(s) \/ Lock(s) \/ Sleep(s) \/ Wake(s) \/ Check(s) \/ ReadEnd(s) \/ Leave(s)
    <3>1. UNCHANGED <<given, pipe, smoked>> /\ pc[s] # "print"
      BY <2>3 DEF Start, Lock, Sleep, Wake, Check, ReadEnd, Leave
    <3>2. \E label \in PlainPlace \cup {"check", "read"} :
            label # "print" /\ pc' = [pc EXCEPT ![s] = label]
      BY <2>3 DEF Start, Lock, Sleep, Wake, Check, ReadEnd, Leave, PlainPlace
    <3> QED
      BY <3>1, <3>2
  <2>4. CASE Handles(s) \/ HandlerWake(s)
    BY <2>4 DEF Handles, Deliver, HandlerLock, HandlerSleep, HandlerSet, HandlerWake
  <2> QED
    BY <1>1, <2>1, <2>2, <2>3, <2>4 DEF SmokerStep, Smokes
<1>2. CASE Fork
  <2>1. pc[k] = "unborn"
    BY <1>2 DEF Fork, PhaseInv, Smoker
  <2> QED
    BY <1>2, <2>1 DEF Fork, Children
<1>3. ASSUME NEW s \in Smoker, Write(s) PROVE EachIngredientOnce'
  BY <1>3 DEF Write, Children
<1>4. CASE Close \/ Kill \/ Wait \/ EndOfInput
  BY <1>4 DEF Close, Kill, Wait, EndOfInput, Children
<1> QED
  BY <1>1, <1>2, <1>3, <1>4 DEF MainStep, Main

----------------------------------------------------------------------------
\* What a step of smoker s cannot do: be born or rise again, signal itself or
\* stop the others before a SIGTERM.
LEMMA SmokerFrame ==
  ASSUME IInv, NEW s \in Smoker, SmokerStep(s)
  PROVE  /\ UNCHANGED <<main, k, closed, given>>
         /\ \A t \in Smoker \ {s} : pc'[t] = pc[t] /\ signal'[t] = signal[t] /\ pipe'[t] = pipe[t]
         /\ pc'[s] = "unborn" <=> pc[s] = "unborn"
         /\ pc[s] = "exited" => pc'[s] = "exited"
         /\ signal'[s] = "none" <=> signal[s] = "none"
         /\ signal[s] = "handled" => signal'[s] = "handled"
         /\ terminate => terminate'
         /\ terminate' => terminate \/ signal[s] # "none"
<1> USE DEF IInv, TypeOK, HandlerInv, InHandler, Goto, Handle, At
<1>1. CASE Start(s) \/ Lock(s) \/ Sleep(s) \/ Wake(s) \/ Read(s) \/ ReadEnd(s) \/ PrintLine(s)
  <2>1. /\ UNCHANGED <<main, k, closed, given, signal, terminate>>
        /\ \A t \in Smoker \ {s} : pipe'[t] = pipe[t]
    BY <1>1 DEF Start, Lock, Sleep, Wake, Read, ReadEnd, PrintLine
  <2>2. \E from \in {"born", "asleep", "lock", "read", "print"},
           to \in PlainPlace \cup {"check"} : pc[s] = from /\ pc' = [pc EXCEPT ![s] = to]
    BY <1>1 DEF Start, Lock, Sleep, Wake, Read, ReadEnd, PrintLine, PlainPlace
  <2> QED
    BY <2>1, <2>2 DEF PlainPlace
<1>2. CASE Check(s) \/ Leave(s)
  BY <1>2 DEF Check, Leave
<1>3. CASE Deliver(s)
  BY <1>3 DEF Deliver, Running
<1>4. CASE HandlerLock(s) \/ HandlerSleep(s) \/ HandlerWake(s)
  BY <1>4 DEF HandlerLock, HandlerSleep, HandlerWake
<1>5. CASE HandlerSet(s)
  BY <1>5 DEF HandlerSet
<1> QED
  BY <1>1, <1>2, <1>3, <1>4, <1>5 DEF SmokerStep, Smokes, Handles

\* No smoker has left while main reads the input: every pipe has its reader.
LEMMA InputServed ==
  ASSUME IInv, NEW s \in Smoker, main = "input"
  PROVE  HasReader(s) /\ pc[s] \notin {"leave", "exited"}
<1>1. pc[s] \notin {"unborn", "leave", "exited"}
  BY DEF IInv, PhaseInv, SmokersServeInput
<1>2. s \in 0 .. s
  BY SmokersAssumption DEF Smoker
<1> QED
  BY <1>1, <1>2 DEF HasReader, Running

LEMMA StepPhase ==
  ASSUME IInv, MainStep \/ \E s \in Smoker : SmokerStep(s)
  PROVE  PhaseInv'
<1> USE SmokersAssumption DEF IInv, TypeOK, PhaseInv
<1>0. k \in Nat /\ k + 1 # 0 /\ (k + 1) - 1 = k
  BY DEF Smoker
<1>1. ASSUME NEW s \in Smoker, SmokerStep(s) PROVE PhaseInv'
  <2>1. k .. N-1 \subseteq Smoker /\ 0 .. k-1 \subseteq Smoker
    BY DEF Smoker
  <2> QED
    BY <1>1, <2>1, SmokerFrame
<1>2. CASE Fork
  <2>1. \A t \in Smoker : t >= k + 1 <=> t >= k /\ t # k
    BY DEF Smoker
  <2>2. CASE k + 1 < N
    BY <1>2, <2>1, <2>2 DEF Fork, Loop, Children
  <2>3. CASE ~(k + 1 < N)
    <3>1. \A t \in Smoker : t >= k <=> t = k
      BY <2>3 DEF Smoker
    <3> QED
      BY <1>2, <2>3, <3>1 DEF Fork, Loop, Children
  <2> QED
    BY <2>2, <2>3
<1>3. ASSUME NEW s \in Smoker, Write(s) PROVE PhaseInv'
  <2>1. HasReader(s)
    BY <1>3, InputServed DEF Write
  <2> QED
    BY <1>3, <2>1 DEF Write, Children
<1>4. CASE EndOfInput
  BY <1>4 DEF EndOfInput, Children, Smoker
<1>5. CASE Close
  BY <1>5 DEF Close, Children
<1>6. CASE Kill
  <2>1. CASE k + 1 < N
    <3>1. k' = k + 1 /\ main' = "close"
      BY <1>0, <1>6, <2>1, NextIndex DEF Kill
    <3>2. \A t \in k + 1 .. N-1 : t \in Smoker /\ t # k /\ t \in k .. N-1
      BY DEF Smoker
    <3> QED
      BY <1>6, <3>1, <3>2 DEF Kill, Children
  <2>2. CASE ~(k + 1 < N)
    <3>1. k' = 0 /\ main' = "wait"
      BY <1>6, <2>2, NextIndex DEF Kill
    <3> QED
      BY <1>6, <3>1 DEF Kill, Children
  <2> QED
    BY <2>1, <2>2
<1>7. CASE Wait
  <2>1. CASE k + 1 < N
    <3>1. \A t \in 0 .. k : t = k \/ t \in 0 .. k-1
      BY DEF Smoker
    <3>2. k' = k + 1 /\ main' = main /\ k' - 1 = k
      BY <1>0, <1>7, <2>1 DEF Wait, Loop
    <3> QED
      BY <1>7, <3>1, <3>2 DEF Wait, Children
  <2>2. CASE ~(k + 1 < N)
    <3>1. \A t \in Smoker : t = k \/ t \in 0 .. k-1
      BY <2>2 DEF Smoker
    <3> QED
      BY <1>7, <2>2, <3>1 DEF Wait, Loop, Children
  <2> QED
    BY <2>1, <2>2
<1> QED
  BY <1>1, <1>2, <1>3, <1>4, <1>5, <1>6, <1>7 DEF MainStep, Main

LEMMA StepServe ==
  ASSUME IInv, MainStep \/ \E s \in Smoker : SmokerStep(s)
  PROVE  SmokersServeInput'
<1> USE SmokersAssumption DEF IInv, TypeOK, SmokersServeInput
<1>1. ASSUME NEW s \in Smoker, SmokerStep(s) PROVE SmokersServeInput'
  <2> USE DEF Goto, Handle, At, InHandler
  <2>1. CASE Start(s) \/ Lock(s) \/ Sleep(s) \/ Wake(s) \/ Read(s) \/ PrintLine(s)
    <3>1. \E label \in {"lock", "check", "asleep", "print"} : pc' = [pc EXCEPT ![s] = label]
      BY <2>1 DEF Start, Lock, Sleep, Wake, Read, PrintLine
    <3> QED
      BY <1>1, <3>1, SmokerFrame
  <2>2. CASE Check(s)
    <3>1. terminate => main \notin {"fork", "input", "sigpipe"}
      BY DEF PhaseInv
    <3> QED
      BY <2>2, <3>1 DEF Check
  <2>3. CASE ReadEnd(s)
    <3>1. main \notin {"fork", "input", "sigpipe"}
      BY <2>3 DEF ReadEnd, HasWriter, PhaseInv
    <3> QED
      BY <2>3, <3>1 DEF ReadEnd
  <2>4. CASE Leave(s)
    BY <2>4 DEF Leave
  <2>5. CASE Deliver(s)
    <3>1. main \notin {"fork", "input", "sigpipe"}
      BY <2>5 DEF Deliver, PhaseInv
    <3> QED
      BY <2>5, <3>1 DEF Deliver
  <2>6. CASE HandlerLock(s) \/ HandlerSleep(s) \/ HandlerWake(s)
    <3>1. UNCHANGED <<pc, pipe, terminate, main>> /\ signal[s] # "handled"
      BY <2>6 DEF HandlerLock, HandlerSleep, HandlerWake
    <3> QED
      BY <1>1, <3>1, SmokerFrame
  <2>7. CASE HandlerSet(s)
    <3>1. terminate' /\ \A t \in Smoker : pc'[t] \in {"leave", "exited"} => pc[t] = pc'[t]
      BY <2>7 DEF HandlerSet
    <3> QED
      BY <1>1, <3>1, SmokerFrame
  <2> QED
    BY <1>1, <2>1, <2>2, <2>3, <2>4, <2>5, <2>6, <2>7 DEF SmokerStep, Smokes, Handles
<1>2. CASE Fork
  <2>1. \A t \in Smoker : pc[t] \notin {"leave", "exited"}
    BY <1>2 DEF Fork
  <2> QED
    BY <1>2, <2>1 DEF Fork
<1>3. ASSUME NEW s \in Smoker, Write(s) PROVE SmokersServeInput'
  <2>1. \A t \in Smoker : pc[t] \notin {"leave", "exited"}
    BY <1>3, InputServed DEF Write
  <2> QED
    BY <1>3, <2>1 DEF Write
<1>4. CASE EndOfInput
  BY <1>4 DEF EndOfInput, Children
<1>5. CASE Close
  BY <1>5 DEF Close, Children
<1>6. CASE Kill
  <2>1. signal[k] = "none"
    BY <1>6 DEF Kill, PhaseInv, Smoker
  <2>2. main' \in {"wait", "close"}
    BY <1>6 DEF Kill
  <2> QED
    BY <1>6, <2>1, <2>2 DEF Kill, Children
<1>7. CASE Wait
  <2>1. main' \in {"wait", "done"}
    BY <1>7 DEF Wait, Loop
  <2> QED
    BY <1>7, <2>1 DEF Wait, Children
<1> QED
  BY <1>1, <1>2, <1>3, <1>4, <1>5, <1>6, <1>7 DEF MainStep, Main

----------------------------------------------------------------------------
LEMMA StepIInv == IInv /\ [Next]_vars => IInv'
<1> SUFFICES ASSUME IInv, [Next]_vars PROVE IInv'
  OBVIOUS
<1>1. CASE MainStep \/ \E s \in Smoker : SmokerStep(s)
  BY <1>1, StepType, StepMutex, StepHandler, StepIngredients, StepPhase, StepServe DEF IInv
<1>2. CASE UNCHANGED vars
  BY <1>2 DEF vars, IInv, TypeOK, MutexHeldByOwner, HandlerInv, EachIngredientOnce,
              SmokersServeInput, PhaseInv
<1> QED
  BY <1>1, <1>2 DEF Next, MainStep, SmokerStep

\* The inductive invariant holds of every behaviour of the program.
THEOREM Invariance == Spec => []IInv
<1>1. Init => IInv
  BY InitIInv
<1>2. IInv /\ [Next]_vars => IInv'
  BY StepIInv
<1> QED
  BY <1>1, <1>2, PTL DEF Spec

\* Every variable keeps its type, and no pipe holds more than was given.
THEOREM TypeCorrect == Spec => []TypeOK
  BY Invariance, PTL DEF IInv

\* Loop and handler exclude each other and themselves in every smoker: at most
\* one of them is between lock_guard and its end (main.cpp:18, 27).
THEOREM MutualExclusion == Spec => []MutexHeldByOwner
  BY Invariance, PTL DEF IInv

\* No ingredient gets lost between main's write and a smoker's line, and none
\* is smoked twice (main.cpp:31-34, 82).
THEOREM IngredientsConserved == Spec => []EachIngredientOnce
  BY Invariance, PTL DEF IInv

\* No smoker leaves before the input has ended: main never writes to a pipe
\* without a reader, which would raise SIGPIPE (main.cpp:82).
THEOREM InputIsServed == Spec => []SmokersServeInput
  BY Invariance, PTL DEF IInv

\* The shared data is destroyed after the last smoker has ended, and unlocked
\* (main.cpp:97-98).
THEOREM DataDestroyedLast == Spec => []DestroyedLast
<1>1. IInv => DestroyedLast
  BY DEF IInv, TypeOK, PhaseInv, HandlerInv, MutexHeldByOwner, DestroyedLast, InHandler
<1> QED
  BY <1>1, Invariance, PTL

----------------------------------------------------------------------------
\* The safety half of EndsOrStuck.  Who has a step to take after the input, with the
\* guards that the code has; Wake and HandlerWake are not counted.
LoopCan(s) ==
  /\ signal[s] \notin InHandler
  /\ \/ pc[s] \in {"born", "lock", "check", "print", "leave"}
     \/ pc[s] = "read" /\ (pipe[s] > 0 \/ ~HasWriter(s))
HandlerCan(s) ==
  \/ signal[s] = "pending" /\ Running(s)
  \/ signal[s] \in {"lock", "set"}
MainCan == main \in {"close", "kill"} \/ (main = "wait" /\ pc[k] = "exited")

OnlyHeldUp ==
  main \in {"close", "kill", "wait"} =>
    MainCan \/ \E s \in Smoker : LoopCan(s) \/ HandlerCan(s) \/ Stuck(s)

\* Whoever main waits for has been sent its signal.
Signalled ==
  /\ main = "input" => k = 0
  /\ main \in {"close", "kill"} => \A s \in 0 .. k-1 : signal[s] # "none"
  /\ main \in {"wait", "done"} => \A s \in Smoker : signal[s] # "none"

LEMMA StepSignalled ==
  ASSUME IInv, Signalled, MainStep \/ \E s \in Smoker : SmokerStep(s)
  PROVE  Signalled'
<1> USE SmokersAssumption DEF IInv, TypeOK, Signalled
<1>1. ASSUME NEW s \in Smoker, SmokerStep(s) PROVE Signalled'
  <2>1. 0 .. k-1 \subseteq Smoker
    BY DEF Smoker
  <2> QED
    BY <1>1, <2>1, SmokerFrame
<1>2. CASE Kill
  <2>1. CASE k + 1 < N
    <3>0. k + 1 # 0
      BY DEF Smoker
    <3>1. k' = k + 1 /\ main' = "close"
      BY <1>2, <2>1, <3>0, NextIndex DEF Kill
    <3>2. \A s \in 0 .. k'-1 : s = k \/ s \in 0 .. k-1
      BY <3>1 DEF Smoker
    <3> QED
      BY <1>2, <3>1, <3>2 DEF Kill, Smoker
  <2>2. CASE ~(k + 1 < N)
    <3>1. main' = "wait"
      BY <1>2, <2>2, NextIndex DEF Kill
    <3>2. \A s \in Smoker : s = k \/ s \in 0 .. k-1
      BY <2>2 DEF Smoker
    <3> QED
      BY <1>2, <3>1, <3>2 DEF Kill
  <2> QED
    BY <2>1, <2>2
<1>3. CASE EndOfInput
  <2>1. k' = 0 /\ main' = "close"
    BY <1>3 DEF EndOfInput
  <2> QED
    BY <2>1
<1>4. CASE Fork \/ Close \/ Wait \/ \E s \in Smoker : Write(s)
  BY <1>4 DEF Fork, Close, Wait, Write, Loop
<1> QED
  BY <1>1, <1>2, <1>3, <1>4 DEF MainStep, Main

\* A smoker that main waits for can go on, is held up, or waits for the mutex; then
\* whoever has that can go on or is held up.
LEMMA SmokerGoesOn ==
  ASSUME IInv, Signalled, main = "wait", NEW s \in Smoker, pc[s] # "exited"
  PROVE  \E t \in Smoker : LoopCan(t) \/ HandlerCan(t) \/ Stuck(t)
<1> USE DEF IInv, TypeOK, LoopCan, HandlerCan, Stuck
<1>1. Running(s) /\ signal[s] # "none"
  BY DEF Signalled, PhaseInv, Running
<1>2. CASE signal[s] \in {"pending", "lock", "set"}
  BY <1>1, <1>2
<1>3. CASE signal[s] = "handled" /\ pc[s] # "asleep"
  <2>1. signal[s] \notin InHandler
    BY <1>3 DEF InHandler
  <2>2. CASE pc[s] = "read"
    BY <1>3, <2>1, <2>2, SmokersAssumption DEF WaitsToRead, At
  <2> QED
    BY <1>1, <1>3, <2>1, <2>2 DEF Running
<1>4. CASE signal[s] = "asleep" \/ pc[s] = "asleep"
  <2>1. CASE mutex = Nobody
    BY <1>4, <2>1 DEF WaitsForMutex
  <2>2. CASE mutex # Nobody
    <3>1. PICK t \in Smoker : mutex = t /\ (pc[t] = "check" \/ signal[t] = "set")
      BY <2>2 DEF MutexHeldByOwner
    <3>2. CASE signal[t] = "set"
      BY <3>2
    <3>3. CASE pc[t] = "check" /\ signal[t] # "set"
      BY <3>1, <3>3 DEF WaitsForMutex, InHandler
    <3> QED
      BY <3>1, <3>2, <3>3
  <2> QED
    BY <2>1, <2>2
<1> QED
  BY <1>1, <1>2, <1>3, <1>4 DEF InHandler

\* After the input somebody can always go on until main is done, or some smoker is
\* held up in one of the ways that Stuck names: there is no other standstill
\* (main.cpp:17-20, 26-33, 87-94).
THEOREM NoOtherStandstill == Spec => []OnlyHeldUp
<1>1. Init => Signalled
  BY DEF Init, Signalled
<1>2. IInv /\ Signalled /\ [Next]_vars => Signalled'
  <2>1. CASE UNCHANGED vars
    BY <2>1 DEF vars, Signalled
  <2> QED
    BY <2>1, StepSignalled DEF Next, MainStep, SmokerStep
<1>3. IInv /\ Signalled => OnlyHeldUp
  BY SmokerGoesOn DEF OnlyHeldUp, MainCan, IInv, TypeOK
<1> QED
  BY <1>1, <1>2, <1>3, Invariance, PTL DEF Spec

----------------------------------------------------------------------------
\* Numbers.

\* Every set of naturals has a least element.
LEMMA LeastNatural ==
  ASSUME NEW T \in SUBSET Nat, T # {}
  PROVE  \E x \in T : \A y \in T : x <= y
<1>1. PICK x \in T : \A y \in T : <<y, x>> \notin OpToRel(<, Nat)
  BY NatLessThanWellFounded, WFMin
<1>2. \A y \in T : ~(y < x)
  BY <1>1 DEF OpToRel
<1> QED
  BY <1>2

\* What holds of 1, and of n + 1 if it holds of n, holds of every positive number.
LEMMA FromOne ==
  ASSUME NEW S, 1 \in S, \A n \in Nat \ {0} : n \in S => n + 1 \in S
  PROVE  \A n \in Nat \ {0} : n \in S
<1> DEFINE T == (Nat \ {0}) \ S
<1>1. SUFFICES ASSUME T # {} PROVE FALSE
  OBVIOUS
<1>2. PICK x \in T : \A y \in T : x <= y
  BY <1>1, LeastNatural
<1>3. x # 1 /\ x - 1 \in Nat \ {0} /\ ~(x <= x - 1)
  OBVIOUS
<1>4. x - 1 \in S
  BY <1>2, <1>3
<1>5. x \in Nat /\ x \notin S /\ (x - 1) + 1 = x
  OBVIOUS
<1>6. (x - 1) + 1 \in S
  BY <1>3, <1>4
<1> QED
  BY <1>5, <1>6

LEMMA Remainder ==
  ASSUME NEW x \in Int, NEW d \in Nat \ {0}
  PROVE  x % d \in 0 .. d - 1 /\ x = d * (x \div d) + (x % d) /\ x \div d \in Int
OBVIOUS

LEMMA SmallMultiple ==
  ASSUME NEW d \in Nat \ {0}, NEW e \in Int, d * e < d, d * e > -d
  PROVE  e = 0
OBVIOUS

\* A number has one quotient and one remainder.
LEMMA RemainderIs ==
  ASSUME NEW x \in Int, NEW d \in Nat \ {0}, NEW q \in Int, NEW r \in 0 .. d - 1, x = d * q + r
  PROVE  x % d = r
<1> DEFINE qx == x \div d
           rx == x % d
           e == q - qx
<1>1. qx \in Int /\ rx \in 0 .. d - 1 /\ x = d * qx + rx
  BY Remainder
<1> HIDE DEF qx, rx
<1>2. e \in Int /\ d * e = rx - r
  BY <1>1
<1> HIDE DEF e
<1>3. d * e < d /\ d * e > -d
  BY <1>1, <1>2
<1>4. e = 0
  BY <1>2, <1>3, SmallMultiple
<1> QED
  BY <1>1, <1>2, <1>4 DEF rx

LEMMA Multiple ==
  ASSUME NEW d \in Nat \ {0}, NEW q \in Int
  PROVE  (d * q) % d = 0
<1> DEFINE x == d * q
<1>1. x \in Int /\ x = d * q + 0 /\ 0 \in 0 .. d - 1
  OBVIOUS
<1> HIDE DEF x
<1>2. x % d = 0
  BY <1>1, RemainderIs
<1> QED
  BY <1>2 DEF x

\* A divisor of a positive number leaves a cofactor, which divides it too.
LEMMA Cofactor ==
  ASSUME NEW x \in Nat \ {0}, NEW d \in Nat \ {0}, x % d = 0
  PROVE  \E c \in Nat \ {0} : x = d * c /\ x % c = 0
<1> DEFINE c == x \div d
<1>1. x = d * c /\ c \in Int
  <2>1. x = d * c + (x % d) /\ c \in Int
    BY Remainder
  <2> QED
    BY <2>1
<1> HIDE DEF c
<1>2. c > 0
  <2> SUFFICES ASSUME c <= 0 PROVE FALSE
    BY <1>1
  <2>1. d * c <= d * 0
    BY <1>1
  <2> QED
    BY <1>1, <2>1
<1>3. c \in Nat \ {0} /\ x = c * d
  BY <1>1, <1>2
<1>4. (c * d) % c = 0
  BY <1>3, Multiple
<1> QED
  BY <1>1, <1>3, <1>4

\* A divisor of a divisor is a divisor.
LEMMA DividesOn ==
  ASSUME NEW x \in Nat \ {0}, NEW d \in Nat \ {0}, NEW e \in Nat \ {0},
         x % d = 0, d % e = 0
  PROVE  x % e = 0
<1>1. PICK a \in Nat \ {0} : x = d * a
  BY Cofactor
<1>2. PICK b \in Nat \ {0} : d = e * b
  BY Cofactor
<1>3. x = e * (b * a) /\ b * a \in Int
  BY <1>1, <1>2
<1> QED
  BY <1>3, Multiple

\* A number above 1 that is no prime has a prime divisor whose square does not
\* exceed it.
LEMMA SmallDivisor ==
  ASSUME NEW x \in Nat, x > 1, ~IsPrime(x)
  PROVE  \E d \in 2 .. x - 1 : IsPrime(d) /\ x % d = 0 /\ d * d <= x
<1> DEFINE T == {e \in 2 .. x - 1 : x % e = 0}
<1>1. T \in SUBSET Nat /\ T # {}
  <2>1. PICK e \in 2 .. x - 1 : x % e = 0
    BY DEF IsPrime
  <2>2. e \in T /\ \A c \in T : c \in Nat
    BY <2>1
  <2> QED
    BY <2>2
<1>2. PICK d \in T : \A e \in T : d <= e
  <2> HIDE DEF T
  <2> QED
    BY <1>1, LeastNatural
<1>3. d \in 2 .. x - 1 /\ x % d = 0 /\ d \in Nat \ {0} /\ x \in Nat \ {0}
  BY <1>2
<1>4. IsPrime(d)
  <2> SUFFICES \A e \in 2 .. d - 1 : d % e # 0
    <3>1. d > 1
      BY <1>3
    <3> QED
      BY <3>1 DEF IsPrime
  <2> SUFFICES ASSUME NEW e \in 2 .. d - 1, d % e = 0 PROVE FALSE
    OBVIOUS
  <2>1. e \in Nat \ {0} /\ e \in 2 .. x - 1 /\ ~(d <= e)
    BY <1>3
  <2>2. x % e = 0
    BY <1>3, <2>1, DividesOn
  <2> QED
    BY <1>2, <2>1, <2>2
<1>5. PICK c \in Nat \ {0} : x = d * c /\ x % c = 0
  BY <1>3, Cofactor
<1>6. c \in 2 .. x - 1
  <2>1. c # 1
    BY <1>3, <1>5
  <2>2. d * c >= 2 * c
    BY <1>3, <1>5
  <2> QED
    BY <1>3, <1>5, <2>1, <2>2
<1>7. d <= c
  BY <1>2, <1>5, <1>6
<1>8. d * d <= d * c
  BY <1>3, <1>5, <1>7
<1> QED
  BY <1>3, <1>4, <1>5, <1>8

\* What fits into an int is not wrapped.
LEMMA WrapIsInt ==
  ASSUME NEW x \in 0 .. INT_MAX
  PROVE  Wrap(x) = x
<1> DEFINE y == x + HalfRange
           d == 2 * HalfRange
<1>1. INT_MAX \in Nat
  BY PrimePipeAssumption
<1>2. y \in Int /\ d \in Nat \ {0} /\ y \in 0 .. d - 1 /\ y = d * 0 + y
  BY <1>1 DEF HalfRange
<1>3. y % d = y
  <2> HIDE DEF y, d
  <2> QED
    BY <1>2, RemainderIs
<1> QED
  BY <1>1, <1>3 DEF Wrap, HalfRange

----------------------------------------------------------------------------
\* The vector primes.

\* It holds the primes up to num, each once and in ascending order.
Found(primes, num) ==
  /\ primes \in Seq(Nat)
  /\ \A i, j \in 1 .. Len(primes) : i < j => primes[i] < primes[j]
  /\ \A q : q \in PrimesUpTo(num) <=> \E i \in 1 .. Len(primes) : primes[i] = q

\* Trial division by the primes below num tells whether num is one: the squares
\* that overflow are those of primes it need not look at.
LEMMA TrialDivision ==
  ASSUME NEW num \in 2 .. INT_MAX, NEW primes, Found(primes, num - 1)
  PROVE  Passes(primes, num) <=> IsPrime(num)
<1>1. INT_MAX \in Nat /\ num \in Nat /\ num > 1 /\ num <= INT_MAX
  BY PrimePipeAssumption
<1>2. primes \in Seq(Nat) /\ DOMAIN primes = 1 .. Len(primes) /\ Len(primes) \in Nat
  BY DEF Found
<1>3. \A i \in DOMAIN primes : primes[i] \in 2 .. num - 1
  BY <1>2 DEF Found, PrimesUpTo
<1>4. ASSUME IsPrime(num)
      PROVE  Passes(primes, num)
  BY <1>3, <1>4 DEF IsPrime, Passes
<1>5. ASSUME ~IsPrime(num)
      PROVE  ~Passes(primes, num)
  <2>1. PICK d \in 2 .. num - 1 : IsPrime(d) /\ num % d = 0 /\ d * d <= num
    BY <1>1, <1>5, SmallDivisor
  <2>2. PICK i \in 1 .. Len(primes) : primes[i] = d
    BY <2>1 DEF Found, PrimesUpTo
  <2>3. ASSUME NEW j \in 1 .. i
        PROVE  ~(Wrap(primes[j] * primes[j]) > num)
    <3> DEFINE p == primes[j]
    <3>1. j \in 1 .. Len(primes) /\ (j < i \/ j = i)
      BY <1>2
    <3>2. p \in 2 .. num - 1 /\ p <= d
      BY <1>1, <1>2, <1>3, <2>1, <2>2, <3>1 DEF Found
    <3> HIDE DEF p
    <3>3. p * p <= d * d /\ p * p \in Nat
      <4>1. p * p <= d * p /\ d * p <= d * d
        BY <1>1, <2>1, <3>2
      <4> QED
        BY <1>1, <2>1, <3>2, <4>1
    <3>4. p * p \in 0 .. INT_MAX
      <4>1. d * d \in Nat
        BY <1>1, <2>1
      <4> QED
        BY <1>1, <2>1, <3>3, <4>1
    <3>5. Wrap(p * p) = p * p
      BY <3>4, WrapIsInt
    <3>6. d * d \in Nat
      BY <1>1, <2>1
    <3> QED
      BY <1>1, <2>1, <3>3, <3>5, <3>6 DEF p
  <2> QED
    BY <1>2, <2>1, <2>2, <2>3 DEF Passes
<1> QED
  BY <1>4, <1>5

\* The equation of the loop.
Looking(f) ==
  f = [num \in 1 .. INT_MAX |->
         IF num = 1 THEN <<>>
         ELSE IF Passes(f[num - 1], num) THEN Append(f[num - 1], num) ELSE f[num - 1]]

LEMMA LookingExists ==
  \E f : Looking(f)
<1> DEFINE Upto(n, f) ==
             f = [num \in 1 .. n |->
                    IF num = 1 THEN <<>>
                    ELSE IF Passes(f[num - 1], num) THEN Append(f[num - 1], num)
                                                    ELSE f[num - 1]]
           S == {n \in Nat : \E f : Upto(n, f)}
<1>1. 1 \in S
  <2>1. Upto(1, [num \in 1 .. 1 |-> <<>>])
    OBVIOUS
  <2> QED
    BY <2>1
<1>2. ASSUME NEW n \in Nat \ {0}, n \in S
      PROVE  n + 1 \in S
  <2>1. PICK f : Upto(n, f)
    BY <1>2
  <2> DEFINE next == IF Passes(f[n], n + 1) THEN Append(f[n], n + 1) ELSE f[n]
             more == [num \in 1 .. n + 1 |-> IF num <= n THEN f[num] ELSE next]
  <2>2. \A num \in 1 .. n :
          f[num] = IF num = 1 THEN <<>>
                   ELSE IF Passes(f[num - 1], num) THEN Append(f[num - 1], num)
                                                   ELSE f[num - 1]
    BY <2>1
  <2>3. \A num \in 2 .. n + 1 : more[num - 1] = f[num - 1]
    OBVIOUS
  <2>4. ASSUME NEW num \in 1 .. n + 1
        PROVE  more[num] = IF num = 1 THEN <<>>
                           ELSE IF Passes(more[num - 1], num)
                           THEN Append(more[num - 1], num) ELSE more[num - 1]
    <3>1. CASE num <= n
      <4>1. num \in 1 .. n /\ more[num] = f[num]
        BY <3>1
      <4>2. num # 1 => more[num - 1] = f[num - 1]
        BY <2>3
      <4> HIDE DEF more
      <4> QED
        BY <2>2, <4>1, <4>2
    <3>2. CASE num = n + 1
      <4>1. num - 1 = n /\ num # 1 /\ ~(num <= n) /\ num \in 2 .. n + 1
        BY <3>2
      <4>2. more[num] = next /\ more[num - 1] = f[n]
        BY <2>3, <4>1
      <4> HIDE DEF more
      <4> QED
        BY <3>2, <4>1, <4>2
    <3> QED
      BY <3>1, <3>2
  <2>5. Upto(n + 1, more)
    BY <2>4
  <2> HIDE DEF Upto, more
  <2> QED
    BY <2>5
<1> HIDE DEF S
<1>3. INT_MAX \in S
  BY <1>1, <1>2, FromOne, PrimePipeAssumption
<1> QED
  BY <1>3 DEF S, Looking

LEMMA LookingStep ==
  /\ Primes[1] = <<>>
  /\ \A num \in 2 .. INT_MAX :
       Primes[num] = IF Passes(Primes[num - 1], num)
                          THEN Append(Primes[num - 1], num)
                          ELSE Primes[num - 1]
<1>1. INT_MAX \in Nat /\ INT_MAX >= 1
  BY PrimePipeAssumption
<1>2. Looking(Primes)
  <2>1. Primes = CHOOSE f : Looking(f)
    BY DEF Primes, Looking
  <2> QED
    BY <2>1, LookingExists
<1>3. \A num \in 1 .. INT_MAX :
        Primes[num] = IF num = 1 THEN <<>>
                           ELSE IF Passes(Primes[num - 1], num)
                           THEN Append(Primes[num - 1], num)
                           ELSE Primes[num - 1]
  BY <1>2 DEF Looking
<1>4. 1 \in 1 .. INT_MAX /\ \A num \in 2 .. INT_MAX : num \in 1 .. INT_MAX /\ num # 1
  BY <1>1
<1> QED
  BY <1>3, <1>4

LEMMA AllFound ==
  Found(AllPrimes, INT_MAX)
<1> DEFINE S == {n \in Nat : n <= INT_MAX => Found(Primes[n], n)}
<1>1. INT_MAX \in Nat \ {0}
  BY PrimePipeAssumption
<1>2. 1 \in S
  <2>1. Primes[1] = <<>> /\ PrimesUpTo(1) = {} /\ Len(<<>>) = 0 /\ <<>> \in Seq(Nat)
    BY LookingStep DEF PrimesUpTo
  <2>2. Found(<<>>, 1)
    BY <2>1 DEF Found
  <2> QED
    BY <2>1, <2>2
<1>3. ASSUME NEW n \in Nat \ {0}, n \in S
      PROVE  n + 1 \in S
  <2>1. SUFFICES ASSUME n + 1 <= INT_MAX PROVE Found(Primes[n + 1], n + 1)
    OBVIOUS
  <2> DEFINE num == n + 1
             old == Primes[n]
             new == Primes[num]
  <2>2. num \in 2 .. INT_MAX /\ num - 1 = n /\ n <= INT_MAX /\ num \in Nat
    BY <1>1, <2>1
  <2>3. Found(old, num - 1)
    BY <1>3, <2>2
  <2>4. new = IF Passes(old, num) THEN Append(old, num) ELSE old
    <3>1. \A i \in 2 .. INT_MAX :
            Primes[i] = IF Passes(Primes[i - 1], i)
                             THEN Append(Primes[i - 1], i)
                             ELSE Primes[i - 1]
      BY LookingStep
    <3> HIDE DEF num
    <3> QED
      BY <2>2, <3>1
  <2> HIDE DEF num, old, new
  <2>5. Passes(old, num) <=> IsPrime(num)
    BY <2>2, <2>3, TrialDivision
  <2>6. \A q : q \in PrimesUpTo(num) <=>
               q \in PrimesUpTo(num - 1) \/ (q = num /\ IsPrime(num))
    BY <2>2 DEF PrimesUpTo
  <2>7. old \in Seq(Nat) /\ Len(old) \in Nat
    BY <2>3 DEF Found
  <2>8. \A i \in 1 .. Len(old) : old[i] < num
    BY <2>2, <2>3 DEF Found, PrimesUpTo
  <2>9. CASE ~IsPrime(num)
    <3>1. new = old
      BY <2>4, <2>5, <2>9
    <3> QED
      BY <2>3, <2>6, <2>9, <3>1 DEF Found, new, num
  <2>10. CASE IsPrime(num)
    <3>1. new = Append(old, num)
      BY <2>4, <2>5, <2>10
    <3>2. /\ new \in Seq(Nat) /\ Len(new) = Len(old) + 1 /\ new[Len(old) + 1] = num
          /\ \A i \in 1 .. Len(old) : new[i] = old[i]
      BY <2>2, <2>7, <3>1
    <3>3. \A i, j \in 1 .. Len(new) : i < j => new[i] < new[j]
      <4> SUFFICES ASSUME NEW i \in 1 .. Len(new), NEW j \in 1 .. Len(new), i < j
                   PROVE  new[i] < new[j]
        OBVIOUS
      <4> DEFINE l == Len(old)
      <4>1. i \in 1 .. l /\ (j \in 1 .. l \/ j = l + 1)
        <5>1. i \in 1 .. l + 1 /\ j \in 1 .. l + 1 /\ i < j /\ l \in Nat
          BY <2>7, <3>2
        <5> HIDE DEF l
        <5> QED
          BY <5>1
      <4> QED
        BY <2>3, <2>8, <3>2, <4>1 DEF Found
    <3>4. ASSUME NEW q
          PROVE  q \in PrimesUpTo(num) <=> \E i \in 1 .. Len(new) : new[i] = q
      <4>1. q \in PrimesUpTo(num) <=> q = num \/ \E i \in 1 .. Len(old) : old[i] = q
        BY <2>3, <2>6, <2>10 DEF Found
      <4>2. (\E i \in 1 .. Len(new) : new[i] = q)
              <=> q = num \/ \E i \in 1 .. Len(old) : old[i] = q
        <5>1. \A i : i \in 1 .. Len(new) <=> i \in 1 .. Len(old) \/ i = Len(old) + 1
          BY <2>7, <3>2
        <5> QED
          BY <3>2, <5>1
      <4> QED
        BY <4>1, <4>2
    <3>5. Found(new, num)
      BY <3>2, <3>3, <3>4 DEF Found
    <3> QED
      BY <3>5 DEF new, num
  <2> QED
    BY <2>9, <2>10
<1> HIDE DEF S
<1>4. INT_MAX \in S
  BY <1>1, <1>2, <1>3, FromOne
<1> QED
  BY <1>1, <1>4 DEF S, AllPrimes

LEMMA SameCardinality ==
  ASSUME NEW T
  PROVE  Cardinality(T) = Cardinality(T)
BY DEF Cardinality, Cardinality

\* The first i primes of the vector are i.
LEMMA FirstPrimes ==
  ASSUME NEW primes, NEW num, Found(primes, num), NEW i \in 0 .. Len(primes)
  PROVE  Cardinality({primes[j] : j \in 1 .. i}) = i
<1> DEFINE T == {primes[j] : j \in 1 .. i}
           f == [j \in 1 .. i |-> primes[j]]
<1>1. primes \in Seq(Nat) /\ Len(primes) \in Nat /\ i \in Nat
  BY DEF Found
<1>2. \A j \in 1 .. i : j \in 1 .. Len(primes)
  BY <1>1
<1>3. \A j \in 1 .. Len(primes) : primes[j] \in Nat
  BY <1>1
<1>4. ASSUME NEW a \in 1 .. i, NEW b \in 1 .. i, primes[a] = primes[b]
      PROVE  a = b
  <2>1. a < b => primes[a] < primes[b]
    BY <1>2 DEF Found
  <2>2. b < a => primes[b] < primes[a]
    BY <1>2 DEF Found
  <2>3. primes[a] \in Nat
    BY <1>2, <1>3
  <2> QED
    BY <1>1, <1>4, <2>1, <2>2, <2>3
<1>5. f \in [1 .. i -> T] /\ DOMAIN f = 1 .. i /\ \A j \in 1 .. i : f[j] = primes[j]
  OBVIOUS
<1>6. \A t \in T : \E j \in 1 .. i : f[j] = t
  OBVIOUS
<1> HIDE DEF f, T
<1>7. f \in Bijection(1 .. i, T)
  <2>1. IsInjective(f)
    BY <1>4, <1>5 DEF IsInjective
  <2> QED
    BY <1>5, <1>6, <2>1 DEF Bijection, Injection, Surjection
<1>8. ExistsBijection(1 .. i, T)
  BY <1>7 DEF ExistsBijection
<1>9. Cardinality(T) = i
  BY <1>1, <1>8, FS_CountingElements, SameCardinality
<1> QED
  BY <1>9 DEF T

LEMMA PlaceOfPrime ==
  ASSUME NEW primes, Found(primes, INT_MAX),
         NEW i \in 1 .. Len(primes)
  PROVE  Cardinality(PrimesUpTo(primes[i])) = i
<1>1. primes \in Seq(Nat) /\ Len(primes) \in Nat /\ INT_MAX \in Nat
  BY PrimePipeAssumption DEF Found
<1>2. \A j \in 1 .. Len(primes) : primes[j] \in 2 .. INT_MAX /\ IsPrime(primes[j])
  BY DEF Found, PrimesUpTo
<1> DEFINE T == {primes[j] : j \in 1 .. i}
<1>3. ASSUME NEW q
      PROVE  q \in PrimesUpTo(primes[i]) <=> \E j \in 1 .. i : primes[j] = q
  <2>1. ASSUME q \in PrimesUpTo(primes[i])
        PROVE  \E j \in 1 .. i : primes[j] = q
    <3>1. q \in PrimesUpTo(INT_MAX) /\ q <= primes[i] /\ q \in Nat
      BY <1>1, <1>2, <2>1 DEF PrimesUpTo
    <3>2. PICK j \in 1 .. Len(primes) : primes[j] = q
      BY <3>1 DEF Found
    <3>3. ~(i < j)
      BY <1>1, <1>2, <3>1, <3>2 DEF Found
    <3> QED
      BY <1>1, <3>2, <3>3
  <2>2. ASSUME NEW j \in 1 .. i, primes[j] = q
        PROVE  q \in PrimesUpTo(primes[i])
    <3>1. j \in 1 .. Len(primes) /\ (j < i \/ j = i)
      BY <1>1
    <3>2. primes[j] <= primes[i]
      BY <1>1, <1>2, <3>1 DEF Found
    <3>3. primes[j] \in 2 .. primes[i] /\ IsPrime(primes[j])
      BY <1>1, <1>2, <3>1, <3>2
    <3> QED
      BY <2>2, <3>3 DEF PrimesUpTo
  <2> QED
    BY <2>1, <2>2
<1>4. PrimesUpTo(primes[i]) = T
  BY <1>3
<1>5. i \in 0 .. Len(primes)
  BY <1>1
<1>6. Cardinality(T) = i
  BY <1>5, FirstPrimes
<1> QED
  BY <1>4, <1>6

LEMMA NumberOfPrimes ==
  /\ Len(AllPrimes) \in Nat
  /\ Cardinality(PrimesUpTo(INT_MAX)) = Len(AllPrimes)
<1>1. Found(AllPrimes, INT_MAX)
  BY AllFound
<1>2. Len(AllPrimes) \in Nat /\ Len(AllPrimes) \in 0 .. Len(AllPrimes)
  BY <1>1 DEF Found
<1>3. PrimesUpTo(INT_MAX) = {AllPrimes[j] : j \in 1 .. Len(AllPrimes)}
  BY <1>1 DEF Found
<1>4. Cardinality({AllPrimes[j] : j \in 1 .. Len(AllPrimes)}) = Len(AllPrimes)
  BY <1>1, <1>2, FirstPrimes
<1> QED
  BY <1>2, <1>3, <1>4

\* The loop finds the n-th prime, for every n whose prime is an int
\* (IPC-2/main.cpp:10-29).
THEOREM FindsThePrime ==
  ASSUME NEW n \in 1 .. Cardinality(PrimesUpTo(INT_MAX))
  PROVE  CalculatePrime(n) \in 1 .. INT_MAX /\ CalculatePrime(n) = NthPrime(n)
<1> DEFINE p == AllPrimes[n]
           Nth(q) == IsPrime(q) /\ Cardinality(PrimesUpTo(q)) = n
<1>1. Found(AllPrimes, INT_MAX)
  BY AllFound
<1>2. n \in 1 .. Len(AllPrimes) /\ INT_MAX \in Nat
  BY NumberOfPrimes, PrimePipeAssumption
<1>3. p \in 2 .. INT_MAX /\ IsPrime(p)
  BY <1>1, <1>2 DEF Found, PrimesUpTo
<1>4. Nth(p)
  BY <1>1, <1>2, <1>3, PlaceOfPrime
<1>5. ASSUME NEW q \in 2 .. INT_MAX, Nth(q)
      PROVE  q = p
  <2>1. q \in PrimesUpTo(INT_MAX)
    BY <1>5 DEF PrimesUpTo
  <2>2. PICK i \in 1 .. Len(AllPrimes) : AllPrimes[i] = q
    BY <1>1, <2>1 DEF Found
  <2>3. i = n
    BY <1>1, <1>5, <2>2, PlaceOfPrime
  <2> QED
    BY <2>2, <2>3
<1>6. NthPrime(n) = CHOOSE q \in 2 .. INT_MAX : Nth(q)
  BY DEF NthPrime
<1>7. CalculatePrime(n) = p
  BY DEF CalculatePrime
<1> HIDE DEF p, Nth
<1>8. (CHOOSE q \in 2 .. INT_MAX : Nth(q)) = p
  BY <1>3, <1>4, <1>5
<1> QED
  BY <1>2, <1>3, <1>6, <1>7, <1>8

----------------------------------------------------------------------------
\* The invariant.

\* Where the request of a waiting parent is: in its pipe, in the child, or its
\* answer in the other pipe; a child that has died may have taken it along.
InFlight ==
  \/ child \in Dead /\ answer \in {<<>>, <<CalculatePrime(m["parent"])>>}
  \/ child \in {"start", "read"} /\ request = <<m["parent"]>> /\ answer = <<>>
  \/ child = "calculate" /\ m["child"] = m["parent"] /\ request = <<>> /\ answer = <<>>
  \/ /\ child = "write" /\ result = CalculatePrime(m["parent"])
     /\ request = <<>> /\ answer = <<>>
  \/ child = "read" /\ request = <<>> /\ answer = <<CalculatePrime(m["parent"])>>

\* The child keeps the write end of its pipe while it lives; the pipes are empty
\* while the parent does not wait, and hold one request or answer while it does.
PipeInv ==
  /\ child \notin Dead => "child" \in ends["pipe2[1]"]
  /\ child = "calculate" => m["child"] \in Number
  /\ child = "write" => result \in 1 .. INT_MAX
  /\ parent \in {"write", "read"} => m["parent"] \in Number
  /\ parent \in {"start", "prompt", "write"} =>
       answer = <<>> /\ (child \in Dead \/
                        (child \in {"start", "read"} /\ request = <<>>))
  /\ parent = "read" => InFlight

PrimeInv == PrimeTypeOK /\ PipeInv

LEMMA InitPrimeInv ==
  PrimeInit => PrimeInv
<1> SUFFICES ASSUME PrimeInit PROVE PrimeInv
  OBVIOUS
<1>1. PrimeTypeOK
  <2>1. <<>> \in Seq(Number) /\ <<>> \in Seq(1 .. INT_MAX)
    OBVIOUS
  <2> QED
    BY <2>1 DEF PrimeInit, PrimeTypeOK
<1>2. PipeInv
  BY DEF PrimeInit, PipeInv, Proc, End, Dead
<1> QED
  BY <1>1, <1>2 DEF PrimeInv

LEMMA StepPrimeInv ==
  ASSUME PrimeInv, [PrimeNext]_primeVars
  PROVE  PrimeInv'
<1> USE DEF PrimeInv, Data, Proc, End, Dead
<1>1. CASE UNCHANGED primeVars
  <2>1. UNCHANGED <<parent, child, ends, request, answer, m, result, printed>>
    BY <1>1 DEF primeVars
  <2> QED
    BY <2>1 DEF PrimeTypeOK, PipeInv, InFlight
<1>2. \A p, shut : CloseEnds(p, shut) /\ ends \in [End -> SUBSET Proc] =>
        /\ ends' \in [End -> SUBSET Proc]
        /\ p # "child" \/ "pipe2[1]" \notin shut =>
             ("child" \in ends["pipe2[1]"] => "child" \in ends'["pipe2[1]"])
  BY DEF CloseEnds
<1>3. CASE ParentStart
  <2>1. parent = "start" /\ parent' = "prompt" /\ UNCHANGED <<child, Data>>
    BY <1>3 DEF ParentStart, ParentTo
  <2>2. /\ ends' \in [End -> SUBSET Proc]
        /\ "child" \in ends["pipe2[1]"] => "child" \in ends'["pipe2[1]"]
    BY <1>2, <1>3 DEF ParentStart, PrimeTypeOK
  <2> QED
    BY <2>1, <2>2 DEF PrimeTypeOK, PipeInv
<1>4. CASE ParentClose
  <2>1. parent = "close" /\ parent' = "wait" /\ UNCHANGED <<child, Data>>
    BY <1>4 DEF ParentClose, ParentTo
  <2>2. /\ ends' \in [End -> SUBSET Proc]
        /\ "child" \in ends["pipe2[1]"] => "child" \in ends'["pipe2[1]"]
    BY <1>2, <1>4 DEF ParentClose, PrimeTypeOK
  <2> QED
    BY <2>1, <2>2 DEF PrimeTypeOK, PipeInv
<1>5. CASE KillParent
  <2>1. parent' = "killed" /\ UNCHANGED <<child, Data>>
    BY <1>5 DEF KillParent
  <2>2. /\ ends' \in [End -> SUBSET Proc]
        /\ "child" \in ends["pipe2[1]"] => "child" \in ends'["pipe2[1]"]
    BY <1>2, <1>5 DEF KillParent, PrimeTypeOK
  <2> QED
    BY <2>1, <2>2 DEF PrimeTypeOK, PipeInv
<1>6. CASE ParentWait \/ InputEnds \/ Exit
  <2>1. /\ parent' \in {"ended", "spinning", "close"}
        /\ UNCHANGED <<child, ends, Data>>
    BY <1>6 DEF ParentWait, InputEnds, Exit, ParentTo
  <2> QED
    BY <2>1 DEF PrimeTypeOK, PipeInv
<1>7. CASE \E n \in Number : Type(n)
  <2>1. PICK n \in Number : Type(n)
    BY <1>7
  <2>2. /\ parent = "prompt" /\ parent' = "write" /\ m' = [m EXCEPT !["parent"] = n]
        /\ UNCHANGED <<child, ends, request, answer, result, printed>>
    BY <2>1 DEF Type, ParentTo
  <2>3. m'["parent"] = n /\ m'["child"] = m["child"]
        /\ m' \in [Proc -> Number \cup {Nothing}]
    BY <2>2 DEF PrimeTypeOK
  <2> QED
    BY <2>2, <2>3 DEF PrimeTypeOK, PipeInv
<1>8. CASE ParentWrite
  <2>1. parent = "write" /\ UNCHANGED <<child, answer, m, result, printed>>
    BY <1>8 DEF ParentWrite, ParentTo
  <2>2. CASE /\ parent' = "read" /\ request' = Append(request, m["parent"])
             /\ UNCHANGED ends
    <3>1. request' \in Seq(Number)
      BY <2>1, <2>2 DEF PrimeTypeOK, PipeInv
    <3>2. request = <<>> => request' = <<m["parent"]>>
      BY <2>2
    <3>3. PrimeTypeOK'
      BY <2>1, <2>2, <3>1 DEF PrimeTypeOK
    <3>4. InFlight'
      BY <2>1, <2>2, <3>2 DEF PipeInv, InFlight
    <3> QED
      BY <2>1, <2>2, <3>3, <3>4 DEF PipeInv
  <2>3. CASE parent' = "SIGPIPE" /\ CloseEnds("parent", End) /\ UNCHANGED request
    <3>1. /\ ends' \in [End -> SUBSET Proc]
          /\ "child" \in ends["pipe2[1]"] => "child" \in ends'["pipe2[1]"]
      BY <1>2, <2>3 DEF PrimeTypeOK
    <3> QED
      BY <2>1, <2>3, <3>1 DEF PrimeTypeOK, PipeInv
  <2> QED
    BY <1>8, <2>2, <2>3 DEF ParentWrite, ParentTo
<1>9. CASE ParentRead
  <2>1. /\ parent = "read" /\ parent' = "prompt"
        /\ UNCHANGED <<child, ends, request, m, result>>
    BY <1>9 DEF ParentRead, ParentTo
  <2>2. InFlight
    BY <2>1 DEF PipeInv
  <2>3. CASE answer # <<>> /\ printed' = Head(answer) /\ answer' = Tail(answer)
    <3>1. answer = <<CalculatePrime(m["parent"])>>
          /\ (child \in Dead \/ (child = "read" /\ request = <<>>))
      BY <2>2, <2>3 DEF InFlight
    <3>2. printed' \in 1 .. INT_MAX
      <4>1. answer \in Seq(1 .. INT_MAX) /\ Len(answer) = 1 /\ Head(answer) = answer[1]
        BY <3>1 DEF PrimeTypeOK
      <4>2. answer[1] \in 1 .. INT_MAX
        BY <4>1, PrimePipeAssumption
      <4> QED
        BY <2>3, <4>1, <4>2
    <3>3. answer' = <<>>
      BY <2>3, <3>1
    <3> QED
      BY <2>1, <3>1, <3>2, <3>3 DEF PrimeTypeOK, PipeInv
  <2>4. CASE answer = <<>> /\ ends["pipe2[1]"] = {} /\ UNCHANGED <<answer, printed>>
    <3>1. child \in Dead
      BY <2>4 DEF PipeInv
    <3> QED
      BY <2>1, <2>4, <3>1 DEF PrimeTypeOK, PipeInv
  <2> QED
    BY <1>9, <2>3, <2>4 DEF ParentRead
<1>10. CASE ChildStart
  <2>1. child = "start" /\ child' = "read" /\ UNCHANGED <<parent, Data>>
    BY <1>10 DEF ChildStart, ChildTo
  <2>2. /\ ends' \in [End -> SUBSET Proc]
        /\ "child" \in ends["pipe2[1]"] => "child" \in ends'["pipe2[1]"]
    BY <1>2, <1>10 DEF ChildStart, PrimeTypeOK
  <2> QED
    BY <2>1, <2>2 DEF PrimeTypeOK, PipeInv, InFlight
<1>11. CASE ChildRead
  <2>1. /\ child = "read" /\ child' = "calculate" /\ request # <<>>
        /\ m' = [m EXCEPT !["child"] = Head(request)] /\ request' = Tail(request)
        /\ UNCHANGED <<parent, ends, answer, result, printed>>
    BY <1>11 DEF ChildRead, ChildTo
  <2>2. Head(request) \in Number /\ request' \in Seq(Number)
    BY <2>1 DEF PrimeTypeOK
  <2>3. /\ m'["child"] = Head(request) /\ m'["parent"] = m["parent"]
        /\ m' \in [Proc -> Number \cup {Nothing}]
    BY <2>1, <2>2 DEF PrimeTypeOK
  <2>4. PrimeTypeOK'
    BY <2>1, <2>2, <2>3 DEF PrimeTypeOK
  <2>5. ASSUME parent = "read"
        PROVE  InFlight'
    <3>1. request = <<m["parent"]>> /\ answer = <<>>
      BY <2>1, <2>5 DEF PipeInv, InFlight
    <3>2. Head(request) = m["parent"] /\ request' = <<>>
      BY <2>1, <3>1
    <3> QED
      BY <2>1, <2>3, <3>1, <3>2 DEF InFlight
  <2> QED
    BY <2>1, <2>2, <2>3, <2>4, <2>5 DEF PipeInv
<1>12. CASE ChildReadEnd \/ KillChild
  <2>1. /\ child' \in {"ended", "killed"} /\ UNCHANGED <<parent, Data>>
        /\ child \notin Dead
        /\ child' = "ended" => child = "read" /\ request = <<>>
    BY <1>12 DEF ChildReadEnd, KillChild, ChildTo
  <2>2. ends' \in [End -> SUBSET Proc]
    BY <1>2, <1>12 DEF ChildReadEnd, KillChild, PrimeTypeOK
  <2>3. parent = "read" => InFlight'
    BY <2>1 DEF PipeInv, InFlight
  <2> QED
    BY <2>1, <2>2, <2>3 DEF PrimeTypeOK, PipeInv
<1>13. CASE Calculate
  <2>1. /\ child = "calculate" /\ child' = "write" /\ result' = CalculatePrime(m["child"])
        /\ UNCHANGED <<parent, ends, request, answer, m, printed>>
    BY <1>13 DEF Calculate, ChildTo
  <2>2. result' \in 1 .. INT_MAX
    <3>1. m["child"] \in 1 .. Cardinality(PrimesUpTo(INT_MAX))
      BY <2>1, PrimePipeAssumption DEF PipeInv
    <3> QED
      BY <2>1, <3>1, FindsThePrime
  <2>3. parent = "read" => InFlight'
    BY <2>1 DEF PipeInv, InFlight
  <2> QED
    BY <2>1, <2>2, <2>3 DEF PrimeTypeOK, PipeInv
<1>14. CASE ChildWrite
  <2>1. child = "write" /\ UNCHANGED <<parent, request, m, result, printed>>
    BY <1>14 DEF ChildWrite, ChildTo
  <2>2. CASE child' = "read" /\ answer' = Append(answer, result) /\ UNCHANGED ends
    <3>1. answer' \in Seq(1 .. INT_MAX)
      BY <2>1, <2>2 DEF PrimeTypeOK, PipeInv
    <3>2. answer = <<>> => answer' = <<result>>
      BY <2>2
    <3>3. parent = "read" => InFlight'
      BY <2>1, <2>2, <3>2 DEF PipeInv, InFlight
    <3> QED
      BY <2>1, <2>2, <3>1, <3>3 DEF PrimeTypeOK, PipeInv
  <2>3. CASE child' = "SIGPIPE" /\ CloseEnds("child", End) /\ UNCHANGED answer
    <3>1. ends' \in [End -> SUBSET Proc]
      BY <1>2, <2>3 DEF PrimeTypeOK
    <3>2. parent = "read" => InFlight'
      BY <2>1, <2>3 DEF PipeInv, InFlight
    <3> QED
      BY <2>1, <2>3, <3>1, <3>2 DEF PrimeTypeOK, PipeInv
  <2> QED
    BY <1>14, <2>2, <2>3 DEF ChildWrite, ChildTo
<1> QED
  BY <1>1, <1>3, <1>4, <1>5, <1>6, <1>7, <1>8, <1>9, <1>10, <1>11, <1>12, <1>13, <1>14
     DEF PrimeNext, Parent, Child

LEMMA PrimeInvariant ==
  PrimeSpec => []PrimeInv
<1>1. PrimeInit => PrimeInv
  BY InitPrimeInv
<1>2. PrimeInv /\ [PrimeNext]_primeVars => PrimeInv'
  BY StepPrimeInv
<1> QED
  BY <1>1, <1>2, PTL DEF PrimeSpec

----------------------------------------------------------------------------
\* The refinement: what Service sees of the state.

Asked == [p \in {"parent"} |-> IF parent \in {"write", "read"} THEN m["parent"] ELSE Nothing]
Heard == [p \in {"parent"} |-> printed]
Gone == {p \in {"parent"} : parent \in Dead \cup {"close", "wait", "spinning"}}
Lost == {p \in {"parent"} : child \in Dead}

LEMMA InitIsService == PrimeInit => Promise!Init
BY DEF PrimeInit, Promise!Init, Dead

\* The parent leaves, if it has not left before.
LEMMA ParentLeaves ==
  ASSUME parent' \in Dead \cup {"close", "wait", "spinning"}, UNCHANGED <<child, printed>>
  PROVE  Promise!Part({"parent"}, {})
<1>1. Gone' = Gone \cup {"parent"} /\ Lost' = Lost \cup {} /\ Heard' = Heard
  BY DEF Gone, Lost, Heard
<1>2. Asked' = [p \in {"parent"} |-> IF p \in {"parent"} THEN Nothing ELSE Asked[p]]
  BY DEF Asked, Dead
<1> QED
  BY <1>1, <1>2 DEF Promise!Part, Asked, Heard, Gone, Lost

\* The child ends.
LEMMA ChildIsLost ==
  ASSUME child' \in Dead, UNCHANGED <<parent, m, printed>>
  PROVE  Promise!Part({}, {"parent"})
<1>1. Gone' = Gone \cup {} /\ Lost' = Lost \cup {"parent"} /\ Heard' = Heard
  BY DEF Gone, Lost, Heard
<1>2. Asked' = [p \in {"parent"} |-> IF p \in {} THEN Nothing ELSE Asked[p]]
  BY DEF Asked
<1> QED
  BY <1>1, <1>2 DEF Promise!Part, Asked, Heard, Gone, Lost

\* Steps that the promise does not see.
LEMMA StutterIsService ==
  ASSUME UNCHANGED <<parent, printed>>,
         UNCHANGED child \/ (child \notin Dead /\ child' \notin Dead),
         m'["parent"] = m["parent"]
  PROVE  UNCHANGED Promise!vars
BY DEF Promise!vars

\* Each step keeps the promise: a number is asked, an answer is heard or missed,
\* one of the two processes is gone, or nothing happens that the user sees.
LEMMA StepIsService ==
  ASSUME PrimeInv, [PrimeNext]_primeVars
  PROVE  [Promise!Next]_(Promise!vars)
<1> USE DEF PrimeInv, Data
<1>1. CASE UNCHANGED primeVars
  BY <1>1, StutterIsService DEF primeVars
<1>2. CASE ParentStart \/ ParentClose \/ ParentWait
  <2>1. UNCHANGED <<child, printed, m>>
        /\ \/ parent = "start" /\ parent' = "prompt"
           \/ parent \in {"close", "wait"} /\ parent' \in {"wait", "ended"}
    BY <1>2 DEF ParentStart, ParentClose, ParentWait, ParentTo
  <2>2. Asked' = Asked /\ Heard' = Heard /\ Gone' = Gone /\ Lost' = Lost
    BY <2>1 DEF Asked, Heard, Gone, Lost, Dead
  <2>3. UNCHANGED Promise!vars
    BY <2>2 DEF Promise!vars, Asked, Heard, Gone, Lost
  <2> QED
    BY <2>3
<1>3. ASSUME NEW n \in Number, Type(n)
      PROVE  Promise!Ask("parent", n)
  <2>1. /\ parent = "prompt" /\ parent' = "write" /\ m' = [m EXCEPT !["parent"] = n]
        /\ UNCHANGED <<child, printed>>
    BY <1>3 DEF Type, ParentTo
  <2>2. m'["parent"] = n
    BY <2>1 DEF PrimeTypeOK, Proc
  <2>3. Heard' = Heard /\ Gone' = Gone /\ Lost' = Lost /\ "parent" \notin Gone
    BY <2>1 DEF Heard, Gone, Lost, Dead
  <2>4. Asked["parent"] = Nothing /\ Asked' = [Asked EXCEPT !["parent"] = n]
    BY <2>1, <2>2 DEF Asked
  <2> QED
    BY <2>3, <2>4 DEF Promise!Ask, Asked, Heard, Gone, Lost
<1>4. CASE InputEnds \/ Exit \/ KillParent
  <2>1. /\ parent' \in Dead \cup {"close", "wait", "spinning"}
        /\ UNCHANGED <<child, printed>>
    BY <1>4 DEF InputEnds, Exit, KillParent, ParentTo, Dead
  <2> QED
    BY <2>1, ParentLeaves DEF Promise!Next
<1>5. CASE ParentWrite
  <2>1. parent = "write" /\ UNCHANGED <<child, printed, m>>
    BY <1>5 DEF ParentWrite, ParentTo
  <2>2. CASE parent' = "read"
    <3>1. Asked' = Asked /\ Heard' = Heard /\ Gone' = Gone /\ Lost' = Lost
      BY <2>1, <2>2 DEF Asked, Heard, Gone, Lost, Dead
    <3>2. UNCHANGED Promise!vars
      BY <3>1 DEF Promise!vars, Asked, Heard, Gone, Lost
    <3> QED
      BY <3>2
  <2>3. CASE parent' = "SIGPIPE"
    <3>1. parent' \in Dead \cup {"close", "wait", "spinning"}
      BY <2>3 DEF Dead
    <3> QED
      BY <2>1, <3>1, ParentLeaves DEF Promise!Next
  <2> QED
    BY <1>5, <2>2, <2>3 DEF ParentWrite, ParentTo
<1>6. CASE ParentRead
  <2>1. parent = "read" /\ parent' = "prompt" /\ UNCHANGED <<child, m>>
    BY <1>6 DEF ParentRead, ParentTo
  <2>2. InFlight /\ m["parent"] \in Number /\ m["parent"] # Nothing
    BY <2>1, PrimePipeAssumption DEF PipeInv
  <2>3. /\ Asked["parent"] = m["parent"] /\ Asked' = [Asked EXCEPT !["parent"] = Nothing]
        /\ Gone' = Gone /\ Lost' = Lost
    BY <2>1 DEF Asked, Gone, Lost, Dead
  <2>4. CASE answer # <<>> /\ printed' = Head(answer)
    <3>1. answer = <<CalculatePrime(m["parent"])>>
      BY <2>2, <2>4 DEF InFlight
    <3>2. CalculatePrime(m["parent"]) = Answer[m["parent"]]
      <4>1. m["parent"] \in 1 .. Cardinality(PrimesUpTo(INT_MAX))
        BY <2>2, PrimePipeAssumption
      <4> QED
        BY <2>2, <4>1, FindsThePrime DEF Answer
    <3>3. printed' = Answer[Asked["parent"]]
      BY <2>3, <2>4, <3>1, <3>2
    <3>4. Heard' = [Heard EXCEPT !["parent"] = Answer[Asked["parent"]]]
      BY <3>3 DEF Heard
    <3>5. Promise!Hear("parent")
      BY <2>2, <2>3, <3>4 DEF Promise!Hear, Asked, Heard, Gone, Lost
    <3> QED
      BY <3>5 DEF Promise!Next
  <2>5. CASE ends["pipe2[1]"] = {} /\ UNCHANGED printed
    <3>1. "parent" \in Lost /\ Heard' = Heard
      BY <2>5 DEF PipeInv, Lost, Heard
    <3>2. Promise!Miss("parent")
      BY <2>2, <2>3, <3>1 DEF Promise!Miss, Asked, Heard, Gone, Lost
    <3> QED
      BY <3>2 DEF Promise!Next
  <2> QED
    BY <1>6, <2>4, <2>5 DEF ParentRead
<1>7. CASE ChildStart \/ ChildRead \/ Calculate
  <2>1. UNCHANGED <<parent, printed>> /\ child \notin Dead /\ child' \notin Dead
    BY <1>7 DEF ChildStart, ChildRead, Calculate, ChildTo, Dead
  <2>2. m'["parent"] = m["parent"]
    BY <1>7 DEF ChildStart, ChildRead, Calculate, PrimeTypeOK, Proc
  <2> QED
    BY <2>1, <2>2, StutterIsService
<1>8. CASE ChildReadEnd \/ KillChild
  <2>1. child' \in Dead /\ UNCHANGED <<parent, m, printed>>
    BY <1>8 DEF ChildReadEnd, KillChild, ChildTo, Dead
  <2> QED
    BY <2>1, ChildIsLost DEF Promise!Next
<1>9. CASE ChildWrite
  <2>1. child = "write" /\ child' \in {"read", "SIGPIPE"} /\ UNCHANGED <<parent, m, printed>>
    BY <1>9 DEF ChildWrite, ChildTo
  <2>2. CASE child' = "read"
    BY <2>1, <2>2, StutterIsService DEF Dead
  <2>3. CASE child' = "SIGPIPE"
    <3>1. child' \in Dead
      BY <2>3 DEF Dead
    <3> QED
      BY <2>1, <3>1, ChildIsLost DEF Promise!Next
  <2> QED
    BY <2>1, <2>2, <2>3
<1>10. CASE \E n \in Number : Type(n)
  BY <1>3, <1>10 DEF Promise!Next
<1>11. CASE PrimeNext
  BY <1>2, <1>4, <1>5, <1>6, <1>7, <1>8, <1>9, <1>10, <1>11
     DEF PrimeNext, Parent, Child
<1> QED
  BY <1>1, <1>11

\* The values that the variables can have (IPC-2/main.cpp:32-98).
THEOREM PrimeTypes ==
  PrimeSpec => []PrimeTypeOK
BY PrimeInvariant, PTL DEF PrimeInv

\* The answer that is printed is the n-th prime for the n that was typed last, and
\* none is missing while the child lives (IPC-2/main.cpp:10-29, 50-58, 84-90).
THEOREM PrimesArePromised ==
  PrimeSpec => RefinesService
<1>1. PrimeInit => Promise!Init
  BY InitIsService
<1>2. PrimeInv /\ [PrimeNext]_primeVars => [Promise!Next]_(Promise!vars)
  BY StepIsService
<1> QED
  BY <1>1, <1>2, PrimeInvariant, PTL DEF PrimeSpec, RefinesService, Promise!Spec

----------------------------------------------------------------------------
\* Liveness.

\* Once a process has passed its first closes, or is gone, nobody waits for it at
\* an end that it does not use.
EndsInv ==
  /\ parent # "start" => "parent" \notin ends["pipe2[1]"]
  /\ parent \in Dead \cup {"wait"} => "parent" \notin ends["pipe1[1]"]
  /\ child # "start" => "child" \notin ends["pipe1[1]"]
  /\ child \in Dead => "child" \notin ends["pipe2[1]"]

\* At most one request is under way.
OneRequest ==
  /\ child \in {"calculate", "write"} => request = <<>>
  /\ child \in {"start", "read"} => request = <<>> \/ Tail(request) = <<>>

LiveInv == PrimeInv /\ EndsInv /\ OneRequest

LEMMA StepEnds ==
  ASSUME PrimeInv, EndsInv, [PrimeNext]_primeVars
  PROVE  EndsInv'
<1> USE DEF PrimeInv, PrimeTypeOK, EndsInv, Dead, End, Proc, CloseEnds
<1>1. CASE UNCHANGED <<parent, child, ends>>
  BY <1>1
<1>2. CASE ParentStart \/ ParentClose \/ KillParent
  BY <1>2 DEF ParentStart, ParentClose, KillParent, ParentTo
<1>3. CASE ParentWrite
  BY <1>3 DEF ParentWrite, ParentTo
<1>4. CASE ParentRead \/ ParentWait \/ InputEnds \/ Exit \/ \E n \in Number : Type(n)
  <2>1. /\ UNCHANGED <<child, ends>> /\ parent # "start"
        /\ parent' \in {"prompt", "ended", "spinning", "close", "write"}
        /\ parent' = "ended" => parent = "wait"
    BY <1>4 DEF ParentRead, ParentWait, InputEnds, Exit, Type, ParentTo
  <2> QED
    BY <2>1
<1>5. CASE ChildStart \/ ChildReadEnd \/ KillChild
  BY <1>5 DEF ChildStart, ChildReadEnd, KillChild, ChildTo
<1>6. CASE ChildRead \/ Calculate
  <2>1. /\ UNCHANGED <<parent, ends>> /\ child # "start"
        /\ child' \in {"calculate", "write"}
    BY <1>6 DEF ChildRead, Calculate, ChildTo
  <2> QED
    BY <2>1
<1>7. CASE ChildWrite
  BY <1>7 DEF ChildWrite, ChildTo
<1> QED
  BY <1>1, <1>2, <1>3, <1>4, <1>5, <1>6, <1>7 DEF PrimeNext, Parent, Child, primeVars

LEMMA StepOneRequest ==
  ASSUME PrimeInv, OneRequest, [PrimeNext]_primeVars
  PROVE  OneRequest'
<1> USE DEF PrimeInv, OneRequest, Dead
<1>1. CASE UNCHANGED <<child, request>>
  BY <1>1
<1>2. CASE ParentWrite
  <2>1. child \in Dead \/ (child \in {"start", "read"} /\ request = <<>>)
    BY <1>2 DEF ParentWrite, ParentTo, PipeInv
  <2>2. UNCHANGED child /\ (UNCHANGED request \/ request' = Append(request, m["parent"]))
    BY <1>2 DEF ParentWrite, ParentTo
  <2>3. request = <<>> => Tail(Append(request, m["parent"])) = <<>>
    OBVIOUS
  <2> QED
    BY <2>1, <2>2, <2>3
<1>3. CASE ChildStart \/ ChildReadEnd \/ KillChild \/ Calculate \/ ChildWrite
  <2>1. /\ UNCHANGED request /\ child' \in Dead \cup {"read", "write"}
        /\ child' = "write" => child = "calculate"
        /\ child' = "read" => child \in {"start", "write"}
    BY <1>3 DEF ChildStart, ChildReadEnd, KillChild, Calculate, ChildWrite, ChildTo, Data
  <2> QED
    BY <2>1
<1>4. CASE ChildRead
  BY <1>4 DEF ChildRead, ChildTo
<1>5. CASE ParentStart \/ ParentRead \/ ParentClose \/ ParentWait \/ InputEnds \/ Exit
           \/ KillParent \/ \E n \in Number : Type(n)
  BY <1>1, <1>5 DEF ParentStart, ParentRead, ParentClose, ParentWait, InputEnds, Exit,
                    KillParent, Type, ParentTo, Data
<1> QED
  BY <1>1, <1>2, <1>3, <1>4, <1>5 DEF PrimeNext, Parent, Child, primeVars

LEMMA LiveInvariant == PrimeSpec => []LiveInv
<1>1. PrimeInit => EndsInv /\ OneRequest
  BY DEF PrimeInit, EndsInv, OneRequest, Dead
<1>2. PrimeInv /\ EndsInv /\ [PrimeNext]_primeVars => EndsInv'
  BY StepEnds
<1>3. PrimeInv /\ OneRequest /\ [PrimeNext]_primeVars => OneRequest'
  BY StepOneRequest
<1> QED
  BY <1>1, <1>2, <1>3, PrimeInvariant, PTL DEF PrimeSpec, LiveInv

\* From a question to its answer: where the child is while the parent reads. It
\* goes through these places in their order, and its death leads to the last.
AtStart     == parent = "read" /\ child = "start"
AtRead      == parent = "read" /\ child = "read" /\ request # <<>>
AtCalculate == parent = "read" /\ child = "calculate"
AtWrite     == parent = "read" /\ child = "write"
Answered    == parent = "read" /\ (child \in Dead \/ (child = "read" /\ answer # <<>>))

LEMMA ReadIsSomewhere ==
  LiveInv /\ parent = "read" => AtStart \/ AtRead \/ AtCalculate \/ AtWrite \/ Answered
<1> SUFFICES ASSUME LiveInv, parent = "read"
             PROVE  AtStart \/ AtRead \/ AtCalculate \/ AtWrite \/ Answered
  OBVIOUS
<1>1. InFlight
  BY DEF LiveInv, PrimeInv, PipeInv
<1>2. request = <<m["parent"]>> => request # <<>>
  OBVIOUS
<1>3. answer = <<CalculatePrime(m["parent"])>> => answer # <<>>
  OBVIOUS
<1> QED
  BY <1>1, <1>2, <1>3 DEF InFlight, AtStart, AtRead, AtCalculate, AtWrite, Answered

LEMMA ReadIsSomewhereNext ==
  (LiveInv /\ parent = "read")' => (AtStart \/ AtRead \/ AtCalculate \/ AtWrite \/ Answered)'
BY ReadIsSomewhere, PTL

\* A parent that reads leaves the steps to the child, but for its own end.
LEMMA WhileItReads ==
  ASSUME parent = "read", parent' = "read", [PrimeNext]_primeVars
  PROVE  UNCHANGED <<child, request, answer>> \/ Child \/ KillChild
BY DEF PrimeNext, primeVars, Parent, ParentStart, ParentWrite, ParentRead, ParentClose,
       ParentWait, ParentTo, InputEnds, Exit, KillParent, Type

\* What the child does to these places.
LEMMA ChildGoesOn ==
  ASSUME parent = "read", parent' = "read", Child
  PROVE  /\ AtStart => child' = "read"
         /\ AtRead => AtCalculate'
         /\ AtCalculate => AtWrite'
         /\ AtWrite => Answered'
<1> USE DEF AtStart, AtRead, AtCalculate, AtWrite, Answered
<1>1. CASE ChildWrite
  <2>1. child = "write"
    BY <1>1 DEF ChildWrite, ChildTo
  <2>2. Append(answer, result) # <<>>
    OBVIOUS
  <2> QED
    BY <1>1, <2>1, <2>2 DEF ChildWrite, ChildTo, Dead
<1> QED
  BY <1>1 DEF Child, ChildStart, ChildRead, ChildReadEnd, Calculate, ChildTo

\* The places are passed in their order, and in each somebody can go on.
LEMMA ReadGoesOn ==
  ASSUME LiveInv, LiveInv', [PrimeNext]_primeVars, parent' = "read"
  PROVE  /\ AtStart => AtStart' \/ AtRead' \/ Answered'
         /\ AtRead => AtRead' \/ AtCalculate' \/ Answered'
         /\ AtCalculate => AtCalculate' \/ AtWrite' \/ Answered'
         /\ AtWrite => AtWrite' \/ Answered'
         /\ Answered => Answered'
<1> SUFFICES ASSUME parent = "read"
             PROVE  /\ AtStart => AtStart' \/ AtRead' \/ Answered'
                    /\ AtRead => AtRead' \/ AtCalculate' \/ Answered'
                    /\ AtCalculate => AtCalculate' \/ AtWrite' \/ Answered'
                    /\ AtWrite => AtWrite' \/ Answered'
                    /\ Answered => Answered'
  BY DEF AtStart, AtRead, AtCalculate, AtWrite, Answered
<1>1. CASE UNCHANGED <<child, request, answer>>
  BY <1>1 DEF AtStart, AtRead, AtCalculate, AtWrite, Answered
<1>2. CASE KillChild
  BY <1>2 DEF KillChild, Answered, Dead
<1>3. CASE Child
  <2>1. AtStart => AtRead' \/ Answered'
    <3>1. (AtStart \/ AtRead \/ AtCalculate \/ AtWrite \/ Answered)'
      BY ReadIsSomewhereNext
    <3> QED
      BY <1>3, <3>1, ChildGoesOn DEF AtStart, AtCalculate, AtWrite
  <2>2. Answered => Answered'
    <3>1. InFlight
      BY DEF LiveInv, PrimeInv, PipeInv
    <3>2. <<m["parent"]>> # <<>>
      OBVIOUS
    <3>3. ASSUME child = "read", answer # <<>>
          PROVE  request = <<>>
      BY <3>1, <3>3 DEF InFlight, Dead
    <3> QED
      BY <1>3, <3>3 DEF Answered, Dead, Child, ChildStart, ChildRead, ChildReadEnd, Calculate,
                        ChildWrite, ChildTo
  <2> QED
    BY <1>3, <2>1, <2>2, ChildGoesOn
<1> QED
  BY <1>1, <1>2, <1>3, WhileItReads

\* A parent that waits for an answer goes on, whatever becomes of the child
\* (IPC-2/main.cpp:65, 88).
THEOREM ReadsReturn == PrimeFairSpec /\ []StepsAreEnabled => ReadReturns
<1> DEFINE Returned == parent # "read"
<1>1. LiveInv /\ LiveInv' /\ [PrimeNext]_primeVars =>
        /\ AtStart => AtStart' \/ AtRead' \/ Answered' \/ Returned'
        /\ AtRead => AtRead' \/ AtCalculate' \/ Answered' \/ Returned'
        /\ AtCalculate => AtCalculate' \/ AtWrite' \/ Answered' \/ Returned'
        /\ AtWrite => AtWrite' \/ Answered' \/ Returned'
        /\ Answered => Answered' \/ Returned'
  BY ReadGoesOn
<1>2. LiveInv /\ LiveInv' /\ <<Child>>_primeVars =>
        /\ AtStart => AtRead' \/ Answered' \/ Returned'
        /\ AtRead => AtCalculate' \/ Answered' \/ Returned'
        /\ AtCalculate => AtWrite' \/ Answered' \/ Returned'
        /\ AtWrite => Answered' \/ Returned'
  <2> SUFFICES ASSUME LiveInv, LiveInv', Child, parent' = "read"
               PROVE  /\ AtStart => AtRead' \/ Answered'
                      /\ AtRead => AtCalculate'
                      /\ AtCalculate => AtWrite'
                      /\ AtWrite => Answered'
    OBVIOUS
  <2>1. parent = "read"
    BY DEF Child, ChildStart, ChildRead, ChildReadEnd, Calculate, ChildWrite, ChildTo
  <2>2. AtStart => AtRead' \/ Answered'
    <3>1. (AtStart \/ AtRead \/ AtCalculate \/ AtWrite \/ Answered)'
      BY ReadIsSomewhereNext
    <3> QED
      BY <2>1, <3>1, ChildGoesOn DEF AtStart, AtCalculate, AtWrite
  <2> QED
    BY <2>1, <2>2, ChildGoesOn
<1>3. Answered /\ <<Parent>>_primeVars => Returned'
  BY DEF Answered, Parent, ParentStart, ParentWrite, ParentRead, ParentClose, ParentWait, ParentTo
<1>4. AtStart \/ AtRead \/ AtCalculate \/ AtWrite => ChildCan
  BY DEF AtStart, AtRead, AtCalculate, AtWrite, ChildCan
<1>5. LiveInv /\ Answered => ParentCan
  BY DEF LiveInv, EndsInv, PrimeInv, PrimeTypeOK, Answered, ParentCan, Dead, End, Proc
<1>6. LiveInv => AtStart \/ AtRead \/ AtCalculate \/ AtWrite \/ Answered \/ Returned
  BY ReadIsSomewhere
<1>7. PrimeFairSpec => []LiveInv
  BY LiveInvariant, PTL DEF PrimeFairSpec
<1>8. PrimeFairSpec /\ []StepsAreEnabled => (Answered ~> Returned)
  BY <1>1, <1>3, <1>5, <1>7, PTL DEF PrimeFairSpec, PrimeSpec, StepsAreEnabled
<1>9. PrimeFairSpec /\ []StepsAreEnabled => (AtWrite ~> Answered \/ Returned)
  BY <1>1, <1>2, <1>4, <1>7, PTL DEF PrimeFairSpec, PrimeSpec, StepsAreEnabled
<1>10. PrimeFairSpec /\ []StepsAreEnabled => (AtCalculate ~> AtWrite \/ Answered \/ Returned)
  BY <1>1, <1>2, <1>4, <1>7, PTL DEF PrimeFairSpec, PrimeSpec, StepsAreEnabled
<1>11. PrimeFairSpec /\ []StepsAreEnabled => (AtRead ~> AtCalculate \/ Answered \/ Returned)
  BY <1>1, <1>2, <1>4, <1>7, PTL DEF PrimeFairSpec, PrimeSpec, StepsAreEnabled
<1>12. PrimeFairSpec /\ []StepsAreEnabled => (AtStart ~> AtRead \/ Answered \/ Returned)
  BY <1>1, <1>2, <1>4, <1>7, PTL DEF PrimeFairSpec, PrimeSpec, StepsAreEnabled
<1> QED
  BY <1>6, <1>7, <1>8, <1>9, <1>10, <1>11, <1>12, PTL DEF ReadReturns

\* From the end of the parent to that of the child: the parent holds no end of the
\* child's pipe any more, and the child comes to the end of it after one request.
Closing      == parent = "close"
Left         == parent \in Dead \cup {"wait"}
LeftStart    == Left /\ child = "start"
LeftFull     == Left /\ child = "read" /\ request # <<>>
LeftBusy     == Left /\ child = "calculate"
LeftAnswered == Left /\ child = "write"
LeftEmpty    == Left /\ child = "read" /\ request = <<>>
LeftAlone    == Left /\ child \in Dead
WaitsAlone   == parent = "wait" /\ child \in Dead
BothDead     == parent \in Dead /\ child \in Dead

LEMMA LeftIsSomewhere ==
  LiveInv /\ Left =>
    LeftStart \/ LeftFull \/ LeftBusy \/ LeftAnswered \/ LeftEmpty \/ LeftAlone
BY DEF LiveInv, PrimeInv, PrimeTypeOK, LeftStart, LeftFull, LeftBusy, LeftAnswered,
       LeftEmpty, LeftAlone

LEMMA LeftStays ==
  ASSUME Left, [PrimeNext]_primeVars
  PROVE  /\ Left'
         /\ UNCHANGED <<child, request>> \/ Child \/ KillChild
         /\ parent \in Dead => parent' \in Dead
<1> USE DEF Left, Dead
<1>1. CASE ParentWait \/ KillParent
  BY <1>1 DEF ParentWait, KillParent, ParentTo, Data
<1>2. CASE Child
  BY <1>2 DEF Child, ChildStart, ChildRead, ChildReadEnd, Calculate, ChildWrite, ChildTo
<1> QED
  BY <1>1, <1>2 DEF PrimeNext, primeVars, Parent, ParentStart, ParentWrite, ParentRead,
                    ParentClose, ParentTo, InputEnds, Exit, KillChild, Type

\* What the child does to these places.
LEMMA LeftChildGoesOn ==
  ASSUME LiveInv, Left, Left', Child
  PROVE  /\ LeftStart => LeftFull' \/ LeftEmpty'
         /\ LeftFull => LeftBusy'
         /\ LeftBusy => LeftAnswered'
         /\ LeftAnswered => LeftEmpty' \/ LeftAlone'
         /\ LeftEmpty => LeftAlone'
         /\ LeftAlone => LeftAlone'
<1> USE DEF LeftStart, LeftFull, LeftBusy, LeftAnswered, LeftEmpty, LeftAlone, Dead
<1>1. CASE ChildWrite
  <2>1. child = "write" /\ request' = <<>>
    BY <1>1 DEF ChildWrite, ChildTo, LiveInv, OneRequest
  <2> QED
    BY <1>1, <2>1 DEF ChildWrite, ChildTo
<1> QED
  BY <1>1 DEF Child, ChildStart, ChildRead, ChildReadEnd, Calculate, ChildTo

LEMMA LeftGoesOn ==
  ASSUME LiveInv, Left, [PrimeNext]_primeVars
  PROVE  /\ LeftStart => LeftStart' \/ LeftFull' \/ LeftEmpty' \/ LeftAlone'
         /\ LeftFull => LeftFull' \/ LeftBusy' \/ LeftAlone'
         /\ LeftBusy => LeftBusy' \/ LeftAnswered' \/ LeftAlone'
         /\ LeftAnswered => LeftAnswered' \/ LeftEmpty' \/ LeftAlone'
         /\ LeftEmpty => LeftEmpty' \/ LeftAlone'
         /\ LeftAlone => LeftAlone'
<1>1. Left'
  BY LeftStays
<1>2. CASE UNCHANGED <<child, request>>
  BY <1>1, <1>2 DEF LeftStart, LeftFull, LeftBusy, LeftAnswered, LeftEmpty, LeftAlone
<1>3. CASE KillChild
  BY <1>1, <1>3 DEF KillChild, LeftAlone, Dead
<1>4. CASE Child
  BY <1>1, <1>4, LeftChildGoesOn
<1> QED
  BY <1>2, <1>3, <1>4, LeftStays

\* "exit", and the death of the parent at any place, end both processes: no end of a
\* pipe that is left open keeps the child in its read (IPC-2/main.cpp:47, 52, 93-95).
THEOREM BothEnd == PrimeFairSpec /\ []StepsAreEnabled => ExitEndsBoth
<1>1. LiveInv /\ [PrimeNext]_primeVars =>
        /\ LeftStart => LeftStart' \/ LeftFull' \/ LeftEmpty' \/ LeftAlone'
        /\ LeftFull => LeftFull' \/ LeftBusy' \/ LeftAlone'
        /\ LeftBusy => LeftBusy' \/ LeftAnswered' \/ LeftAlone'
        /\ LeftAnswered => LeftAnswered' \/ LeftEmpty' \/ LeftAlone'
        /\ LeftEmpty => LeftEmpty' \/ LeftAlone'
        /\ LeftAlone => LeftAlone'
  BY LeftGoesOn DEF LeftStart, LeftFull, LeftBusy, LeftAnswered, LeftEmpty, LeftAlone
<1>2. LiveInv /\ [PrimeNext]_primeVars /\ <<Child>>_primeVars =>
        /\ LeftStart => LeftFull' \/ LeftEmpty'
        /\ LeftFull => LeftBusy'
        /\ LeftBusy => LeftAnswered'
        /\ LeftAnswered => LeftEmpty' \/ LeftAlone'
        /\ LeftEmpty => LeftAlone'
  BY LeftStays, LeftChildGoesOn
     DEF LeftStart, LeftFull, LeftBusy, LeftAnswered, LeftEmpty, LeftAlone
<1>3. Closing /\ [PrimeNext]_primeVars => Closing' \/ Left'
  BY DEF Closing, Left, Dead, PrimeNext, primeVars, Parent, ParentStart, ParentWrite, ParentRead,
         ParentClose, ParentWait, ParentTo, InputEnds, Exit, KillParent, KillChild, Type, Child,
         ChildStart, ChildRead, ChildReadEnd, Calculate, ChildWrite, ChildTo
<1>4. Closing /\ <<Parent>>_primeVars => Left'
  BY DEF Closing, Left, Parent, ParentStart, ParentWrite, ParentRead, ParentClose, ParentWait,
         ParentTo
<1>5. /\ LeftAlone => BothDead \/ WaitsAlone
      /\ WaitsAlone /\ [PrimeNext]_primeVars => WaitsAlone' \/ BothDead'
      /\ WaitsAlone /\ <<Parent>>_primeVars => BothDead'
  <2>1. WaitsAlone /\ [PrimeNext]_primeVars => WaitsAlone' \/ BothDead'
    BY DEF WaitsAlone, BothDead, Dead, PrimeNext, primeVars, Parent, ParentStart, ParentWrite,
           ParentRead, ParentClose, ParentWait, ParentTo, InputEnds, Exit, KillParent, KillChild,
           Type, Child, ChildStart, ChildRead, ChildReadEnd, Calculate, ChildWrite, ChildTo
  <2>2. WaitsAlone /\ <<Parent>>_primeVars => BothDead'
    BY DEF WaitsAlone, BothDead, Dead, Parent, ParentStart, ParentWrite, ParentRead, ParentClose,
           ParentWait, ParentTo
  <2> QED
    BY <2>1, <2>2 DEF LeftAlone, Left, WaitsAlone, BothDead
<1>6. /\ LeftStart \/ LeftBusy \/ LeftAnswered \/ LeftFull => ChildCan
      /\ LiveInv /\ LeftEmpty => ChildCan
      /\ Closing \/ WaitsAlone => ParentCan
  BY DEF LeftStart, LeftBusy, LeftAnswered, LeftFull, LeftEmpty, Left, Closing, WaitsAlone,
         ChildCan, ParentCan, LiveInv, EndsInv, PrimeInv, PrimeTypeOK, End, Proc
<1>7. PrimeFairSpec => []LiveInv
  BY LiveInvariant, PTL DEF PrimeFairSpec
<1>8. PrimeFairSpec /\ []StepsAreEnabled => (Closing ~> Left)
  BY <1>3, <1>4, <1>6, PTL DEF PrimeFairSpec, PrimeSpec, StepsAreEnabled
<1>9. PrimeFairSpec /\ []StepsAreEnabled => (WaitsAlone ~> BothDead)
  BY <1>5, <1>6, PTL DEF PrimeFairSpec, PrimeSpec, StepsAreEnabled
<1>10. PrimeFairSpec /\ []StepsAreEnabled => (LeftEmpty ~> LeftAlone)
  BY <1>1, <1>2, <1>6, <1>7, PTL DEF PrimeFairSpec, PrimeSpec, StepsAreEnabled
<1>11. PrimeFairSpec /\ []StepsAreEnabled => (LeftAnswered ~> LeftEmpty \/ LeftAlone)
  BY <1>1, <1>2, <1>6, <1>7, PTL DEF PrimeFairSpec, PrimeSpec, StepsAreEnabled
<1>12. PrimeFairSpec /\ []StepsAreEnabled => (LeftBusy ~> LeftAnswered \/ LeftAlone)
  BY <1>1, <1>2, <1>6, <1>7, PTL DEF PrimeFairSpec, PrimeSpec, StepsAreEnabled
<1>13. PrimeFairSpec /\ []StepsAreEnabled => (LeftFull ~> LeftBusy \/ LeftAlone)
  BY <1>1, <1>2, <1>6, <1>7, PTL DEF PrimeFairSpec, PrimeSpec, StepsAreEnabled
<1>14. PrimeFairSpec /\ []StepsAreEnabled => (LeftStart ~> LeftFull \/ LeftEmpty \/ LeftAlone)
  BY <1>1, <1>2, <1>6, <1>7, PTL DEF PrimeFairSpec, PrimeSpec, StepsAreEnabled
<1>15. PrimeFairSpec /\ []StepsAreEnabled => (Left ~> BothDead)
  BY <1>5, <1>7, <1>9, <1>10, <1>11, <1>12, <1>13, <1>14, LeftIsSomewhere, PTL
<1>16. parent \in Dead \cup {"close"} => Closing \/ Left
  BY DEF Closing, Left
<1>17. PrimeFairSpec /\ []StepsAreEnabled => (parent \in Dead \cup {"close"} ~> BothDead)
  BY <1>8, <1>15, <1>16, PTL
<1> QED
  BY <1>17, PTL DEF ExitEndsBoth, BothDead
=============================================================================
