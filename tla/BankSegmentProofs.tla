------------------------- MODULE BankSegmentProofs --------------------------
(***************************************************************************)
(* Theorems about BankSegment, for any number of processes and objects.    *)
(***************************************************************************)
EXTENDS BankSegment, TLAPS

\* Places of ./init before it has initialized the semaphore, and before the end
\* of the constructor.
BeforeSem == {"ftruncate", "mmap", "sem_init"}
Building == BeforeSem \cup {"construct_wait", "bills"}

\* Who has an object has one that exists; nobody shares an object with an ./init
\* that builds it, but clients that came early.
ObjectsInv ==
  /\ name <= created
  /\ \A p \in Procs : obj[p] <= created
  /\ \A p \in Procs : pc[p] = "start" => obj[p] = None
  /\ \A p \in Procs : pc[p] \notin {"start", "exited", "killed"} => obj[p] # None
  /\ \A p, q \in Inits : obj[p] # None /\ obj[p] = obj[q] => p = q
  /\ \A o \in Object : o > created => sem[o] = 0 /\ o \notin built

\* What ./init has done to its object at each place.
BuilderInv ==
  /\ built \subseteq sized
  /\ \A p \in Inits :
       /\ pc[p] \in Building => obj[p] \notin built
       /\ pc[p] \in Building \ {"ftruncate"} => obj[p] \in sized
       /\ pc[p] \in BeforeSem => sem[obj[p]] = 0

\* A semaphore is 0 while somebody visits its object, and nobody does before it
\* is initialized.
SemInv ==
  /\ \A p \in Procs : pc[p] \in Visiting => sem[obj[p]] = 0
  /\ \A p \in Inits, q \in Procs : pc[p] \in BeforeSem /\ pc[q] \in Visiting => obj[p] # obj[q]

LateInv == late \subseteq Clients /\ \A c \in late : obj[c] # None

IInv ==
  /\ TypeOK /\ ObjectsInv /\ BuilderInv /\ SemInv /\ LateInv
  /\ OneVisitor /\ LateClientsSafe /\ GivesUpOwnBank

----------------------------------------------------------------------------
LEMMA InitIInv == Init => IInv
<1> SUFFICES ASSUME Init PROVE IInv
  OBVIOUS
<1> USE BankSegmentAssumption DEF Init, None, Object, Procs
<1>1. TypeOK
  <2>1. 0 \in 0 .. MaxObjects
    OBVIOUS
  <2> QED
    BY <2>1 DEF TypeOK, PC
<1>2. ObjectsInv /\ BuilderInv /\ SemInv /\ LateInv
  BY DEF ObjectsInv, BuilderInv, SemInv, LateInv, Visiting, Building, BeforeSem
<1>3. OneVisitor /\ LateClientsSafe /\ GivesUpOwnBank
  BY DEF OneVisitor, LateClientsSafe, GivesUpOwnBank, Visiting
<1> QED
  BY <1>1, <1>2, <1>3 DEF IInv

----------------------------------------------------------------------------
\* ./init, up to the constructor.

LEMMA StepCreate ==
  ASSUME IInv, NEW p \in Inits, Create(p)
  PROVE  IInv'
<1> USE BankSegmentAssumption DEF IInv, TypeOK, Create, Move, KeepObjects, None, Object, Procs
<1>1. created + 1 \in Object /\ p \in Procs /\ p \notin Clients
  OBVIOUS
<1>2. TypeOK'
  BY <1>1 DEF PC
<1>3. /\ sem[created + 1] = 0 /\ created + 1 \notin built
      /\ \A q \in Procs : obj[q] # created + 1
  BY <1>1 DEF ObjectsInv
<1>4. /\ \A q \in Procs : q # p => pc'[q] = pc[q] /\ obj'[q] = obj[q]
      /\ pc'[p] = "ftruncate" /\ obj'[p] = created + 1
  BY <1>1
<1>5. ObjectsInv'
  BY <1>1, <1>3, <1>4 DEF ObjectsInv
<1>6. BuilderInv'
  BY <1>1, <1>3, <1>4 DEF BuilderInv, Building, BeforeSem
<1>7. SemInv' /\ OneVisitor'
  BY <1>1, <1>3, <1>4 DEF SemInv, OneVisitor, Visiting, BeforeSem
<1>8. LateInv' /\ LateClientsSafe'
  BY <1>1, <1>4 DEF LateInv, LateClientsSafe
<1>9. GivesUpOwnBank'
  BY <1>1, <1>3, <1>4 DEF GivesUpOwnBank, ObjectsInv
<1> QED
  BY <1>2, <1>5, <1>6, <1>7, <1>8, <1>9

LEMMA StepFtruncate ==
  ASSUME IInv, NEW p \in Inits, Ftruncate(p) \/ Mmap(p)
  PROVE  IInv'
<1> USE BankSegmentAssumption DEF IInv, TypeOK, Ftruncate, Mmap, Move, KeepNames, KeepObjects, None, Object, Procs
<1>1. /\ obj[p] \in Object /\ p \in Procs
      /\ \A q \in Procs : q # p => pc'[q] = pc[q]
      /\ \/ pc[p] = "ftruncate" /\ pc'[p] = "mmap" /\ sized' = sized \cup {obj[p]}
         \/ pc[p] = "mmap" /\ pc'[p] = "sem_init" /\ UNCHANGED sized
      /\ UNCHANGED <<name, created, obj, late, overtaken, sem, built>>
  BY DEF ObjectsInv
<1>2. TypeOK'
  BY <1>1 DEF PC
<1>3. ObjectsInv'
  BY <1>1 DEF ObjectsInv
<1>4. BuilderInv'
  BY <1>1 DEF BuilderInv, Building, BeforeSem
<1>5. SemInv' /\ OneVisitor'
  BY <1>1 DEF SemInv, OneVisitor, Visiting, BeforeSem
<1>6. LateInv' /\ LateClientsSafe'
  BY <1>1 DEF LateInv, LateClientsSafe
<1>7. GivesUpOwnBank'
  BY <1>1 DEF GivesUpOwnBank
<1> QED
  BY <1>2, <1>3, <1>4, <1>5, <1>6, <1>7

LEMMA StepGiveUp ==
  ASSUME IInv, NEW p \in Inits, GiveUp(p)
  PROVE  IInv'
<1> USE BankSegmentAssumption DEF IInv, TypeOK, GiveUp, KeepObjects, None, Object, Procs
<1>1. /\ obj[p] \in Object /\ p \in Procs
      /\ \A q \in Procs : q # p => pc'[q] = pc[q]
      /\ pc[p] \in {"ftruncate", "mmap"} /\ pc'[p] = "exited" /\ name' = None
      /\ UNCHANGED <<created, obj, late, overtaken, sem, built, sized>>
  BY DEF ObjectsInv
<1>2. TypeOK'
  BY <1>1 DEF PC
<1>3. ObjectsInv'
  BY <1>1 DEF ObjectsInv
<1>4. BuilderInv'
  BY <1>1 DEF BuilderInv, Building, BeforeSem
<1>5. SemInv' /\ OneVisitor'
  BY <1>1 DEF SemInv, OneVisitor, Visiting, BeforeSem
<1>6. LateInv' /\ LateClientsSafe'
  BY <1>1 DEF LateInv, LateClientsSafe
<1>7. GivesUpOwnBank'
  BY <1>1 DEF GivesUpOwnBank, ObjectsInv
<1> QED
  BY <1>2, <1>3, <1>4, <1>5, <1>6, <1>7

\* The semaphore becomes 1 when nobody visits the object; who slept on its zeros
\* came before the bank was built.
LEMMA StepSemInit ==
  ASSUME IInv, NEW p \in Inits, SemInit(p)
  PROVE  IInv'
<1> USE BankSegmentAssumption DEF IInv, TypeOK, KeepNames, None, Object, Procs
<1>1. PICK early \in SUBSET {c \in Clients : pc[c] = "sem_wait" /\ obj[c] = obj[p]} :
        pc' = [q \in Procs |-> IF q = p THEN "construct_wait"
                              ELSE IF q \in early THEN "asleep" ELSE pc[q]]
  BY DEF SemInit
<1>2. /\ obj[p] \in Object /\ p \in Procs /\ p \notin Clients
      /\ pc[p] = "sem_init" /\ pc'[p] = "construct_wait"
      /\ \A q \in Procs \ {p} :
           \/ pc'[q] = pc[q]
           \/ pc[q] = "sem_wait" /\ pc'[q] = "asleep" /\ obj[q] = obj[p]
      /\ sem' = [sem EXCEPT ![obj[p]] = 1]
      /\ UNCHANGED <<name, created, obj, late, overtaken, built, sized>>
  BY <1>1 DEF SemInit, ObjectsInv
<1>3. TypeOK'
  <2>1. pc' \in [Procs -> PC]
    BY <1>1 DEF PC, Waiting
  <2> QED
    BY <1>2, <2>1
<1>4. ObjectsInv'
  BY <1>2 DEF ObjectsInv
<1>5. BuilderInv'
  BY <1>2 DEF BuilderInv, Building, BeforeSem, ObjectsInv
<1>6. SemInv' /\ OneVisitor'
  BY <1>2 DEF SemInv, OneVisitor, Visiting, BeforeSem
<1>7. LateInv' /\ LateClientsSafe'
  BY <1>2 DEF LateInv, LateClientsSafe, BuilderInv, Building, BeforeSem
<1>8. GivesUpOwnBank'
  BY <1>2 DEF GivesUpOwnBank
<1> QED
  BY <1>3, <1>4, <1>5, <1>6, <1>7, <1>8

----------------------------------------------------------------------------
\* Any process.

\* A step that leaves everything alone but the place of p.
LEMMA StepWalk ==
  ASSUME IInv, NEW p \in Procs, NEW to \in {"exited", "killed", "menu", "sem_wait", "crashing"},
         pc' = [pc EXCEPT ![p] = to],
         to \in {"menu", "sem_wait", "crashing"} => pc[p] \notin {"start", "exited", "killed"},
         to = "crashing" => p \notin late,
         KeepNames, KeepObjects
  PROVE  IInv'
<1> USE BankSegmentAssumption DEF IInv, TypeOK, KeepNames, KeepObjects, None, Object, Procs
<1>1. TypeOK'
  BY DEF PC, Waiting
<1>2. ObjectsInv'
  BY DEF ObjectsInv
<1>3. BuilderInv'
  BY DEF BuilderInv, Building, BeforeSem
<1>4. SemInv' /\ OneVisitor'
  BY DEF SemInv, OneVisitor, Visiting, BeforeSem
<1>5. LateInv' /\ LateClientsSafe'
  BY DEF LateInv, LateClientsSafe
<1>6. GivesUpOwnBank'
  BY DEF GivesUpOwnBank
<1> QED
  BY <1>1, <1>2, <1>3, <1>4, <1>5, <1>6

LEMMA StepWait ==
  ASSUME IInv, NEW p \in Procs, NEW from \in Waiting, NEW to \in Visiting,
         from = "construct_wait" <=> to = "bills",
         Wait(p, from, to)
  PROVE  IInv'
<1> USE BankSegmentAssumption DEF IInv, TypeOK, Wait, Move, KeepNames, None, Object, Procs
<1>1. /\ obj[p] \in Object /\ obj[p] # None
      /\ sem[obj[p]] = 1 /\ sem' = [sem EXCEPT ![obj[p]] = 0]
      /\ pc[p] = from /\ pc' = [pc EXCEPT ![p] = to]
      /\ UNCHANGED <<name, created, obj, late, overtaken, built, sized>>
  <2>1. obj[p] \in Object /\ obj[p] # None
    BY DEF ObjectsInv, Waiting
  <2>2. sem[obj[p]] \in {0, 1} /\ sem[obj[p]] > 0
    BY <2>1
  <2>3. sem[obj[p]] = 1 /\ sem[obj[p]] - 1 = 0
    BY <2>2
  <2> QED
    BY <2>1, <2>3
<1>2. TypeOK'
  BY <1>1 DEF PC
<1>3. ObjectsInv'
  BY <1>1 DEF ObjectsInv, Waiting, Visiting
<1>4. BuilderInv'
  BY <1>1 DEF BuilderInv, Building, BeforeSem, Waiting, Visiting
<1>5. SemInv'
  BY <1>1 DEF SemInv, BuilderInv, Visiting, Waiting, BeforeSem
<1>6. OneVisitor'
  BY <1>1 DEF SemInv, OneVisitor, Visiting, Waiting
<1>7. LateInv' /\ LateClientsSafe'
  BY <1>1 DEF LateInv, LateClientsSafe, Visiting
<1>8. GivesUpOwnBank'
  BY <1>1 DEF GivesUpOwnBank, Visiting
<1> QED
  BY <1>2, <1>3, <1>4, <1>5, <1>6, <1>7, <1>8

LEMMA StepPost ==
  ASSUME IInv, NEW p \in Procs, NEW from \in Visiting, NEW to \in {"report_wait", "exited", "menu"},
         Post(p, from, to), \/ UNCHANGED built
                            \/ from = "bills" /\ p \in Inits /\ built' = built \cup {obj[p]}
  PROVE  IInv'
<1> USE BankSegmentAssumption DEF IInv, TypeOK, Post, Move, KeepNames, None, Object, Procs
<1>1. /\ obj[p] \in Object /\ obj[p] # None /\ obj[p] <= created
      /\ sem' = [sem EXCEPT ![obj[p]] = 1]
      /\ pc[p] = from /\ pc' = [pc EXCEPT ![p] = to]
      /\ UNCHANGED <<name, created, obj, late, overtaken, sized>>
  <2>1. obj[p] \in Object /\ obj[p] # None /\ obj[p] <= created
    BY DEF ObjectsInv, Visiting
  <2>2. sem[obj[p]] = 0
    BY DEF SemInv
  <2>3. sem[obj[p]] + 1 = 1
    BY <2>2
  <2> QED
    BY <2>1, <2>3
<1>2. TypeOK'
  BY <1>1 DEF PC, Waiting
<1>3. ObjectsInv'
  BY <1>1 DEF ObjectsInv, Visiting
<1>4. BuilderInv'
  <2>1. \A q \in Inits : q # p /\ pc[q] \in BeforeSem => obj[q] # obj[p]
    BY <1>1 DEF SemInv
  <2>2. \A q \in Inits : q # p /\ p \in Inits => obj[q] # obj[p]
    BY <1>1 DEF ObjectsInv
  <2>3. pc[p] = "bills" /\ p \in Inits => obj[p] \in sized
    BY DEF BuilderInv, Building
  <2>4. built' \subseteq sized'
    <3>1. built \subseteq sized /\ sized' = sized
      BY <1>1 DEF BuilderInv
    <3>2. from = pc[p]
      BY <1>1
    <3> QED
      BY <2>3, <3>1, <3>2
  <2> QED
    BY <1>1, <2>1, <2>2, <2>4 DEF BuilderInv, Building, BeforeSem, Visiting
<1>5. SemInv'
  BY <1>1 DEF SemInv, OneVisitor, Visiting, BeforeSem
<1>6. OneVisitor'
  BY <1>1 DEF OneVisitor, Visiting
<1>7. LateInv' /\ LateClientsSafe'
  BY <1>1 DEF LateInv, LateClientsSafe
<1>8. GivesUpOwnBank'
  BY <1>1 DEF GivesUpOwnBank
<1> QED
  BY <1>2, <1>3, <1>4, <1>5, <1>6, <1>7, <1>8

----------------------------------------------------------------------------
\* ./destroy and ./client.

LEMMA StepDestroy ==
  ASSUME IInv, Destroy
  PROVE  IInv'
<1> USE BankSegmentAssumption DEF IInv, TypeOK, Destroy, KeepObjects, None, Object, Procs
<1>1. TypeOK' /\ ObjectsInv' /\ BuilderInv'
  BY DEF ObjectsInv, BuilderInv
<1>2. SemInv' /\ OneVisitor' /\ LateInv' /\ LateClientsSafe'
  BY DEF SemInv, OneVisitor, LateInv, LateClientsSafe
<1>3. GivesUpOwnBank'
  BY DEF GivesUpOwnBank
<1> QED
  BY <1>1, <1>2, <1>3

LEMMA StepOpen ==
  ASSUME IInv, NEW c \in Clients, Open(c), name # None
  PROVE  IInv'
<1> USE BankSegmentAssumption DEF IInv, TypeOK, Open, Move, KeepObjects, None, Object, Procs
<1>1. /\ c \in Procs /\ c \notin Inits /\ c \notin late
      /\ pc[c] = "start" /\ pc' = [pc EXCEPT ![c] = "fstat"] /\ obj' = [obj EXCEPT ![c] = name]
      /\ late' = (IF name \in built THEN late \cup {c} ELSE late)
      /\ UNCHANGED <<name, created, overtaken, sem, built, sized>>
  BY DEF LateInv, ObjectsInv
<1>2. TypeOK'
  BY <1>1 DEF PC
<1>3. ObjectsInv'
  BY <1>1 DEF ObjectsInv
<1>4. BuilderInv'
  BY <1>1 DEF BuilderInv, Building, BeforeSem
<1>5. SemInv' /\ OneVisitor'
  BY <1>1 DEF SemInv, OneVisitor, Visiting, BeforeSem
<1>6. LateInv' /\ LateClientsSafe'
  BY <1>1 DEF LateInv, LateClientsSafe
<1>7. GivesUpOwnBank'
  BY <1>1 DEF GivesUpOwnBank
<1> QED
  BY <1>2, <1>3, <1>4, <1>5, <1>6, <1>7

----------------------------------------------------------------------------
LEMMA StepIInv == IInv /\ [Next]_vars => IInv'
<1> SUFFICES ASSUME IInv, [Next]_vars PROVE IInv'
  OBVIOUS
<1>1. ASSUME NEW p \in Inits, InitStep(p) PROVE IInv'
  <2> p \in Procs
    BY DEF Procs
  <2>1. CASE Create(p)
    BY <2>1, StepCreate
  <2>2. CASE Exists(p)
    BY <2>2, StepWalk DEF Exists, Move
  <2>3. CASE Ftruncate(p) \/ Mmap(p)
    BY <2>3, StepFtruncate
  <2>4. CASE GiveUp(p)
    BY <2>4, StepGiveUp
  <2>5. CASE SemInit(p)
    BY <2>5, StepSemInit
  <2>6. CASE ConstructWait(p) \/ ReportWait(p)
    BY <2>6, StepWait DEF ConstructWait, ReportWait, Waiting, Visiting
  <2>7. CASE Construct(p) \/ Report(p)
    BY <2>7, StepPost DEF Construct, Report, Visiting
  <2> QED
    BY <1>1, <2>1, <2>2, <2>3, <2>4, <2>5, <2>6, <2>7 DEF InitStep
<1>2. ASSUME NEW c \in Clients, ClientStep(c) PROVE IInv'
  <2> c \in Procs
    BY DEF Procs
  <2>1. CASE Open(c) /\ name # None
    BY <2>1, StepOpen
  <2>2. CASE Open(c) /\ name = None
    BY <2>2, StepWalk DEF Open, Move, KeepNames, KeepObjects
  <2>3. CASE Attach(c)
    <3>1. c \in late => obj[c] \in sized
      BY DEF IInv, LateClientsSafe, BuilderInv
    <3> QED
      BY <2>3, <3>1, StepWalk DEF Attach, Move
  <2>4. CASE Call(c) \/ Leave(c)
    BY <2>4, StepWalk DEF Call, Leave, Move
  <2>5. CASE Enter(c) \/ Wake(c)
    BY <2>5, StepWait DEF Enter, Wake, Waiting, Visiting
  <2>6. CASE Return(c)
    BY <2>6, StepPost DEF Return, Visiting
  <2> QED
    BY <1>2, <2>1, <2>2, <2>3, <2>4, <2>5, <2>6 DEF ClientStep
<1>3. ASSUME NEW p \in Procs, Die(p) PROVE IInv'
  BY <1>3, StepWalk DEF Die
<1>4. CASE UNCHANGED vars
  BY <1>4 DEF vars, IInv, TypeOK, ObjectsInv, BuilderInv, SemInv, LateInv, OneVisitor,
              LateClientsSafe, GivesUpOwnBank
<1> QED
  BY <1>1, <1>2, <1>3, <1>4, StepDestroy DEF Next

LEMMA Invariance == Spec => []IInv
BY InitIInv, StepIInv, PTL DEF Spec

\* The type invariant.
THEOREM TypeCorrect == Spec => []TypeOK
BY Invariance, PTL DEF IInv

\* For any number of ./init, ./client and ./destroy, and whoever is killed, one
\* process at most is inside a method or the constructor of a bank.
THEOREM MutualExclusion == Spec => []OneVisitor
BY Invariance, PTL DEF IInv

\* Whoever opens /bank after its constructor is safe, whatever happens to the
\* name later.
THEOREM LateIsSafe == Spec => []LateClientsSafe
BY Invariance, PTL DEF IInv

\* ./init never removes the bank of another one, unless ./destroy overtook it.
THEOREM RemovesItsOwn == Spec => []GivesUpOwnBank
BY Invariance, PTL DEF IInv
=============================================================================
