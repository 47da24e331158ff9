---------------------------- MODULE BankSegment ----------------------------
(***************************************************************************)
(* The life of the shared-memory object behind the name /bank: ./init      *)
(* creates it, gives it a size, maps it and runs the constructor of Bank   *)
(* in it; ./client attaches to whatever the name refers to; ./destroy      *)
(* removes the name, the object stays with those who have it.  BankShm     *)
(* takes over once the bank is built; here every method of Bank is a       *)
(* visit, between its sem_wait and its sem_post.                           *)
(***************************************************************************)
EXTENDS Naturals

CONSTANTS
  Inits,        \* the processes that run ./init with a valid argument
  Clients,      \* the processes that run ./client
  MaxObjects    \* bound: objects that are created

ASSUME BankSegmentAssumption ==
  /\ Inits \cap Clients = {}
  /\ MaxObjects \in Nat

None == 0
Object == 1 .. MaxObjects
Procs == Inits \cup Clients

VARIABLES
  name,      \* the object that /bank refers to, or None
  created,   \* the objects 1 .. created exist
  sized,     \* the objects that ftruncate has given their size
  sem,       \* Bank::semaphore in each object; a new object is all zeros
  built,     \* the objects whose constructor has come to its end
  pc,        \* where each process is
  obj,       \* the object behind the descriptor of each process
  late,      \* history: the processes that opened a bank already built
  overtaken  \* history: ./destroy ran while an init could still give up

vars == <<name, created, sized, sem, built, pc, obj, late, overtaken>>

Waiting == {"construct_wait", "report_wait", "sem_wait", "asleep"}
Visiting == {"bills", "report", "method"}
PC == Waiting \cup Visiting \cup
      {"start", "ftruncate", "mmap", "sem_init", "fstat", "crashing", "menu", "exited", "killed"}

TypeOK ==
  /\ name \in Object \cup {None}
  /\ created \in 0 .. MaxObjects
  /\ sized \subseteq Object
  /\ sem \in [Object -> {0, 1}]
  /\ built \subseteq Object
  /\ pc \in [Procs -> PC]
  /\ obj \in [Procs -> Object \cup {None}]
  /\ late \subseteq Procs
  /\ overtaken \in BOOLEAN

Init ==
  /\ name = None
  /\ created = 0
  /\ sized = {}
  /\ sem = [o \in Object |-> 0]
  /\ built = {}
  /\ pc = [p \in Procs |-> "start"]
  /\ obj = [p \in Procs |-> None]
  /\ late = {}
  /\ overtaken = FALSE

Move(p, from, to) == pc[p] = from /\ pc' = [pc EXCEPT ![p] = to]
KeepNames == UNCHANGED <<name, created, obj, late, overtaken>>
KeepObjects == UNCHANGED <<sized, sem, built>>

----------------------------------------------------------------------------
\* init.cpp

\* Mutant of Create: shm_open without O_EXCL opens the bank that is there.
CreateOrOpen(p) ==
  /\ p \in Inits
  /\ name # None \/ created < MaxObjects
  /\ Move(p, "start", "ftruncate")
  /\ name' = IF name # None THEN name ELSE created + 1
  /\ created' = IF name # None THEN created ELSE created + 1
  /\ obj' = [obj EXCEPT ![p] = name']
  /\ KeepObjects /\ UNCHANGED <<late, overtaken>>

\* shm_open with O_CREAT | O_EXCL, while there is no bank ...
Create(p) ==
  /\ p \in Inits
  /\ name = None
  /\ created < MaxObjects
  /\ Move(p, "start", "ftruncate")
  /\ created' = created + 1
  /\ name' = created + 1
  /\ obj' = [obj EXCEPT ![p] = created + 1]
  /\ KeepObjects /\ UNCHANGED <<late, overtaken>>

\* ... and while there is one.
Exists(p) ==
  /\ p \in Inits
  /\ name # None
  /\ Move(p, "start", "exited")
  /\ KeepNames /\ KeepObjects

Ftruncate(p) ==
  /\ Move(p, "ftruncate", "mmap")
  /\ sized' = sized \cup {obj[p]}
  /\ KeepNames /\ UNCHANGED <<sem, built>>

\* Mutant of GiveUp: the process goes on after the error.
GoOn(p) ==
  /\ Move(p, "ftruncate", "mmap")
  /\ name' = None
  /\ KeepObjects /\ UNCHANGED <<created, obj, late, overtaken>>

\* ftruncate or mmap fails: the name is removed, whatever it refers to now.
GiveUp(p) ==
  /\ pc[p] \in {"ftruncate", "mmap"}
  /\ pc' = [pc EXCEPT ![p] = "exited"]
  /\ name' = None
  /\ KeepObjects /\ UNCHANGED <<created, obj, late, overtaken>>

Mmap(p) ==
  /\ Move(p, "mmap", "sem_init")
  /\ KeepNames /\ KeepObjects

\* Mutant of SemInit: the constructor writes the bills without a sem_wait.
SemInitNoWait(p) ==
  /\ Move(p, "sem_init", "bills")
  /\ sem' = [sem EXCEPT ![obj[p]] = 1]
  /\ KeepNames /\ UNCHANGED <<sized, built>>

\* sem_init does not wake who already sleeps on the zeros of the new object: it
\* sleeps on, until some post happens to wake it, or for ever.
SemInit(p) ==
  /\ pc[p] = "sem_init"
  /\ \E early \in SUBSET {c \in Clients : pc[c] = "sem_wait" /\ obj[c] = obj[p]} :
       pc' = [q \in Procs |-> IF q = p THEN "construct_wait"
                             ELSE IF q \in early THEN "asleep" ELSE pc[q]]
  /\ sem' = [sem EXCEPT ![obj[p]] = 1]
  /\ KeepNames /\ UNCHANGED <<sized, built>>

Wait(p, from, to) ==
  /\ Move(p, from, to)
  /\ sem[obj[p]] > 0
  /\ sem' = [sem EXCEPT ![obj[p]] = @ - 1]
  /\ KeepNames /\ UNCHANGED <<sized, built>>

Post(p, from, to) ==
  /\ Move(p, from, to)
  /\ sem' = [sem EXCEPT ![obj[p]] = @ + 1]
  /\ KeepNames /\ UNCHANGED sized

ConstructWait(p) == Wait(p, "construct_wait", "bills")
ReportWait(p)    == Wait(p, "report_wait", "report")

\* The bills are written, and the constructor posts.
Construct(p) ==
  /\ Post(p, "bills", "report_wait")
  /\ built' = built \cup {obj[p]}

\* print_info, and the end of ./init; the object stays.
Report(p) == Post(p, "report", "exited") /\ UNCHANGED built

----------------------------------------------------------------------------
\* destroy.cpp

Destroy ==
  /\ name # None
  /\ name' = None
  /\ overtaken' = (overtaken \/ \E p \in Inits : pc[p] \in {"ftruncate", "mmap"})
  /\ KeepObjects /\ UNCHANGED <<created, pc, obj, late>>

----------------------------------------------------------------------------
\* client.cpp

Open(c) ==
  /\ c \in Clients
  /\ IF name = None
     THEN Move(c, "start", "exited") /\ UNCHANGED <<obj, late>>
     ELSE /\ Move(c, "start", "fstat")
          /\ obj' = [obj EXCEPT ![c] = name]
          /\ late' = IF name \in built THEN late \cup {c} ELSE late
  /\ KeepObjects /\ UNCHANGED <<name, created, overtaken>>

\* Nothing of size 0 can be mapped.  The client does not look: its first
\* request uses the address that mmap returns for an error.
Attach(c) ==
  /\ Move(c, "fstat", IF obj[c] \in sized THEN "menu" ELSE "crashing")
  /\ KeepNames /\ KeepObjects

Call(c)   == Move(c, "menu", "sem_wait") /\ KeepNames /\ KeepObjects
Enter(c)  == Wait(c, "sem_wait", "method")
Wake(c)   == Wait(c, "asleep", "method")
Return(c) == Post(c, "method", "menu") /\ UNCHANGED built
Leave(c)  == Move(c, "menu", "exited") /\ KeepNames /\ KeepObjects

\* Any process may be killed; what it did to the object stays.
Die(p) ==
  /\ pc[p] \notin {"start", "exited", "killed"}
  /\ pc' = [pc EXCEPT ![p] = "killed"]
  /\ KeepNames /\ KeepObjects

----------------------------------------------------------------------------
InitStep(p) ==
  \/ Create(p) \/ Exists(p) \/ Ftruncate(p) \/ GiveUp(p) \/ Mmap(p) \/ SemInit(p)
  \/ ConstructWait(p) \/ Construct(p) \/ ReportWait(p) \/ Report(p)

ClientStep(c) ==
  Open(c) \/ Attach(c) \/ Call(c) \/ Enter(c) \/ Wake(c) \/ Return(c) \/ Leave(c)

Next ==
  \/ Destroy
  \/ \E p \in Inits : InitStep(p)
  \/ \E c \in Clients : ClientStep(c)
  \/ \E p \in Procs : Die(p)

Spec == Init /\ [][Next]_vars

----------------------------------------------------------------------------
\* No two living processes are between sem_wait and sem_post of one object, the
\* constructor included, though clients can wait on an object before its
\* semaphore is initialized: only O_EXCL keeps a second ./init from setting the
\* semaphore under a visitor (init.cpp:20, bank.cpp:9-20).
OneVisitor ==
  \A p, q \in Procs :
    pc[p] \in Visiting /\ pc[q] \in Visiting /\ obj[p] = obj[q] => p = q

\* Whoever opens /bank once the constructor has come to its end has it mapped,
\* never waits for a wake-up that was lost, and only sees a bank that is built;
\* an earlier client has none of this (client.cpp:32-45).
LateClientsSafe ==
  \A c \in late : pc[c] \notin {"crashing", "asleep"} /\ obj[c] \in built

\* An ./init that may still give up owns the name, unless ./destroy has
\* overtaken it: otherwise it would remove somebody else's bank
\* (init.cpp:29, 37).
GivesUpOwnBank ==
  \A p \in Inits : pc[p] \in {"ftruncate", "mmap"} /\ ~overtaken => name = obj[p]
=============================================================================
