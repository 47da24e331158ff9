----------------------------- MODULE PrimePipe -----------------------------
(***************************************************************************)
(* IPC-2/main.cpp: a parent reads numbers from its input and writes them   *)
(* to a pipe; its child reads them, finds the prime of that index and      *)
(* answers through a second pipe.  After the fork each process has both    *)
(* ends of both pipes, and closes two of them.  A read sees the end of a   *)
(* pipe once nobody has its write end; a write without a reader raises     *)
(* SIGPIPE.                                                                *)
(***************************************************************************)
EXTENDS Integers, Sequences, FiniteSets

CONSTANTS
  INT_MAX,   \* the greatest int
  Number,    \* the positive numbers that are typed
  Nothing    \* no number, no answer

HalfRange == INT_MAX + 1

IsPrime(p) == p > 1 /\ \A d \in 2 .. p - 1 : p % d # 0
PrimesUpTo(k) == {q \in 2 .. k : IsPrime(q)}

\* The prime of each number that is typed is an int.
ASSUME PrimePipeAssumption ==
  /\ INT_MAX \in Nat \ {0}
  /\ Number \subseteq 1 .. Cardinality(PrimesUpTo(INT_MAX))
  /\ Nothing \notin Number

Wrap(k) == ((k + HalfRange) % (2 * HalfRange)) - HalfRange

\* The inner loop of calculate_prime: a prime that divides num ends it, unless
\* one up to there has a square greater than num.
Passes(primes, num) ==
  \A k \in DOMAIN primes :
    num % primes[k] = 0 => \E j \in 1 .. k : Wrap(primes[j] * primes[j]) > num

\* The vector primes once every number up to num has been looked at.
Primes[num \in 1 .. INT_MAX] ==
  IF num = 1 THEN <<>>
  ELSE LET primes == Primes[num - 1]
       IN IF Passes(primes, num) THEN Append(primes, num) ELSE primes

\* calculate_prime(n): the loop ends as soon as
\* the vector has n elements, and returns the last.
AllPrimes == Primes[INT_MAX]
CalculatePrime(n) == AllPrimes[n]

VARIABLES
  parent,    \* where the parent is
  child,     \* where the child is
  ends,      \* the processes that have each end of the pipes
  request,   \* the numbers that are in pipe1
  answer,    \* the numbers that are in pipe2
  m,         \* the parent's m and the child's, Nothing at first
  result,    \* the child's result
  printed    \* the last answer that was printed

primeVars == <<parent, child, ends, request, answer, m, result, printed>>

Proc == {"parent", "child"}
End == {"pipe1[0]", "pipe1[1]", "pipe2[0]", "pipe2[1]"}
Dead == {"ended", "killed", "SIGPIPE"}

PrimeTypeOK ==
  /\ parent \in {"start", "prompt", "write", "read", "close", "wait", "spinning"} \cup Dead
  /\ child \in {"start", "read", "calculate", "write"} \cup Dead
  /\ ends \in [End -> SUBSET Proc]
  /\ request \in Seq(Number)
  /\ answer \in Seq(1 .. INT_MAX)
  /\ m \in [Proc -> Number \cup {Nothing}]
  /\ result \in 1 .. INT_MAX \cup {Nothing}
  /\ printed \in 1 .. INT_MAX \cup {Nothing}

\* Both pipes are made, and the fork has succeeded.
PrimeInit ==
  /\ parent = "start"
  /\ child = "start"
  /\ ends = [e \in End |-> Proc]
  /\ request = <<>>
  /\ answer = <<>>
  /\ m = [p \in Proc |-> Nothing]
  /\ result = Nothing
  /\ printed = Nothing

ParentTo(from, to) == parent = from /\ parent' = to /\ UNCHANGED child
ChildTo(from, to)  == child = from /\ child' = to /\ UNCHANGED parent
CloseEnds(p, closed) == ends' = [e \in End |-> IF e \in closed THEN ends[e] \ {p} ELSE ends[e]]
Data == <<request, answer, m, result, printed>>

----------------------------------------------------------------------------
\* The parent.

\* Mutant of ParentStart: the parent keeps the write end of the child's pipe.
ParentKeepsEnd ==
  /\ ParentTo("start", "prompt")
  /\ CloseEnds("parent", {"pipe1[0]"})
  /\ UNCHANGED Data

ParentStart ==
  /\ ParentTo("start", "prompt")
  /\ CloseEnds("parent", {"pipe1[0]", "pipe2[1]"})
  /\ UNCHANGED Data

\* Any other line is refused, and the prompt comes again.
Type(k) ==
  /\ ParentTo("prompt", "write")
  /\ m' = [m EXCEPT !["parent"] = k]
  /\ UNCHANGED <<ends, request, answer, result, printed>>

\* At the end of the input every line is empty: the loop prompts for ever.
InputEnds == ParentTo("prompt", "spinning") /\ UNCHANGED <<ends, Data>>

ParentWrite ==
  /\ \/ /\ ends["pipe1[0]"] # {}
        /\ ParentTo("write", "read")
        /\ request' = Append(request, m["parent"])
        /\ UNCHANGED ends
     \/ /\ ends["pipe1[0]"] = {}
        /\ ParentTo("write", "SIGPIPE")
        /\ CloseEnds("parent", End)
        /\ UNCHANGED request
  /\ UNCHANGED <<answer, m, result, printed>>

\* Mutant of ParentRead: the end of the pipe is taken for an answer.
ParentReadUnchecked ==
  /\ ParentTo("read", "prompt")
  /\ \/ answer # <<>> /\ printed' = Head(answer) /\ answer' = Tail(answer)
     \/ answer = <<>> /\ ends["pipe2[1]"] = {} /\ printed' = 0 /\ UNCHANGED answer
  /\ UNCHANGED <<ends, request, m, result>>

\* read gives an answer, or the end of the pipe: then nothing is printed.
ParentRead ==
  /\ ParentTo("read", "prompt")
  /\ \/ answer # <<>> /\ printed' = Head(answer) /\ answer' = Tail(answer)
     \/ answer = <<>> /\ ends["pipe2[1]"] = {} /\ UNCHANGED <<answer, printed>>
  /\ UNCHANGED <<ends, request, m, result>>

Exit == ParentTo("prompt", "close") /\ UNCHANGED <<ends, Data>>

ParentClose ==
  /\ ParentTo("close", "wait")
  /\ CloseEnds("parent", End)
  /\ UNCHANGED Data

ParentWait ==
  /\ ParentTo("wait", "ended")
  /\ child \in Dead
  /\ UNCHANGED <<ends, Data>>

----------------------------------------------------------------------------
\* The child.

\* Mutant of ChildStart: the child keeps the write end of its own input.
ChildKeepsEnd ==
  /\ ChildTo("start", "read")
  /\ CloseEnds("child", {"pipe2[0]"})
  /\ UNCHANGED Data

ChildStart ==
  /\ ChildTo("start", "read")
  /\ CloseEnds("child", {"pipe1[1]", "pipe2[0]"})
  /\ UNCHANGED Data

ChildRead ==
  /\ ChildTo("read", "calculate")
  /\ request # <<>>
  /\ m' = [m EXCEPT !["child"] = Head(request)]
  /\ request' = Tail(request)
  /\ UNCHANGED <<ends, answer, result, printed>>

ChildReadEnd ==
  /\ ChildTo("read", "ended")
  /\ request = <<>> /\ ends["pipe1[1]"] = {}
  /\ CloseEnds("child", End)
  /\ UNCHANGED Data

Calculate ==
  /\ ChildTo("calculate", "write")
  /\ result' = CalculatePrime(m["child"])
  /\ UNCHANGED <<ends, request, answer, m, printed>>

ChildWrite ==
  /\ \/ /\ ends["pipe2[0]"] # {}
        /\ ChildTo("write", "read")
        /\ answer' = Append(answer, result)
        /\ UNCHANGED ends
     \/ /\ ends["pipe2[0]"] = {}
        /\ ChildTo("write", "SIGPIPE")
        /\ CloseEnds("child", End)
        /\ UNCHANGED answer
  /\ UNCHANGED <<request, m, result, printed>>

----------------------------------------------------------------------------
\* Either process may be killed; the kernel closes its ends.
KillParent ==
  /\ parent \notin Dead /\ parent' = "killed"
  /\ CloseEnds("parent", End)
  /\ UNCHANGED <<child, Data>>

KillChild ==
  /\ child \notin Dead /\ child' = "killed"
  /\ CloseEnds("child", End)
  /\ UNCHANGED <<parent, Data>>

Parent == ParentStart \/ ParentWrite \/ ParentRead \/ ParentClose \/ ParentWait
Child == ChildStart \/ ChildRead \/ ChildReadEnd \/ Calculate \/ ChildWrite

PrimeNext ==
  \/ Parent \/ Child
  \/ (\E k \in Number : Type(k)) \/ InputEnds \/ Exit
  \/ KillParent \/ KillChild

PrimeSpec == PrimeInit /\ [][PrimeNext]_primeVars

\* Both processes run; nobody has to type anything.
PrimeFairSpec == PrimeSpec /\ WF_primeVars(Parent) /\ WF_primeVars(Child)

\* Who has something to do, with a read that would return.
ParentCan ==
  \/ parent \in {"start", "write", "close"}
  \/ parent = "read" /\ (answer # <<>> \/ ends["pipe2[1]"] = {})
  \/ parent = "wait" /\ child \in Dead
ChildCan ==
  \/ child \in {"start", "calculate", "write"}
  \/ child = "read" /\ (request # <<>> \/ ends["pipe1[1]"] = {})

\* Their guards are all that keeps the two processes from their next step.
StepsAreEnabled ==
  /\ ParentCan => ENABLED <<Parent>>_primeVars
  /\ ChildCan => ENABLED <<Child>>_primeVars

----------------------------------------------------------------------------
\* The prime that n primes, itself included, do not exceed.
NthPrime(n) == CHOOSE p \in 2 .. INT_MAX : IsPrime(p) /\ Cardinality(PrimesUpTo(p)) = n
Answer == [n \in Number |-> NthPrime(n)]

\* The answer that is printed is the n-th prime, for the n that was typed last
\* and never for an earlier one, and none is missing while the child lives
\* (main.cpp:10-29, 50-58, 84-90).
Promise == INSTANCE Service WITH
  Client  <- {"parent"},
  Request <- Number,
  asked   <- [p \in {"parent"} |->
                IF parent \in {"write", "read"} THEN m["parent"] ELSE Nothing],
  heard   <- [p \in {"parent"} |-> printed],
  gone    <- {p \in {"parent"} : parent \in Dead \cup {"close", "wait", "spinning"}},
  lost    <- {p \in {"parent"} : child \in Dead}
RefinesService == Promise!Spec

\* A parent that waits for an answer goes on, also when the child is killed:
\* it then sees the end of the pipe (main.cpp:65, 88).
ReadReturns == parent = "read" ~> parent # "read"

\* "exit", and the death of the parent at any place, end both processes
\* (main.cpp:47, 52, 93-95).
ExitEndsBoth ==
  (parent \in Dead \cup {"close"}) ~> (parent \in Dead /\ child \in Dead)
=============================================================================
