---------------------------- MODULE ParallelSum -----------------------------
(***************************************************************************)
(* TH-1/main.cpp: main cuts a vector of n numbers into m blocks, starts a  *)
(* thread that sums each block, joins the threads and adds their sums.     *)
(*                                                                         *)
(* A sum is the set of the positions it has added: two sums are the same   *)
(* number for every vector when they have added the same positions, each   *)
(* once.                                                                   *)
(***************************************************************************)
EXTENDS Integers, FiniteSets

CONSTANTS
  Sizes,         \* the values of n; the program wants them above 1,000,000
  Counts,        \* the values of m
  MaxFailures    \* bound: calls of pthread_create that fail

ASSUME ParallelSumAssumption ==
  /\ Sizes \subseteq Nat \ {0}
  /\ Counts \subseteq Nat \ {0}
  /\ MaxFailures \in Nat

VARIABLES
  n,          \* the size of arr
  m,          \* the number of threads
  thread,     \* what has become of each thread
  data,       \* thread_data: the first position of each block and the one after its last
  partial,    \* partial_sums: the positions each thread has added
  adder,      \* where main, which adds the sums, is
  i,          \* main's loop index
  multi_sum   \* for each position, the threads through whose sums main added it

sumVars == <<n, m, thread, data, partial, adder, i, multi_sum>>

Thread == 0 .. m-1
Position == 0 .. n-1

SumTypeOK ==
  /\ n \in Sizes
  /\ m \in Counts
  /\ thread \in [Thread -> {"none", "running", "ended", "failed"}]
  /\ data \in [Thread -> [start : 0 .. n, end : 0 .. n]]
  /\ partial \in [Thread -> SUBSET Position]
  /\ adder \in {"create", "join", "sum", "done", "crashed"}
  /\ i \in Thread
  /\ multi_sum \in [Position -> SUBSET Thread]

SumInit ==
  /\ n \in Sizes
  /\ m \in Counts
  /\ thread = [t \in Thread |-> "none"]
  /\ data = [t \in Thread |-> [start |-> 0, end |-> 0]]
  /\ partial = [t \in Thread |-> {}]
  /\ adder = "create"
  /\ i = 0
  /\ multi_sum = [x \in Position |-> {}]

\* Mutant of Block: the remainder of n / m is dropped.
BlockNoRemainder(t) == [start |-> t * (n \div m), end |-> t * (n \div m) + n \div m]
\* The last block takes the remainder.
Block(t) == [start |-> t * (n \div m),
             end |-> IF t = m-1 THEN n ELSE t * (n \div m) + n \div m]

Positions(block) == block.start .. block.end - 1

----------------------------------------------------------------------------
Loop(next) == IF i + 1 < m THEN i' = i + 1 /\ UNCHANGED adder
                           ELSE i' = 0 /\ adder' = next

\* main does not look at the result of pthread_create.
Create ==
  /\ adder = "create"
  /\ data' = [data EXCEPT ![i] = Block(i)]
  /\ \/ thread' = [thread EXCEPT ![i] = "running"]
     \/ /\ Cardinality({t \in Thread : thread[t] = "failed"}) < MaxFailures
        /\ thread' = [thread EXCEPT ![i] = "failed"]
  /\ Loop("join")
  /\ UNCHANGED <<n, m, partial, multi_sum>>

\* A thread reads its block and writes its sum once, at the end. MySum stops
\* where it meets the end: it never does in a block that starts after its end.
SectionSum(t) ==
  /\ adder # "crashed"
  /\ thread[t] = "running"
  /\ data[t].start <= data[t].end
  /\ partial' = [partial EXCEPT ![t] = Positions(data[t])]
  /\ thread' = [thread EXCEPT ![t] = "ended"]
  /\ UNCHANGED <<n, m, data, adder, i, multi_sum>>

\* pthread_join of a thread that was not created is undefined: it crashes, or
\* returns an error that nobody looks at.
JoinParts ==
  /\ adder = "join"
  /\ \/ thread[i] \in {"ended", "failed"} /\ Loop("sum")
     \/ thread[i] = "failed" /\ adder' = "crashed" /\ UNCHANGED i
  /\ UNCHANGED <<n, m, thread, data, partial, multi_sum>>

Sum ==
  /\ adder = "sum"
  /\ multi_sum' = [x \in Position |-> {t \in Thread : x \in partial[t]}]
  /\ adder' = "done"
  /\ UNCHANGED <<n, m, thread, data, partial, i>>

----------------------------------------------------------------------------
SumMain == Create \/ JoinParts \/ Sum

SumNext == SumMain \/ \E t \in Thread : SectionSum(t)

SumSpec == SumInit /\ [][SumNext]_sumVars

----------------------------------------------------------------------------
\* The blocks follow one another without a gap or an overlap from the first
\* position to the last, whatever n is modulo m, and also when there are more
\* threads than positions (main.cpp:75-81).
BlocksAdjoin ==
  \A t \in Thread : thread[t] # "none" =>
    /\ data[t].start = IF t = 0 THEN 0 ELSE data[t-1].end
    /\ data[t].start <= data[t].end
    /\ t = m-1 => data[t].end = n

\* The sum of the parts is the sum of the whole: each position is added through
\* the sum of exactly one thread, or, where a thread could not be created, not
\* at all (main.cpp:83, 90).
EachPositionOnce ==
  adder = "done" =>
    \A x \in Position : \E t \in Thread :
      /\ x \in Positions(data[t])
      /\ multi_sum[x] = IF thread[t] = "failed" THEN {} ELSE {t}

\* No thread writes a partial sum that main may already have added
\* (main.cpp:86-90).
JoinedBeforeSum ==
  adder \in {"sum", "done"} => \A t \in Thread : thread[t] \in {"ended", "failed"}
=============================================================================
