------------------------------ MODULE BankShm ------------------------------
(***************************************************************************)
(* The shared-memory bank once ./init has run the constructor: the client  *)
(* processes and the initializer (which still prints its report) call the  *)
(* methods of class Bank on one mapped segment.  A method is a sem_wait,   *)
(* its statements one write to the segment at a time, and a sem_post.  Any *)
(* process may be killed between two of these steps; the kernel does not   *)
(* give a dead process's semaphore back.                                   *)
(***************************************************************************)
EXTENDS Bills, FiniteSets

CONSTANTS
  Clients,       \* the processes running ./client
  Initializer,   \* the process running ./init
  MaxKills,      \* bound: processes killed in one behaviour
  NoRequest      \* what a process that is in no method is executing

Report == [kind |-> "print_info"]

ASSUME BankShmAssumption ==
  /\ Initializer \notin Clients
  /\ MaxKills \in Nat
  /\ NoRequest \notin Requests \cup {Report}

VARIABLES
  bills,      \* Bank::bills, in shared memory
  sem,        \* value of Bank::semaphore, in shared memory
  pc,         \* where each process is
  request,    \* the method each process is executing, with its arguments
  i,          \* loop index of credit_all, debit_all and print_info
  killed,     \* processes that died; their pc stays where they died
  committed   \* history: bills as the last sem_post left them

vars == <<bills, sem, pc, request, i, killed, committed>>

Procs == Clients \cup {Initializer}

InMethod == {"body", "debit", "credit", "sem_post"}
PC == InMethod \cup {"menu", "sem_wait", "exited"}

TypeOK ==
  /\ bills \in [Account -> Bill]
  /\ committed \in [Account -> Bill]
  /\ sem \in {0, 1}
  /\ pc \in [Procs -> PC]
  /\ request \in [Procs -> Requests \cup {Report, NoRequest}]
  /\ i \in [Procs -> 0 .. N]
  /\ killed \subseteq Procs

Critical(p) == pc[p] \in InMethod

Init ==
  /\ bills = [a \in Account |-> NewBill]
  /\ committed = bills
  /\ sem = 1
  /\ pc = [p \in Procs |-> IF p = Initializer THEN "sem_wait" ELSE "menu"]
  /\ request = [p \in Procs |-> IF p = Initializer THEN Report ELSE NoRequest]
  /\ i = [p \in Procs |-> 0]
  /\ killed = {}

----------------------------------------------------------------------------
At(p, label) == p \notin killed /\ pc[p] = label
Goto(p, label) == pc' = [pc EXCEPT ![p] = label]

\* A step of p's method that leaves p inside it.
Within(p, label) == Goto(p, label) /\ UNCHANGED <<sem, request, killed, committed>>

\* A client types a request.  One that is refused before sem_wait changes
\* nothing and leaves the client at its menu.
Call(p, r) ==
  /\ p \in Clients
  /\ At(p, "menu")
  /\ ~RefusedUnlocked(r)
  /\ request' = [request EXCEPT ![p] = r]
  /\ Goto(p, "sem_wait")
  /\ UNCHANGED <<bills, sem, i, killed, committed>>

SemWait(p) ==
  /\ At(p, "sem_wait")
  /\ sem > 0
  /\ sem' = sem - 1
  /\ Goto(p, "body")
  /\ UNCHANGED <<bills, request, i, killed, committed>>

\* print_info writes the bills to the terminal one by one.
PrintNext(p) ==
  /\ At(p, "body")
  /\ request[p] = Report
  /\ i[p] < N
  /\ i' = [i EXCEPT ![p] = @ + 1]
  /\ Within(p, "body")
  /\ UNCHANGED bills

\* The show methods: an invalid number or the value asked for is printed.
Show(p) ==
  /\ At(p, "body")
  /\ request[p].kind \in ShowKinds
  /\ Within(p, "sem_post")
  /\ UNCHANGED <<bills, i>>

SetFrozen(p) == LET r == request[p] IN
  /\ At(p, "body")
  /\ r.kind \in FreezeKinds
  /\ IF r.account \in Account
     THEN bills' = [bills EXCEPT ![r.account] = WithFrozen(@, r)]
     ELSE UNCHANGED bills
  /\ Within(p, "sem_post")
  /\ UNCHANGED i

SetLimit(p) == LET r == request[p] IN
  /\ At(p, "body")
  /\ r.kind \in LimitKinds
  /\ IF r.account \in Account /\ LimitAccepted(bills[r.account], r)
     THEN bills' = [bills EXCEPT ![r.account] = WithLimit(@, r)]
     ELSE UNCHANGED bills
  /\ Within(p, "sem_post")
  /\ UNCHANGED i

\* Mutants of TransferCheck: the destination is not tested; a failed test
\* leaves the method without posting the semaphore.
TransferCheckSourceOnly(p) == LET r == request[p] IN
  /\ At(p, "body")
  /\ r.kind = "transfer"
  /\ Within(p, IF /\ {r.from, r.to} \subseteq Account
                  /\ ~bills[r.from].frozen
                  /\ Covers(bills[r.from], r.amount)
               THEN "debit" ELSE "sem_post")
  /\ UNCHANGED <<bills, i>>

TransferCheckUncaught(p) ==
  /\ At(p, "body")
  /\ request[p].kind = "transfer"
  /\ Within(p, IF TransferAllowed(bills, request[p]) THEN "debit" ELSE "menu")
  /\ UNCHANGED <<bills, i>>

\* A test that fails throws; the handler posts the semaphore and rethrows to
\* the client, which prints the message and returns to its menu.
TransferCheck(p) ==
  /\ At(p, "body")
  /\ request[p].kind = "transfer"
  /\ Within(p, IF TransferAllowed(bills, request[p]) THEN "debit" ELSE "sem_post")
  /\ UNCHANGED <<bills, i>>

\* Mutant of TransferDebit: the sign of the first assignment is wrong.
TransferDebitWrongSign(p) == LET r == request[p] IN
  /\ At(p, "debit")
  /\ bills' = [bills EXCEPT ![r.from] = Deposit(@, r.amount)]
  /\ Within(p, "credit")
  /\ UNCHANGED i

TransferDebit(p) == LET r == request[p] IN
  /\ At(p, "debit")
  /\ bills' = [bills EXCEPT ![r.from] = Withdraw(@, r.amount)]
  /\ Within(p, "credit")
  /\ UNCHANGED i

TransferCredit(p) == LET r == request[p] IN
  /\ At(p, "credit")
  /\ bills' = [bills EXCEPT ![r.to] = Deposit(@, r.amount)]
  /\ Within(p, "sem_post")
  /\ UNCHANGED i

\* One iteration of the loop of credit_all or debit_all.
SweepNext(p) == LET r == request[p] IN
  /\ At(p, "body")
  /\ r.kind \in SweepKinds
  /\ i[p] < N
  /\ bills' = [bills EXCEPT ![i[p]] = Swept(@, r)]
  /\ i' = [i EXCEPT ![p] = @ + 1]
  /\ Within(p, "body")

LoopEnd(p) ==
  /\ At(p, "body")
  /\ request[p].kind \in SweepKinds \cup {"print_info"}
  /\ i[p] = N
  /\ Within(p, "sem_post")
  /\ UNCHANGED <<bills, i>>

\* The method returns; main of ./init has nothing left to do.
SemPost(p) ==
  /\ At(p, "sem_post")
  /\ sem' = sem + 1
  /\ committed' = bills
  /\ Goto(p, IF p = Initializer THEN "exited" ELSE "menu")
  /\ request' = [request EXCEPT ![p] = NoRequest]
  /\ i' = [i EXCEPT ![p] = 0]
  /\ UNCHANGED <<bills, killed>>

Exit(p) ==
  /\ p \in Clients
  /\ At(p, "menu")
  /\ Goto(p, "exited")
  /\ UNCHANGED <<bills, sem, request, i, killed, committed>>

\* Mutant of Kill: the kernel posts the semaphore of a process that dies.
KillUndoes(p) ==
  /\ p \notin killed
  /\ pc[p] # "exited"
  /\ Cardinality(killed) < MaxKills
  /\ killed' = killed \cup {p}
  /\ sem' = IF Critical(p) THEN 1 ELSE sem
  /\ UNCHANGED <<bills, pc, request, i, committed>>

\* The environment: a signal ends p wherever it is.
Kill(p) ==
  /\ p \notin killed
  /\ pc[p] # "exited"
  /\ Cardinality(killed) < MaxKills
  /\ killed' = killed \cup {p}
  /\ UNCHANGED <<bills, sem, pc, request, i, committed>>

Step(p) ==
  \/ SemWait(p)
  \/ PrintNext(p)
  \/ Show(p)
  \/ SetFrozen(p)
  \/ SetLimit(p)
  \/ TransferCheck(p)
  \/ TransferDebit(p)
  \/ TransferCredit(p)
  \/ SweepNext(p)
  \/ LoopEnd(p)
  \/ SemPost(p)

Next ==
  \/ \E p \in Procs : Step(p) \/ Exit(p) \/ Kill(p)
  \/ \E p \in Clients, r \in Requests : Call(p, r)

Spec == Init /\ [][Next]_vars

\* A process inside a method keeps running; nobody has to type a request.
FairSpec == Spec /\ \A p \in Procs : WF_vars(Step(p))

----------------------------------------------------------------------------
\* The semaphore is worth one minus the number of processes inside a method,
\* the dead included: nobody enters twice, no path returns without sem_post,
\* and no path posts what it did not take (bank.cpp, every method).
SemaphoreCountsHolder ==
  /\ \A p, q \in Procs : Critical(p) /\ Critical(q) => p = q
  /\ sem = 1 <=> \A p \in Procs : ~Critical(p)

\* Every method is atomic, even one that writes several bills and one whose
\* process dies between two writes: whoever gets the semaphore finds either
\* all of a request or none of it.
Atomic == INSTANCE Bank WITH bills <- committed
RefinesBank == Atomic!Spec

InLimits(bill) ==
  bill.min_balance <= bill.balance /\ bill.balance <= bill.max_balance

\* p is executing a request whose amount takes a balance past an end of int.
Overflows(p, bill) ==
  /\ Critical(p)
  /\ request[p].kind \in SweepKinds \cup {"transfer"}
  /\ {bill.balance + request[p].amount, bill.balance - request[p].amount}
       \ Int32 # {}

\* An account inside its limits leaves them only through an addition or a
\* subtraction that wraps: no order of transfers, sweeps, freezes and changes
\* of the limits does it (the tests of bank.cpp:67, 70, 140, 161, 181, 201).
LimitsBreakOnlyByOverflow ==
  [][\A a \in Account :
       InLimits(bills[a]) /\ ~InLimits(bills'[a])
         => \E p \in Procs : Overflows(p, bills[a])]_vars

\* A process that dies inside a method takes the semaphore with it: from then
\* on no bill changes and nobody enters (sem_wait of bank.cpp has no timeout).
DeadHolderFreezesBank ==
  [][(\E p \in killed : Critical(p)) => UNCHANGED <<bills, sem, committed>>]_vars

\* The semaphore comes back from every method that returns, refused requests
\* and skipped accounts included (the catch of bank.cpp:78, the continue of
\* bank.cpp:142 and 163).
SemaphoreReleased ==
  sem = 0 ~> (sem = 1 \/ \E p \in killed : Critical(p))

\* The sum of all balances of b.
Total(b) ==
  LET sum[n \in 0 .. N] == IF n = 0 THEN 0 ELSE sum[n - 1] + b[n - 1].balance
  IN sum[N]

\* What the transfer that is half way, if one is, has taken from one bill and not
\* yet given to the other, by where the processes are and what they execute.
InFlight(place, method) ==
  IF \E p \in Procs : place[p] = "credit"
  THEN method[CHOOSE p \in Procs : place[p] = "credit"].amount ELSE 0

Money == (Total(bills) + InFlight(pc, request)) % Modulus

\* Transfers conserve money modulo the width of an int, also when the process
\* dies half way; only credit_all and debit_all create or destroy it
\* (bank.cpp:74-75).
MoneyOnlyBySweeps ==
  [][Money' # Money => \E p \in Procs : SweepNext(p)]_vars
=============================================================================
