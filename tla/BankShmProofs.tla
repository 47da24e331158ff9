--------------------------- MODULE BankShmProofs ---------------------------
(***************************************************************************)
(* Theorems about BankShm, for any number of accounts and clients, any     *)
(* width of int and any set of requests.                                   *)
(*                                                                         *)
(* The inductive invariant says who holds the semaphore and, for the       *)
(* process that does, how far its method has taken the bills away from     *)
(* what the last sem_post committed.                                       *)
(***************************************************************************)
EXTENDS BankShm, WellFoundedInduction, TLAPS

\* The method p is executing passed the tests made before sem_wait.
RequestInv == \A p \in Procs :
  /\ pc[p] \in InMethod \cup {"sem_wait"} =>
       request[p] = Report \/ (request[p] \in Requests /\ ~RefusedUnlocked(request[p]))
  /\ pc[p] \notin InMethod => i[p] = 0
  /\ pc[p] \in {"debit", "credit"} =>
       /\ request[p].kind = "transfer"
       /\ TransferAllowed(committed, request[p])

\* What the whole of request r makes of the bills.
Outcome(r) ==
  \/ /\ r.kind = "transfer"
     /\ TransferAllowed(committed, r)
     /\ bills = [committed EXCEPT ![r.from] = Withdraw(@, r.amount),
                                  ![r.to]   = Deposit(@, r.amount)]
  \/ /\ r.kind \in SweepKinds
     /\ bills = [a \in Account |-> Swept(committed[a], r)]
  \/ /\ r.kind \in FreezeKinds
     /\ r.account \in Account
     /\ bills = [committed EXCEPT ![r.account] = WithFrozen(@, r)]
  \/ /\ r.kind \in LimitKinds
     /\ r.account \in Account
     /\ LimitAccepted(committed[r.account], r)
     /\ bills = [committed EXCEPT ![r.account] = WithLimit(@, r)]

\* How far the holder p has taken the bills from the committed ones.
Progress(p) ==
  /\ pc[p] = "body" /\ request[p].kind \notin SweepKinds => bills = committed
  /\ pc[p] = "body" /\ request[p].kind \in SweepKinds =>
       bills = [a \in Account |-> IF a < i[p] THEN Swept(committed[a], request[p])
                                              ELSE committed[a]]
  /\ pc[p] = "debit" => bills = committed
  /\ pc[p] = "credit" =>
       bills = [committed EXCEPT ![request[p].from] = Withdraw(@, request[p].amount)]
  /\ pc[p] = "sem_post" =>
       \/ bills = committed
       \/ request[p] \in Requests /\ Outcome(request[p])

BillsInv ==
  /\ sem = 1 => bills = committed
  /\ \A p \in Procs : Progress(p)

IInv == TypeOK /\ SemaphoreCountsHolder /\ RequestInv /\ BillsInv

----------------------------------------------------------------------------
\* The kind of a request determines its fields.
LEMMA RequestFields ==
  ASSUME NEW r \in Requests
  PROVE  /\ r.kind = "transfer" => r.from \in Int32 /\ r.to \in Int32 /\ r.amount \in Int32
         /\ r.kind \in SweepKinds => r.amount \in Int32
         /\ r.kind \in FreezeKinds => r.account \in Int32
         /\ r.kind \in LimitKinds => r.account \in Int32 /\ r.limit \in Int32
         /\ r.kind # "print_info"
  BY BillsAssumption
     DEF Request, TransferRequest, SweepRequest, AccountRequest, LimitRequest,
         ShowKinds, FreezeKinds, LimitKinds, SweepKinds

\* One addition or subtraction of two ints wraps back into an int.
LEMMA WrapType ==
  ASSUME NEW x \in Int32, NEW y \in Int32
  PROVE  Wrap(x + y) \in Int32 /\ Wrap(x - y) \in Int32
  BY BillsAssumption DEF Wrap, Int32, INT_MIN, Modulus

\* Every operation on one Bill gives a Bill.
LEMMA BillType ==
  ASSUME NEW bill \in Bill
  PROVE  /\ \A amount \in Int32 : Deposit(bill, amount) \in Bill
                               /\ Withdraw(bill, amount) \in Bill
         /\ \A r \in Requests : r.kind \in SweepKinds => Swept(bill, r) \in Bill
         /\ \A r \in Requests : r.kind \in LimitKinds => WithLimit(bill, r) \in Bill
         /\ \A r \in Requests : WithFrozen(bill, r) \in Bill
<1>1. \A amount \in Int32 : Deposit(bill, amount) \in Bill /\ Withdraw(bill, amount) \in Bill
  BY WrapType DEF Deposit, Withdraw, Bill
<1>2. \A r \in Requests : r.kind \in SweepKinds => Swept(bill, r) \in Bill
  BY <1>1, RequestFields DEF Swept
<1>3. \A r \in Requests : r.kind \in LimitKinds => WithLimit(bill, r) \in Bill
  BY RequestFields DEF WithLimit, Bill
<1>4. \A r \in Requests : WithFrozen(bill, r) \in Bill
  BY DEF WithFrozen, Bill
<1> QED
  BY <1>1, <1>2, <1>3, <1>4

\* The constructor's Bill is a Bill.
LEMMA NewBillType == NewBill \in Bill
  BY BillsAssumption DEF NewBill, Bill, Int32, INT_MIN

----------------------------------------------------------------------------
LEMMA InitIInv == Init => IInv
<1> SUFFICES ASSUME Init PROVE IInv
  OBVIOUS
<1>1. TypeOK
  BY NewBillType, BillsAssumption DEF Init, TypeOK, PC, InMethod, Procs
<1>2. SemaphoreCountsHolder
  BY BankShmAssumption DEF Init, SemaphoreCountsHolder, Critical, InMethod, Procs
<1>3. RequestInv
  BY DEF Init, RequestInv, InMethod
<1>4. BillsInv
  BY DEF Init, BillsInv, Progress, SweepKinds, Report
<1> QED
  BY <1>1, <1>2, <1>3, <1>4 DEF IInv

\* Type correctness is inductive once a running method has a request.
LEMMA StepType ==
  ASSUME IInv, NEW p \in Procs, Step(p) \/ Exit(p) \/ Kill(p) \/ \E r \in Requests : Call(p, r)
  PROVE  TypeOK'
<1> USE DEF IInv, TypeOK, PC, InMethod, Within, Goto, At
<1>1. ASSUME NEW r \in Requests, Call(p, r) PROVE TypeOK'
  BY <1>1 DEF Call
<1>2. CASE SemWait(p)
  BY <1>2 DEF SemWait
<1>3. CASE PrintNext(p)
  BY <1>3, BillsAssumption DEF PrintNext
<1>4. CASE Show(p)
  BY <1>4 DEF Show
<1>5. CASE SetFrozen(p)
  <2>1. request[p] \in Requests
    BY <1>5 DEF SetFrozen, RequestInv, Report, FreezeKinds
  <2> QED
    BY <1>5, <2>1, BillType DEF SetFrozen
<1>6. CASE SetLimit(p)
  <2>1. request[p] \in Requests
    BY <1>6 DEF SetLimit, RequestInv, Report, LimitKinds
  <2> QED
    BY <1>6, <2>1, BillType DEF SetLimit
<1>7. CASE TransferCheck(p)
  BY <1>7 DEF TransferCheck
<1>8. CASE TransferDebit(p)
  <2>1. request[p] \in Requests /\ request[p].amount \in Int32
    BY <1>8, RequestFields DEF TransferDebit, RequestInv, Report
  <2> QED
    BY <1>8, <2>1, BillType DEF TransferDebit
<1>9. CASE TransferCredit(p)
  <2>1. request[p] \in Requests /\ request[p].amount \in Int32
    BY <1>9, RequestFields DEF TransferCredit, RequestInv, Report
  <2> QED
    BY <1>9, <2>1, BillType DEF TransferCredit
<1>10. CASE SweepNext(p)
  <2>1. request[p] \in Requests
    BY <1>10 DEF SweepNext, RequestInv, Report, SweepKinds
  <2>2. bills' \in [Account -> Bill]
    BY <1>10, <2>1, BillType DEF SweepNext
  <2> QED
    BY <1>10, <2>2, BillsAssumption DEF SweepNext
<1>11. CASE LoopEnd(p)
  BY <1>11 DEF LoopEnd
<1>12. CASE SemPost(p)
  <2>1. sem' \in {0, 1}
    BY <1>12 DEF SemPost, SemaphoreCountsHolder, Critical
  <2> QED
    BY <1>12, <2>1, BillsAssumption DEF SemPost
<1>13. CASE Exit(p)
  BY <1>13 DEF Exit
<1>14. CASE Kill(p)
  BY <1>14 DEF Kill
<1> QED
  BY <1>1, <1>2, <1>3, <1>4, <1>5, <1>6, <1>7, <1>8, <1>9, <1>10, <1>11, <1>12,
     <1>13, <1>14 DEF Step

\* The semaphore and the set of processes inside a method change together.
LEMMA StepSemaphore ==
  ASSUME IInv, NEW p \in Procs, Step(p) \/ Exit(p) \/ Kill(p) \/ \E r \in Requests : Call(p, r)
  PROVE  SemaphoreCountsHolder'
<1> USE DEF IInv, TypeOK, SemaphoreCountsHolder, Critical, InMethod, Within, Goto, At
<1>1. CASE SemWait(p)
  BY <1>1 DEF SemWait
<1>2. CASE SemPost(p)
  BY <1>2 DEF SemPost
<1>3. CASE Exit(p) \/ Kill(p) \/ \E r \in Requests : Call(p, r)
  BY <1>3 DEF Exit, Kill, Call
<1>4. CASE PrintNext(p) \/ Show(p) \/ SetFrozen(p) \/ SetLimit(p) \/ TransferCheck(p)
  BY <1>4 DEF PrintNext, Show, SetFrozen, SetLimit, TransferCheck
<1>5. CASE TransferDebit(p) \/ TransferCredit(p) \/ SweepNext(p) \/ LoopEnd(p)
  BY <1>5 DEF TransferDebit, TransferCredit, SweepNext, LoopEnd
<1> QED
  BY <1>1, <1>2, <1>3, <1>4, <1>5 DEF Step

\* A request is refused or checked before anything is done for it.
LEMMA StepRequest ==
  ASSUME IInv, NEW p \in Procs, Step(p) \/ Exit(p) \/ Kill(p) \/ \E r \in Requests : Call(p, r)
  PROVE  RequestInv'
<1> USE DEF IInv, TypeOK, RequestInv, InMethod, Within, Goto, At
<1>1. ASSUME NEW r \in Requests, Call(p, r) PROVE RequestInv'
  BY <1>1 DEF Call
<1>2. CASE SemPost(p)
  <2>1. \A q \in Procs : q # p => pc'[q] = pc[q] /\ request'[q] = request[q] /\ i'[q] = i[q]
    BY <1>2 DEF SemPost
  <2>2. pc'[p] \in {"exited", "menu"} /\ i'[p] = 0
    BY <1>2 DEF SemPost
  <2>3. \A q \in Procs : q # p => pc[q] \notin InMethod
    BY <1>2 DEF SemPost, SemaphoreCountsHolder, Critical
  <2> QED
    BY <2>1, <2>2, <2>3
<1>3. CASE SemWait(p) \/ Exit(p) \/ Kill(p)
  BY <1>3 DEF SemWait, Exit, Kill
<1>4. CASE PrintNext(p) \/ Show(p) \/ LoopEnd(p) \/ SweepNext(p)
  BY <1>4 DEF PrintNext, Show, LoopEnd, SweepNext
<1>5. CASE SetFrozen(p) \/ SetLimit(p) \/ TransferDebit(p) \/ TransferCredit(p)
  BY <1>5 DEF SetFrozen, SetLimit, TransferDebit, TransferCredit
<1>6. CASE TransferCheck(p)
  <2>1. TransferAllowed(bills, request[p]) => TransferAllowed(committed, request[p])
    BY <1>6 DEF TransferCheck, BillsInv, Progress, SweepKinds
  <2> QED
    BY <1>6, <2>1 DEF TransferCheck
<1> QED
  BY <1>1, <1>2, <1>3, <1>4, <1>5, <1>6 DEF Step

\* Only the holder's progress changes, and as its method prescribes.
LEMMA StepBills ==
  ASSUME IInv, NEW p \in Procs, Step(p) \/ Exit(p) \/ Kill(p) \/ \E r \in Requests : Call(p, r)
  PROVE  BillsInv'
<1> USE DEF IInv, TypeOK, BillsInv, InMethod, Within, Goto, At
<1>a. \A q \in Procs : pc'[q] \notin InMethod => Progress(q)'
  BY DEF Progress
<1>1. CASE Kill(p)
  BY <1>1 DEF Kill, Progress, Outcome
<1>2. CASE Exit(p) \/ \E r \in Requests : Call(p, r)
  <2>1. UNCHANGED <<bills, sem, committed, i>> /\ pc'[p] \notin InMethod
    BY <1>2 DEF Exit, Call
  <2>2. \A q \in Procs : q # p => pc'[q] = pc[q] /\ request'[q] = request[q]
    BY <1>2 DEF Exit, Call
  <2> QED
    BY <1>a, <2>1, <2>2 DEF Progress, Outcome
<1>3. CASE SemWait(p)
  <2>1. sem = 1 /\ sem' = 0 /\ UNCHANGED <<bills, request, i, committed>>
    BY <1>3 DEF SemWait
  <2>2. \A q \in Procs : pc[q] \notin InMethod
    BY <2>1 DEF SemaphoreCountsHolder, Critical
  <2>3. \A q \in Procs : q # p => pc'[q] \notin InMethod
    BY <1>3, <2>2 DEF SemWait
  <2>4. bills = committed /\ i[p] = 0 /\ pc'[p] = "body"
    BY <1>3, <2>1, <2>2 DEF SemWait, RequestInv
  <2>5. Progress(p)'
    BY <2>1, <2>4 DEF Progress, Account
  <2> QED
    BY <1>a, <2>1, <2>3, <2>5
<1>4. CASE SemPost(p)
  <2>1. \A q \in Procs : q # p => pc[q] \notin InMethod
    BY <1>4 DEF SemPost, SemaphoreCountsHolder, Critical
  <2>2. \A q \in Procs : pc'[q] \notin InMethod
    BY <1>4, <2>1 DEF SemPost
  <2> QED
    BY <1>4, <1>a, <2>2 DEF SemPost
<1> DEFINE Inside == pc[p] \in InMethod /\ sem' = 0 /\ UNCHANGED <<request, committed>>
<1>b. ASSUME Inside, pc' = [pc EXCEPT ![p] = pc'[p]], Progress(p)' PROVE BillsInv'
  <2>1. \A q \in Procs : q # p => pc'[q] \notin InMethod
    BY <1>b DEF SemaphoreCountsHolder, Critical
  <2> QED
    BY <1>a, <1>b, <2>1
<1>c. pc[p] \in InMethod => sem = 0
  BY DEF SemaphoreCountsHolder, Critical
<1>5. CASE PrintNext(p)
  BY <1>5, <1>b, <1>c DEF PrintNext, Progress, Report, SweepKinds
<1>6. CASE Show(p)
  BY <1>6, <1>b, <1>c DEF Show, Progress, ShowKinds, SweepKinds
<1>7. CASE SetFrozen(p)
  <2>1. request[p] \in Requests /\ bills = committed
    BY <1>7 DEF SetFrozen, RequestInv, Report, FreezeKinds, SweepKinds, Progress
  <2>2. bills' = committed \/ Outcome(request[p])'
    BY <1>7, <2>1 DEF SetFrozen, Outcome
  <2> QED
    BY <1>7, <1>b, <1>c, <2>1, <2>2 DEF SetFrozen, Progress
<1>8. CASE SetLimit(p)
  <2>1. request[p] \in Requests /\ bills = committed
    BY <1>8 DEF SetLimit, RequestInv, Report, LimitKinds, SweepKinds, Progress
  <2>2. bills' = committed \/ Outcome(request[p])'
    BY <1>8, <2>1 DEF SetLimit, Outcome
  <2> QED
    BY <1>8, <1>b, <1>c, <2>1, <2>2 DEF SetLimit, Progress
<1>9. CASE TransferCheck(p)
  BY <1>9, <1>b, <1>c DEF TransferCheck, Progress, SweepKinds
<1>10. CASE TransferDebit(p)
  BY <1>10, <1>b, <1>c DEF TransferDebit, Progress
<1>11. CASE TransferCredit(p)
  <2>1. request[p] \in Requests /\ ~RefusedUnlocked(request[p])
        /\ request[p].kind = "transfer" /\ TransferAllowed(committed, request[p])
    BY <1>11 DEF TransferCredit, RequestInv, Report
  <2>2. request[p].from # request[p].to /\ request[p].from \in Account /\ request[p].to \in Account
    BY <2>1 DEF RefusedUnlocked, TransferAllowed
  <2>3. bills = [committed EXCEPT ![request[p].from] = Withdraw(@, request[p].amount)]
    BY <1>11 DEF TransferCredit, Progress
  <2>4. Outcome(request[p])'
    BY <1>11, <2>1, <2>2, <2>3 DEF TransferCredit, Outcome
  <2> QED
    BY <1>11, <1>b, <1>c, <2>1, <2>4 DEF TransferCredit, Progress
<1>12. CASE SweepNext(p)
  <2>1. bills = [a \in Account |-> IF a < i[p] THEN Swept(committed[a], request[p])
                                              ELSE committed[a]]
    BY <1>12 DEF SweepNext, Progress
  <2>2. i[p] \in Account /\ i'[p] = i[p] + 1
    BY <1>12, BillsAssumption DEF SweepNext, Account
  <2>3. bills' = [a \in Account |-> IF a < i'[p] THEN Swept(committed[a], request[p])
                                                ELSE committed[a]]
    <3>1. bills' = [bills EXCEPT ![i[p]] = Swept(committed[i[p]], request[p])]
      <4>1. ~(i[p] < i[p])
        BY <2>2 DEF Account
      <4>2. bills[i[p]] = committed[i[p]]
        BY <2>1, <2>2, <4>1
      <4> QED
        BY <1>12, <4>2 DEF SweepNext
    <3>2. \A a \in Account : a < i'[p] <=> a < i[p] \/ a = i[p]
      BY <2>2 DEF Account
    <3>3. \A a \in Account : bills'[a] = IF a < i'[p] THEN Swept(committed[a], request[p])
                                                      ELSE committed[a]
      BY <2>1, <2>2, <3>1, <3>2
    <3> QED
      BY <3>1, <3>3
  <2> QED
    BY <1>12, <1>b, <1>c, <2>3 DEF SweepNext, Progress
<1>13. CASE LoopEnd(p)
  <2>1. CASE request[p].kind \in SweepKinds
    <3>1. request[p] \in Requests
      BY <1>13, <2>1 DEF LoopEnd, RequestInv, Report, SweepKinds
    <3>2. bills = [a \in Account |-> Swept(committed[a], request[p])]
      BY <1>13, <2>1, BillsAssumption DEF LoopEnd, Progress, Account
    <3>3. Outcome(request[p])'
      BY <1>13, <2>1, <3>2 DEF LoopEnd, Outcome
    <3> QED
      BY <1>13, <1>b, <1>c, <3>1, <3>3 DEF LoopEnd, Progress
  <2>2. CASE request[p].kind \notin SweepKinds
    BY <1>13, <1>b, <1>c, <2>2 DEF LoopEnd, Progress
  <2> QED
    BY <2>1, <2>2
<1> QED
  BY <1>1, <1>2, <1>3, <1>4, <1>5, <1>6, <1>7, <1>8, <1>9, <1>10, <1>11, <1>12,
     <1>13 DEF Step

LEMMA NextCases ==
  ASSUME Next
  PROVE  \E p \in Procs : Step(p) \/ Exit(p) \/ Kill(p) \/ \E r \in Requests : Call(p, r)
  BY DEF Next, Procs

LEMMA Inductive == IInv /\ [Next]_vars => IInv'
<1> SUFFICES ASSUME IInv, [Next]_vars PROVE IInv'
  OBVIOUS
<1>1. CASE UNCHANGED vars
  BY <1>1 DEF vars, IInv, TypeOK, SemaphoreCountsHolder, Critical, RequestInv,
              BillsInv, Progress, Outcome
<1>2. CASE Next
  BY <1>2, NextCases, StepType, StepSemaphore, StepRequest, StepBills DEF IInv
<1> QED
  BY <1>1, <1>2

\* Every behaviour stays inside the inductive invariant.
THEOREM Invariance == Spec => []IInv
  BY InitIInv, Inductive, PTL DEF Spec

\* The variables of BankShm keep their types: every balance and limit stays an
\* int of its width whatever the requests, since the arithmetic of bank.cpp wraps.
THEOREM TypeCorrect == Spec => []TypeOK
  BY Invariance, PTL DEF IInv

\* Mutual exclusion, for any number of clients and wherever processes die:
\* at most one process is between sem_wait and sem_post of bank.cpp, and the
\* semaphore is free exactly when none is.
THEOREM MutualExclusion == Spec => []SemaphoreCountsHolder
  BY Invariance, PTL DEF IInv

----------------------------------------------------------------------------
\* A deposit that fits below the maximum keeps a Bill inside its limits unless
\* the addition wraps; so does a withdrawal that leaves the minimum.
LEMMA DepositLimits ==
  ASSUME NEW bill \in Bill, NEW amount \in Int32, amount > 0, InLimits(bill),
         RoomFor(bill, amount), bill.balance + amount \in Int32
  PROVE  InLimits(Deposit(bill, amount))
  BY BillsAssumption
     DEF Bill, InLimits, RoomFor, Deposit, Wrap, Int32, INT_MIN, Modulus

LEMMA WithdrawLimits ==
  ASSUME NEW bill \in Bill, NEW amount \in Int32, amount > 0, InLimits(bill),
         Covers(bill, amount), bill.balance - amount \in Int32
  PROVE  InLimits(Withdraw(bill, amount))
  BY BillsAssumption
     DEF Bill, InLimits, Covers, Withdraw, Wrap, Int32, INT_MIN, Modulus

LEMMA LimitsStep ==
  ASSUME IInv, NEW p \in Procs, Step(p) \/ Exit(p) \/ Kill(p) \/ \E r \in Requests : Call(p, r),
         NEW a \in Account, InLimits(bills[a]), ~InLimits(bills'[a])
  PROVE  Overflows(p, bills[a])
<1> USE DEF IInv, TypeOK, Within, Goto, At
<1>1. bills[a] \in Bill /\ bills' # bills
  OBVIOUS
<1>a. ASSUME NEW r \in Requests, ~RefusedUnlocked(r), r.kind \in SweepKinds \cup {"transfer"}
      PROVE  r.amount \in Int32 /\ r.amount > 0
  BY <1>a, RequestFields, BillsAssumption DEF RefusedUnlocked, Int32, INT_MIN
<1>b. ASSUME request[p].kind \in SweepKinds \cup {"transfer"}, pc[p] \in InMethod,
             \/ bills[a].balance + request[p].amount \notin Int32
             \/ bills[a].balance - request[p].amount \notin Int32
      PROVE  Overflows(p, bills[a])
  BY <1>b DEF Overflows, Critical
<1>2. CASE SetFrozen(p)
  BY <1>1, <1>2 DEF SetFrozen, WithFrozen, InLimits, Bill
<1>3. CASE SetLimit(p)
  <2>1. LimitAccepted(bills[a], request[p]) /\ bills'[a] = WithLimit(bills[a], request[p])
    BY <1>1, <1>3 DEF SetLimit
  <2>2. request[p] \in Requests /\ request[p].kind \in LimitKinds
    BY <1>3 DEF SetLimit, RequestInv, InMethod, Report, LimitKinds
  <2> QED
    BY <1>1, <2>1, <2>2, RequestFields, BillsAssumption
       DEF LimitAccepted, WithLimit, InLimits, Bill, Int32, INT_MIN
<1>4. CASE TransferDebit(p)
  <2>1. /\ request[p] \in Requests /\ ~RefusedUnlocked(request[p])
        /\ request[p].kind = "transfer" /\ TransferAllowed(bills, request[p])
    BY <1>4 DEF TransferDebit, RequestInv, InMethod, Report, BillsInv, Progress
  <2>2. a = request[p].from /\ bills'[a] = Withdraw(bills[a], request[p].amount)
    BY <1>1, <1>4, <2>1 DEF TransferDebit, TransferAllowed
  <2>3. Covers(bills[a], request[p].amount)
    BY <2>1, <2>2 DEF TransferAllowed
  <2> QED
    BY <1>1, <1>4, <1>a, <1>b, <2>1, <2>2, <2>3, WithdrawLimits DEF TransferDebit, InMethod
<1>5. CASE TransferCredit(p)
  <2>1. /\ request[p] \in Requests /\ ~RefusedUnlocked(request[p])
        /\ request[p].kind = "transfer" /\ TransferAllowed(committed, request[p])
    BY <1>5 DEF TransferCredit, RequestInv, InMethod, Report
  <2>2. a = request[p].to /\ bills'[a] = Deposit(bills[a], request[p].amount)
    BY <1>1, <1>5, <2>1 DEF TransferCredit, TransferAllowed
  <2>3. a # request[p].from /\ bills[a] = committed[a]
    BY <1>5, <2>1, <2>2 DEF TransferCredit, BillsInv, Progress, RefusedUnlocked
  <2>4. RoomFor(bills[a], request[p].amount)
    BY <2>1, <2>2, <2>3 DEF TransferAllowed
  <2> QED
    BY <1>1, <1>5, <1>a, <1>b, <2>1, <2>2, <2>4, DepositLimits DEF TransferCredit, InMethod
<1>6. CASE SweepNext(p)
  <2>1. /\ request[p] \in Requests /\ ~RefusedUnlocked(request[p])
        /\ request[p].kind \in SweepKinds
    BY <1>6 DEF SweepNext, RequestInv, InMethod, Report, SweepKinds
  <2>2. bills'[a] = Swept(bills[a], request[p])
    BY <1>1, <1>6 DEF SweepNext
  <2>3. \/ /\ RoomFor(bills[a], request[p].amount)
           /\ bills'[a] = Deposit(bills[a], request[p].amount)
        \/ /\ Covers(bills[a], request[p].amount)
           /\ bills'[a] = Withdraw(bills[a], request[p].amount)
    BY <2>2 DEF Swept
  <2> QED
    BY <1>1, <1>6, <1>a, <1>b, <2>1, <2>3, DepositLimits, WithdrawLimits DEF SweepNext, InMethod
<1>7. CASE \/ SemWait(p) \/ SemPost(p) \/ PrintNext(p) \/ Show(p) \/ TransferCheck(p)
           \/ LoopEnd(p) \/ Exit(p) \/ Kill(p) \/ \E r \in Requests : Call(p, r)
  BY <1>1, <1>7 DEF SemWait, SemPost, PrintNext, Show, TransferCheck, LoopEnd, Exit, Kill, Call
<1> QED
  BY <1>2, <1>3, <1>4, <1>5, <1>6, <1>7 DEF Step

\* No sequence of requests takes a balance past a limit except by a wrapping
\* addition or subtraction, whatever the width of int.
THEOREM LimitsHold == Spec => LimitsBreakOnlyByOverflow
<1>1. IInv /\ [Next]_vars =>
        [\A a \in Account : InLimits(bills[a]) /\ ~InLimits(bills'[a])
           => \E p \in Procs : Overflows(p, bills[a])]_vars
  BY NextCases, LimitsStep
<1> QED
  BY <1>1, Invariance, PTL DEF Spec, LimitsBreakOnlyByOverflow

----------------------------------------------------------------------------
LEMMA DeadHolderStep ==
  ASSUME IInv, NEW p \in Procs, Step(p) \/ Exit(p) \/ Kill(p) \/ \E r \in Requests : Call(p, r),
         NEW q \in killed, Critical(q)
  PROVE  UNCHANGED <<bills, sem, committed>>
<1> USE DEF IInv, TypeOK, Within, Goto, At, Critical
<1>1. sem = 0 /\ (Critical(p) => p = q)
  BY DEF SemaphoreCountsHolder
<1>2. p \in killed \/ pc[p] \notin InMethod
  BY <1>1
<1>3. CASE SemWait(p)
  BY <1>1, <1>3 DEF SemWait
<1>4. CASE Exit(p) \/ Kill(p) \/ \E r \in Requests : Call(p, r)
  BY <1>4 DEF Exit, Kill, Call
<1>5. CASE Step(p) /\ ~SemWait(p)
  BY <1>2, <1>5 DEF Step, PrintNext, Show, SetFrozen, SetLimit, TransferCheck,
                    TransferDebit, TransferCredit, SweepNext, LoopEnd, SemPost, InMethod
<1> QED
  BY <1>3, <1>4, <1>5

\* A process that dies inside a method of Bank ends all activity on the
\* segment: the half-done request is never undone, completed or seen.
THEOREM DeadHolderFreezes == Spec => DeadHolderFreezesBank
<1>1. IInv /\ [Next]_vars =>
        [(\E p \in killed : Critical(p)) => UNCHANGED <<bills, sem, committed>>]_vars
  BY NextCases, DeadHolderStep
<1> QED
  BY <1>1, Invariance, PTL DEF Spec, DeadHolderFreezesBank

----------------------------------------------------------------------------
\* The safety half of SemaphoreReleased.  Way(p) is a bound on the steps of its
\* method that p has before it: the tests, the writes and sem_post.
Way(p) == CASE pc[p] = "body"     -> 4 + (N - i[p])
            [] pc[p] = "debit"    -> 3
            [] pc[p] = "credit"   -> 2
            [] pc[p] = "sem_post" -> 1
            [] OTHER              -> 0

\* The methods whose body has a step where p is, with the guards that the code has.
BodyCan(p) == LET kind == request[p].kind IN
  \/ kind = "print_info" /\ request[p] = Report /\ i[p] <= N
  \/ kind \in SweepKinds /\ i[p] <= N
  \/ kind \in ShowKinds \cup FreezeKinds \cup LimitKinds \cup {"transfer"}

\* The holder that lives has a step to take.
HolderCan == \A p \in Procs \ killed : pc[p] = "body" => BodyCan(p)

\* Each step of the holder brings it nearer to its sem_post, which ends its way, and
\* no step of another process takes it further from it.
HolderNears == \A p \in Procs :
  Critical(p) => /\ Way(p) \in Nat \ {0}
                 /\ IF Step(p) THEN Way(p)' \in Nat /\ Way(p)' < Way(p)
                               ELSE Way(p)' = Way(p)
                 /\ Way(p)' = 0 => SemPost(p) /\ sem' = 1

LEMMA HolderSteps ==
  ASSUME IInv, NEW p \in Procs, Critical(p), Step(p)
  PROVE  /\ Way(p)' \in Nat
         /\ Way(p)' < Way(p)
         /\ Way(p)' = 0 => SemPost(p) /\ sem' = 1
<1>1. N \in Nat /\ i \in [Procs -> 0 .. N] /\ pc \in [Procs -> PC]
  BY BillsAssumption DEF IInv, TypeOK
<1>2. CASE PrintNext(p) \/ SweepNext(p)
  <2>1. pc[p] = "body" /\ pc'[p] = "body" /\ i'[p] = i[p] + 1 /\ i[p] < N
    BY <1>1, <1>2 DEF PrintNext, SweepNext, At, Within, Goto
  <2>2. Way(p) = 4 + (N - i[p]) /\ Way(p)' = 4 + (N - (i[p] + 1))
    BY <2>1 DEF Way
  <2> QED
    BY <1>1, <2>1, <2>2
<1>3. CASE Show(p) \/ SetFrozen(p) \/ SetLimit(p) \/ TransferCheck(p) \/ LoopEnd(p)
  <2>1. pc[p] = "body" /\ pc'[p] \in {"debit", "sem_post"}
    BY <1>1, <1>3 DEF Show, SetFrozen, SetLimit, TransferCheck, LoopEnd, At, Within, Goto
  <2>2. Way(p) = 4 + (N - i[p]) /\ Way(p)' \in {1, 3}
    BY <2>1 DEF Way
  <2> QED
    BY <1>1, <2>2
<1>4. CASE TransferDebit(p) \/ TransferCredit(p)
  BY <1>1, <1>4 DEF TransferDebit, TransferCredit, At, Within, Goto, Way
<1>5. CASE SemPost(p)
  <2>1. pc[p] = "sem_post" /\ pc'[p] \in {"menu", "exited"} /\ sem' = sem + 1
    BY <1>1, <1>5 DEF SemPost, At, Goto
  <2>2. sem = 0
    BY DEF IInv, TypeOK, SemaphoreCountsHolder
  <2>3. Way(p) = 1 /\ Way(p)' = 0
    BY <2>1 DEF Way
  <2> QED
    BY <1>5, <2>1, <2>2, <2>3
<1>6. ~SemWait(p)
  BY DEF SemWait, At, Critical, InMethod
<1> QED
  BY <1>2, <1>3, <1>4, <1>5, <1>6 DEF Step

LEMMA OthersKeepWay ==
  ASSUME IInv, NEW p \in Procs, NEW q \in Procs, p # q \/ ~Step(p),
         Step(p) \/ Exit(p) \/ Kill(p) \/ \E r \in Requests : Call(p, r), Critical(q)
  PROVE  Way(q)' = Way(q)
<1> SUFFICES pc'[q] = pc[q] /\ i'[q] = i[q]
  BY DEF Way
<1> USE DEF IInv, TypeOK, Within, Goto, At
<1>1. CASE p # q
  BY <1>1 DEF Step, SemWait, PrintNext, Show, SetFrozen, SetLimit, TransferCheck, TransferDebit,
              TransferCredit, SweepNext, LoopEnd, SemPost, Exit, Kill, Call
<1>2. CASE p = q
  BY <1>2 DEF Exit, Kill, Call, Critical, InMethod
<1> QED
  BY <1>1, <1>2

LEMMA StepNears ==
  ASSUME IInv, NEW p \in Procs, Step(p) \/ Exit(p) \/ Kill(p) \/ \E r \in Requests : Call(p, r)
  PROVE  HolderNears
<1> SUFFICES ASSUME NEW q \in Procs, Critical(q)
             PROVE  /\ Way(q) \in Nat \ {0}
                    /\ IF Step(q) THEN Way(q)' \in Nat /\ Way(q)' < Way(q)
                                  ELSE Way(q)' = Way(q)
                    /\ Way(q)' = 0 => SemPost(q) /\ sem' = 1
  BY DEF HolderNears
<1>1. Way(q) \in Nat \ {0}
  <2>1. N \in Nat /\ i[q] \in 0 .. N
    BY BillsAssumption DEF IInv, TypeOK
  <2> QED
    BY <2>1 DEF Way, Critical, InMethod
<1>2. CASE Step(q)
  BY <1>1, <1>2, HolderSteps
<1>3. CASE ~Step(q)
  <2>1. Way(q)' = Way(q)
    BY <1>3, OthersKeepWay
  <2> QED
    BY <1>1, <1>3, <2>1
<1> QED
  BY <1>2, <1>3

\* From every method there is a way back to sem_post, and each step of the holder
\* shortens it: no loop of bank.cpp starts again, and no request leaves its method
\* without a next statement.  So the semaphore comes back from a holder that keeps
\* running.
THEOREM HolderGetsOut == Spec => []HolderCan /\ [][HolderNears]_vars
<1>1. IInv => HolderCan
  <2> SUFFICES ASSUME IInv, NEW p \in Procs \ killed, pc[p] = "body" PROVE BodyCan(p)
    BY DEF HolderCan
  <2>1. i[p] <= N
    BY BillsAssumption DEF IInv, TypeOK
  <2>2. CASE request[p] = Report
    BY <2>1, <2>2 DEF BodyCan, Report
  <2>3. CASE request[p] \in Requests
    <3>1. request[p] \in Request
      BY <2>3, BillsAssumption
    <3> QED
      BY <2>1, <3>1 DEF BodyCan, Request, TransferRequest, SweepRequest, AccountRequest,
                        LimitRequest
  <2> QED
    BY <2>2, <2>3 DEF IInv, RequestInv, InMethod
<1>2. IInv /\ [Next]_vars => [HolderNears]_vars
  BY NextCases, StepNears
<1> QED
  BY <1>1, <1>2, Invariance, PTL DEF Spec

----------------------------------------------------------------------------
\* Every set of naturals has a least element.
LEMMA LeastNatural ==
  ASSUME NEW T \in SUBSET Nat, T # {}
  PROVE  \E x \in T : \A y \in T : x <= y
<1>1. PICK x \in T : \A y \in T : <<y, x>> \notin OpToRel(<, Nat)
  BY NatLessThanWellFounded, WFMin
<1>2. \A y \in T : ~(y < x)
  BY <1>1 DEF OpToRel
<1> QED
  BY <1>2

\* What holds of 0, and of n + 1 if it holds of n, holds of every natural.
LEMMA Induction ==
  ASSUME NEW S, 0 \in S, \A n \in Nat : n \in S => n + 1 \in S
  PROVE  \A n \in Nat : n \in S
<1> DEFINE T == Nat \ S
<1>1. SUFFICES ASSUME T # {} PROVE FALSE
  OBVIOUS
<1>2. PICK x \in T : \A y \in T : x <= y
  BY <1>1, LeastNatural
<1>3. x # 0 /\ x - 1 \in Nat /\ ~(x <= x - 1)
  OBVIOUS
<1>4. x - 1 \in S
  BY <1>2, <1>3
<1>5. x \in Nat /\ x \notin S /\ (x - 1) + 1 = x
  OBVIOUS
<1>6. (x - 1) + 1 \in S
  BY <1>3, <1>4
<1> QED
  BY <1>5, <1>6


\* The sums of the first balances of b.
Summing(b, sum) ==
  sum = [n \in 0 .. N |-> IF n = 0 THEN 0 ELSE sum[n - 1] + b[n - 1].balance]

LEMMA SummingExists ==
  ASSUME NEW b
  PROVE  \E sum : Summing(b, sum)
<1> DEFINE Upto(k, sum) ==
             sum = [n \in 0 .. k |-> IF n = 0 THEN 0 ELSE sum[n - 1] + b[n - 1].balance]
           S == {k \in Nat : \E sum : Upto(k, sum)}
<1>1. 0 \in S
  <2>1. Upto(0, [n \in 0 .. 0 |-> 0])
    OBVIOUS
  <2> QED
    BY <2>1
<1>2. ASSUME NEW k \in Nat, k \in S
      PROVE  k + 1 \in S
  <2>1. PICK sum : Upto(k, sum)
    BY <1>2
  <2> DEFINE more == [n \in 0 .. k + 1 |-> IF n <= k THEN sum[n] ELSE sum[k] + b[k].balance]
  <2>2. \A n \in 0 .. k : sum[n] = IF n = 0 THEN 0 ELSE sum[n - 1] + b[n - 1].balance
    BY <2>1
  <2>3. \A n \in 1 .. k + 1 : more[n - 1] = sum[n - 1]
    OBVIOUS
  <2>4. ASSUME NEW n \in 0 .. k + 1
        PROVE  more[n] = IF n = 0 THEN 0 ELSE more[n - 1] + b[n - 1].balance
    <3>1. CASE n <= k
      BY <2>2, <2>3, <3>1
    <3>2. CASE n = k + 1
      <4>1. n - 1 = k /\ n # 0 /\ ~(n <= k) /\ n \in 1 .. k + 1
        BY <3>2
      <4> QED
        BY <2>3, <4>1
    <3> QED
      BY <3>1, <3>2
  <2>5. Upto(k + 1, more)
    BY <2>4
  <2> HIDE DEF Upto, more
  <2> QED
    BY <2>5
<1> HIDE DEF S
<1>3. N \in S
  BY <1>1, <1>2, Induction, BillsAssumption
<1> QED
  BY <1>3 DEF S, Summing

\* If one balance of two banks differs by d and no other one does, their totals
\* differ by d.
LEMMA TotalDiffers ==
  ASSUME NEW b \in [Account -> Bill], NEW c \in [Account -> Bill],
         NEW x \in Account, NEW d \in Int,
         \A a \in Account : c[a].balance = b[a].balance + (IF a = x THEN d ELSE 0)
  PROVE  Total(b) \in Int /\ Total(c) = Total(b) + d
<1>1. PICK s : Summing(b, s) /\ Total(b) = s[N]
  BY SummingExists DEF Summing, Total
<1>2. PICK t : Summing(c, t) /\ Total(c) = t[N]
  BY SummingExists DEF Summing, Total
<1>3. /\ \A n \in 0 .. N : s[n] = IF n = 0 THEN 0 ELSE s[n - 1] + b[n - 1].balance
      /\ \A n \in 0 .. N : t[n] = IF n = 0 THEN 0 ELSE t[n - 1] + c[n - 1].balance
  BY <1>1, <1>2 DEF Summing
<1>4. N \in Nat \ {0} /\ x \in 0 .. N - 1
  BY BillsAssumption DEF Account
<1>5. \A a \in Account : b[a].balance \in Int
  BY BillsAssumption DEF Bill, Int32, INT_MIN
<1> DEFINE P(n) == n <= N => s[n] \in Int /\ t[n] = s[n] + (IF n > x THEN d ELSE 0)
           S == {n \in Nat : P(n)}
<1>6. P(0)
  <2>1. 0 \in 0 .. N /\ ~(0 > x)
    BY <1>4
  <2> QED
    BY <1>3, <2>1
<1>7. ASSUME NEW n \in Nat, P(n) PROVE P(n + 1)
  <2>1. SUFFICES ASSUME n + 1 <= N
                 PROVE  s[n + 1] \in Int /\ t[n + 1] = s[n + 1] + (IF n + 1 > x THEN d ELSE 0)
    OBVIOUS
  <2>2. n + 1 \in 0 .. N /\ n + 1 # 0 /\ (n + 1) - 1 = n /\ n \in Account /\ n <= N
    BY <1>4, <2>1 DEF Account
  <2>3. s[n] \in Int /\ t[n] = s[n] + (IF n > x THEN d ELSE 0)
    BY <1>7, <2>2
  <2>4. s[n + 1] = s[n] + b[n].balance /\ t[n + 1] = t[n] + c[n].balance
    <3>1. s[n + 1] = s[(n + 1) - 1] + b[(n + 1) - 1].balance
      BY <1>3, <2>2
    <3>2. t[n + 1] = t[(n + 1) - 1] + c[(n + 1) - 1].balance
      BY <1>3, <2>2
    <3> QED
      BY <2>2, <3>1, <3>2
  <2>5. c[n].balance = b[n].balance + (IF n = x THEN d ELSE 0) /\ b[n].balance \in Int
    BY <1>5, <2>2
  <2> QED
    BY <1>4, <2>3, <2>4, <2>5
<1>8. N \in S
  <2> HIDE DEF P
  <2>1. 0 \in S /\ \A n \in Nat : n \in S => n + 1 \in S
    BY <1>6, <1>7
  <2> HIDE DEF S
  <2> QED
    BY <1>4, <2>1, Induction
<1> QED
  BY <1>1, <1>2, <1>4, <1>8

----------------------------------------------------------------------------
\* Remainders do not see a whole modulus more.
LEMMA Remainder ==
  ASSUME NEW x \in Int, NEW m \in Nat \ {0}
  PROVE  x % m \in 0 .. m - 1 /\ x = m * (x \div m) + (x % m) /\ x \div m \in Int
  OBVIOUS

LEMMA SmallMultiple ==
  ASSUME NEW m \in Nat \ {0}, NEW k \in Int, m * k < m, m * k > -m
  PROVE  k = 0
  OBVIOUS

LEMMA RemainderOfSum ==
  ASSUME NEW x \in Int, NEW m \in Nat \ {0}
  PROVE  (x + m) % m = x % m
<1> DEFINE y  == x + m
           q  == x \div m
           r  == x % m
           qy == y \div m
           ry == y % m
           k  == qy - q - 1
<1>1. q \in Int /\ r \in 0 .. m - 1 /\ x = m * q + r
  BY Remainder
<1>2. y \in Int /\ m \in Int
  OBVIOUS
<1>3. qy \in Int /\ ry \in 0 .. m - 1 /\ y = m * qy + ry
  <2> HIDE DEF y
  <2> QED
    BY Remainder, <1>2
<1> HIDE DEF q, r, qy, ry
<1>4. m * k = r - ry /\ k \in Int
  BY <1>1, <1>2, <1>3
<1> HIDE DEF k
<1>5. k = 0
  <2>1. m * k < m /\ m * k > -m
    BY <1>1, <1>3, <1>4
  <2> QED
    BY <2>1, <1>4, SmallMultiple
<1>6. r = ry
  BY <1>1, <1>3, <1>4, <1>5
<1> QED
  BY <1>6 DEF r, ry

\* Sums that differ by one wrap of an int are the same money.
LEMMA SameMoney ==
  ASSUME NEW x \in Int, NEW y \in Int, y \in {x - Modulus, x, x + Modulus}
  PROVE  y % Modulus = x % Modulus
<1>1. Modulus \in Nat \ {0}
  BY BillsAssumption DEF Modulus
<1>2. CASE y = x + Modulus
  BY <1>1, <1>2, RemainderOfSum
<1>3. CASE y = x - Modulus
  <2>1. x = y + Modulus
    BY <1>1, <1>3
  <2> QED
    BY <1>1, <2>1, RemainderOfSum
<1> QED
  BY <1>2, <1>3

----------------------------------------------------------------------------
\* At most one transfer is half way.
LEMMA InFlightIs ==
  ASSUME NEW place, NEW method,
         \A p, q \in Procs : place[p] = "credit" /\ place[q] = "credit" => p = q
  PROVE  /\ \A p \in Procs : place[p] = "credit" => InFlight(place, method) = method[p].amount
         /\ (\A p \in Procs : place[p] # "credit") => InFlight(place, method) = 0
<1>1. ASSUME NEW p \in Procs, place[p] = "credit"
      PROVE  InFlight(place, method) = method[p].amount
  <2> DEFINE q == CHOOSE q \in Procs : place[q] = "credit"
  <2>1. q \in Procs /\ place[q] = "credit"
    BY <1>1
  <2>2. InFlight(place, method) = method[q].amount
    BY <1>1 DEF InFlight
  <2> HIDE DEF q
  <2>3. q = p
    BY <1>1, <2>1
  <2> QED
    BY <2>2, <2>3
<1>2. ASSUME \A p \in Procs : place[p] # "credit"
      PROVE  InFlight(place, method) = 0
  BY <1>2 DEF InFlight
<1> QED
  BY <1>1, <1>2

\* Balances that stay give the total that was.
LEMMA TotalStays ==
  ASSUME NEW b \in [Account -> Bill], NEW c \in [Account -> Bill],
         \A a \in Account : c[a].balance = b[a].balance
  PROVE  Total(b) \in Int /\ Total(c) = Total(b)
<1>1. 0 \in Account /\ 0 \in Int
  BY BillsAssumption DEF Account
<1>2. \A a \in Account : b[a].balance \in Int
  BY BillsAssumption DEF Bill, Int32, INT_MIN
<1>3. \A a \in Account : c[a].balance = b[a].balance + (IF a = 0 THEN 0 ELSE 0)
  BY <1>2
<1>4. Total(b) \in Int /\ Total(c) = Total(b) + 0
  BY <1>1, <1>3, TotalDiffers
<1> QED
  BY <1>4

LEMMA WrapIs ==
  ASSUME NEW x \in Int
  PROVE  Wrap(x) \in {x - Modulus, x, x + Modulus}
  BY DEF Wrap

\* What a deposit or a withdrawal makes of a total: the amount, but for one wrap.
LEMMA TotalMoves ==
  ASSUME NEW b \in [Account -> Bill], NEW x \in Account, NEW amount \in Int32,
         NEW bill \in {Deposit(b[x], amount), Withdraw(b[x], amount)}
  PROVE  /\ Total(b) \in Int
         /\ bill = Deposit(b[x], amount) =>
              Total([b EXCEPT ![x] = bill]) - (Total(b) + amount) \in {-Modulus, 0, Modulus}
         /\ bill = Withdraw(b[x], amount) =>
              Total([b EXCEPT ![x] = bill]) - (Total(b) - amount) \in {-Modulus, 0, Modulus}
<1> DEFINE c == [b EXCEPT ![x] = bill]
           d == bill.balance - b[x].balance
<1>1. /\ b[x] \in Bill /\ b[x].balance \in Int /\ amount \in Int /\ Modulus \in Int
      /\ bill \in Bill /\ bill.balance \in Int
  <2>1. b[x] \in Bill /\ amount \in Int32
    OBVIOUS
  <2>2. bill \in Bill
    BY <2>1, BillType
  <2>3. INT_MAX \in Int
    BY BillsAssumption
  <2>4. \A y \in Int32 : y \in Int
    BY <2>3 DEF Int32, INT_MIN
  <2>5. \A any \in Bill : any.balance \in Int32
    BY DEF Bill
  <2> QED
    BY <2>1, <2>2, <2>3, <2>4, <2>5 DEF Modulus
<1>2. c \in [Account -> Bill]
  BY <1>1
<1>3. \A a \in Account : c[a].balance = b[a].balance + (IF a = x THEN d ELSE 0)
  <2>1. \A a \in Account : b[a].balance \in Int
    BY BillsAssumption DEF Bill, Int32, INT_MIN
  <2>2. bill.balance = b[x].balance + d
    BY <1>1
  <2> HIDE DEF d
  <2> QED
    BY <2>1, <2>2
<1>4. d \in Int
  BY <1>1
<1>5. bill = Deposit(b[x], amount) => d - amount \in {-Modulus, 0, Modulus}
  <2>1. Deposit(b[x], amount).balance = Wrap(b[x].balance + amount)
    BY <1>1 DEF Deposit, Bill
  <2>2. Wrap(b[x].balance + amount)
          \in {b[x].balance + amount - Modulus, b[x].balance + amount,
               b[x].balance + amount + Modulus}
    BY WrapIs, <1>1
  <2> QED
    BY <1>1, <2>1, <2>2
<1>6. bill = Withdraw(b[x], amount) => d + amount \in {-Modulus, 0, Modulus}
  <2>1. Withdraw(b[x], amount).balance = Wrap(b[x].balance - amount)
    BY <1>1 DEF Withdraw, Bill
  <2>2. Wrap(b[x].balance - amount)
          \in {b[x].balance - amount - Modulus, b[x].balance - amount,
               b[x].balance - amount + Modulus}
    BY WrapIs, <1>1
  <2> QED
    BY <1>1, <2>1, <2>2
<1> HIDE DEF d
<1>7. Total(b) \in Int /\ Total(c) = Total(b) + d
  <2> HIDE DEF c
  <2> QED
    BY <1>2, <1>3, <1>4, TotalDiffers
<1> HIDE DEF c
<1>8. /\ bill = Deposit(b[x], amount) =>
           Total(c) - (Total(b) + amount) \in {-Modulus, 0, Modulus}
      /\ bill = Withdraw(b[x], amount) =>
           Total(c) - (Total(b) - amount) \in {-Modulus, 0, Modulus}
  BY <1>1, <1>4, <1>5, <1>6, <1>7
<1> QED
  BY <1>7, <1>8 DEF c

LEMMA MoneyStep ==
  ASSUME IInv, IInv', NEW p \in Procs,
         Step(p) \/ Exit(p) \/ Kill(p) \/ \E r \in Requests : Call(p, r), ~SweepNext(p)
  PROVE  Money' = Money
<1> DEFINE debited == TransferDebit(p)
           credited == TransferCredit(p)
<1>1. /\ bills \in [Account -> Bill] /\ bills' \in [Account -> Bill]
      /\ SemaphoreCountsHolder /\ SemaphoreCountsHolder' /\ pc \in [Procs -> PC]
      /\ \A q, s \in Procs : pc[q] = "credit" /\ pc[s] = "credit" => q = s
      /\ \A q, s \in Procs : pc'[q] = "credit" /\ pc'[s] = "credit" => q = s
  BY DEF IInv, TypeOK, SemaphoreCountsHolder, Critical, InMethod
<1>2. CASE ~debited /\ ~credited
  <2>1. \A a \in Account : bills'[a].balance = bills[a].balance
    <3>1. CASE SetFrozen(p)
      BY <1>1, <3>1 DEF SetFrozen, WithFrozen, Bill
    <3>2. CASE SetLimit(p)
      BY <1>1, <3>2 DEF SetLimit, WithLimit, Bill
    <3>3. CASE UNCHANGED bills
      BY <3>3
    <3>4. UNCHANGED bills \/ SetFrozen(p) \/ SetLimit(p)
      BY <1>2 DEF Step, SemWait, SemPost, PrintNext, Show, TransferCheck, LoopEnd, Exit, Kill,
                  Call
    <3> QED
      BY <3>1, <3>2, <3>3, <3>4
  <2>2. Total(bills) \in Int /\ Total(bills') = Total(bills)
    BY <1>1, <2>1, TotalStays
  <2>3. \A q \in Procs : /\ pc'[q] = "credit" <=> pc[q] = "credit"
                         /\ pc[q] = "credit" => request'[q] = request[q]
    BY <1>1, <1>2 DEF Step, SemWait, SemPost, PrintNext, Show, TransferCheck, LoopEnd, Exit,
                      Kill, Call, SetFrozen, SetLimit, Within, Goto, At, IInv, TypeOK
  <2>4. InFlight(pc', request') = InFlight(pc, request)
    <3>1. CASE \E q \in Procs : pc[q] = "credit"
      <4>1. PICK q \in Procs : pc[q] = "credit"
        BY <3>1
      <4>2. InFlight(pc, request) = request[q].amount
        BY <1>1, <4>1, InFlightIs
      <4>3. InFlight(pc', request') = request'[q].amount
        BY <1>1, <2>3, <4>1, InFlightIs
      <4> QED
        BY <2>3, <4>1, <4>2, <4>3
    <3>2. CASE \A q \in Procs : pc[q] # "credit"
      <4>1. InFlight(pc, request) = 0
        BY <1>1, <3>2, InFlightIs
      <4>2. InFlight(pc', request') = 0
        BY <1>1, <2>3, <3>2, InFlightIs
      <4> QED
        BY <4>1, <4>2
    <3> QED
      BY <3>1, <3>2
  <2> QED
    BY <2>2, <2>4 DEF Money, Modulus
<1>3. CASE debited
  <2> DEFINE r == request[p]
             bill == Withdraw(bills[r.from], r.amount)
  <2>1. /\ pc[p] = "debit" /\ pc'[p] = "credit" /\ request' = request
        /\ bills' = [bills EXCEPT ![r.from] = bill]
    BY <1>1, <1>3 DEF TransferDebit, Within, Goto, At
  <2>2. r \in Requests /\ r.kind = "transfer" /\ r.from \in Account
    BY <2>1 DEF IInv, RequestInv, InMethod, TransferAllowed, Report
  <2>3. r.amount \in Int32 /\ r.amount \in Int
    BY <2>2, RequestFields, BillsAssumption DEF Int32, INT_MIN
  <2>4. InFlight(pc, request) = 0
    <3>1. \A q \in Procs : pc[q] # "credit"
      BY <1>1, <2>1 DEF SemaphoreCountsHolder, Critical, InMethod
    <3> QED
      BY <1>1, <3>1, InFlightIs
  <2>5. InFlight(pc', request') = r.amount
    BY <1>1, <2>1, InFlightIs
  <2>6. Total(bills) \in Int /\ Total(bills') - (Total(bills) - r.amount) \in {-Modulus, 0, Modulus}
    BY <1>1, <2>1, <2>2, <2>3, TotalMoves
  <2>7. Total(bills') \in Int
    BY <1>1, TotalStays
  <2> DEFINE x == Total(bills)
             y == Total(bills')
             m == Modulus
             amount == r.amount
  <2>8. /\ x \in Int /\ y \in Int /\ m \in Int /\ amount \in Int
        /\ y - (x - amount) \in {-m, 0, m}
    BY <2>3, <2>6, <2>7, BillsAssumption DEF Modulus
  <2>9. Money = (x + 0) % m /\ Money' = (y + amount) % m
    BY <2>4, <2>5 DEF Money, Modulus
  <2> HIDE DEF x, y, m, amount
  <2>10. /\ x + 0 \in Int /\ y + amount \in Int
         /\ y + amount \in {(x + 0) - m, x + 0, (x + 0) + m}
    BY <2>8
  <2> QED
    BY <2>9, <2>10, SameMoney DEF m
<1>4. CASE credited
  <2> DEFINE r == request[p]
             bill == Deposit(bills[r.to], r.amount)
  <2>1. /\ pc[p] = "credit" /\ pc'[p] = "sem_post" /\ request' = request
        /\ bills' = [bills EXCEPT ![r.to] = bill]
        /\ \A q \in Procs \ {p} : pc'[q] = pc[q]
    BY <1>1, <1>4 DEF TransferCredit, Within, Goto, At
  <2>2. r \in Requests /\ r.kind = "transfer" /\ r.to \in Account
    BY <2>1 DEF IInv, RequestInv, InMethod, TransferAllowed, Report
  <2>3. r.amount \in Int32 /\ r.amount \in Int
    BY <2>2, RequestFields, BillsAssumption DEF Int32, INT_MIN
  <2>4. InFlight(pc, request) = r.amount
    BY <1>1, <2>1, InFlightIs
  <2>5. InFlight(pc', request') = 0
    <3>1. \A q \in Procs : pc'[q] # "credit"
      BY <1>1, <2>1 DEF SemaphoreCountsHolder, Critical, InMethod
    <3> QED
      BY <1>1, <3>1, InFlightIs
  <2>6. Total(bills) \in Int /\ Total(bills') - (Total(bills) + r.amount) \in {-Modulus, 0, Modulus}
    BY <1>1, <2>1, <2>2, <2>3, TotalMoves
  <2>7. Total(bills') \in Int
    BY <1>1, TotalStays
  <2> DEFINE x == Total(bills)
             y == Total(bills')
             m == Modulus
             amount == r.amount
  <2>8. /\ x \in Int /\ y \in Int /\ m \in Int /\ amount \in Int
        /\ y - (x + amount) \in {-m, 0, m}
    BY <2>3, <2>6, <2>7, BillsAssumption DEF Modulus
  <2>9. Money = (x + amount) % m /\ Money' = (y + 0) % m
    BY <2>4, <2>5 DEF Money, Modulus
  <2> HIDE DEF x, y, m, amount
  <2>10. /\ x + amount \in Int /\ y + 0 \in Int
         /\ y + 0 \in {(x + amount) - m, x + amount, (x + amount) + m}
    BY <2>8
  <2> QED
    BY <2>9, <2>10, SameMoney DEF m
<1> QED
  BY <1>2, <1>3, <1>4

\* Whatever clients do at the same time, and wherever one dies, no transfer makes
\* or loses money: what one bill has lost and the other not yet got is the amount
\* of the one transfer under way (bank.cpp:74-75).
THEOREM MoneyConserved == Spec => MoneyOnlyBySweeps
<1>1. IInv /\ IInv' /\ [Next]_vars => [Money' # Money => \E p \in Procs : SweepNext(p)]_vars
  BY NextCases, MoneyStep
<1> QED
  BY <1>1, Invariance, PTL DEF Spec, MoneyOnlyBySweeps

----------------------------------------------------------------------------
\* The abstract bank commits exactly what a sem_post publishes.
LEMMA AtomicDefs ==
  /\ Atomic!Account = Account
  /\ Atomic!NewBill = NewBill
  /\ Atomic!SweepKinds = SweepKinds
  /\ Atomic!FreezeKinds = FreezeKinds
  /\ Atomic!LimitKinds = LimitKinds
  /\ \A r : Atomic!RefusedUnlocked(r) <=> RefusedUnlocked(r)
  /\ \A b, x : Atomic!Deposit(b, x) = Deposit(b, x) /\ Atomic!Withdraw(b, x) = Withdraw(b, x)
  /\ \A b, r : Atomic!Swept(b, r) = Swept(b, r)
  /\ \A b, r : Atomic!WithFrozen(b, r) = WithFrozen(b, r)
  /\ \A b, r : Atomic!WithLimit(b, r) = WithLimit(b, r)
  /\ \A b, r : Atomic!LimitAccepted(b, r) <=> LimitAccepted(b, r)
  /\ \A b, r : Atomic!TransferAllowed(b, r) <=> TransferAllowed(b, r)
<1> USE DEF Account, Atomic!Account, NewBill, Atomic!NewBill, INT_MIN, Atomic!INT_MIN,
    SweepKinds, Atomic!SweepKinds, FreezeKinds, Atomic!FreezeKinds,
    LimitKinds, Atomic!LimitKinds, Modulus, Atomic!Modulus, Wrap, Atomic!Wrap
<1>1. \A b, x : /\ Atomic!Deposit(b, x) = Deposit(b, x)
                /\ Atomic!Withdraw(b, x) = Withdraw(b, x)
                /\ Atomic!RoomFor(b, x) <=> RoomFor(b, x)
                /\ Atomic!Covers(b, x) <=> Covers(b, x)
  BY DEF Deposit, Atomic!Deposit, Withdraw, Atomic!Withdraw,
         RoomFor, Atomic!RoomFor, Covers, Atomic!Covers
<1>2. \A r : Atomic!RefusedUnlocked(r) <=> RefusedUnlocked(r)
  BY DEF RefusedUnlocked, Atomic!RefusedUnlocked
<1>3. \A b, r : Atomic!Swept(b, r) = Swept(b, r)
  BY <1>1 DEF Swept, Atomic!Swept
<1>4. \A b, r : /\ Atomic!WithFrozen(b, r) = WithFrozen(b, r)
                /\ Atomic!WithLimit(b, r) = WithLimit(b, r)
                /\ Atomic!LimitAccepted(b, r) <=> LimitAccepted(b, r)
  BY DEF WithFrozen, Atomic!WithFrozen, WithLimit, Atomic!WithLimit,
         LimitAccepted, Atomic!LimitAccepted
<1>5. \A b, r : Atomic!TransferAllowed(b, r) <=> TransferAllowed(b, r)
  BY <1>1 DEF TransferAllowed, Atomic!TransferAllowed
<1> QED
  BY <1>1, <1>2, <1>3, <1>4, <1>5

\* A sem_post is one step of the abstract bank, or none; every other step is none.
LEMMA PostRefines ==
  ASSUME IInv, NEW p \in Procs, SemPost(p)
  PROVE  Atomic!Next \/ UNCHANGED committed
<1>1. SUFFICES ASSUME committed' # committed PROVE Atomic!Next
  OBVIOUS
<1> DEFINE r == request[p]
<1>2. pc[p] = "sem_post" /\ committed' = bills
  BY DEF SemPost, At
<1>3. r \in Requests /\ Outcome(r)
  BY <1>1, <1>2 DEF IInv, BillsInv, Progress
<1>4. ~RefusedUnlocked(r)
  BY <1>2, <1>3, RequestFields DEF IInv, RequestInv, InMethod, Report
<1> HIDE DEF r
<1>5. Atomic!Transfer(r) \/ Atomic!Sweep(r) \/ Atomic!SetFrozen(r) \/ Atomic!SetLimit(r)
  BY <1>2, <1>3, AtomicDefs
     DEF Outcome, Atomic!Transfer, Atomic!Sweep, Atomic!SetFrozen, Atomic!SetLimit
<1> QED
  BY <1>3, <1>4, <1>5, AtomicDefs DEF Atomic!Next

\* The semaphore makes every method of bank.cpp one indivisible step for
\* everybody who can still look, for any number of accounts and clients and
\* wherever processes die.
THEOREM BankIsAtomic == Spec => RefinesBank
<1>1. Init => Atomic!Init
  BY AtomicDefs DEF Init, Atomic!Init
<1>2. IInv /\ [Next]_vars => [Atomic!Next]_committed
  <2> SUFFICES ASSUME IInv, [Next]_vars, committed' # committed
               PROVE  Atomic!Next
    OBVIOUS
  <2>1. PICK p \in Procs : Step(p) \/ Exit(p) \/ Kill(p) \/ \E r \in Requests : Call(p, r)
    BY NextCases DEF vars
  <2>2. SemPost(p)
    BY <2>1 DEF Step, Exit, Kill, Call, SemWait, PrintNext, Show, SetFrozen, SetLimit,
                TransferCheck, TransferDebit, TransferCredit, SweepNext, LoopEnd, Within
  <2> QED
    BY <2>2, PostRefines
<1> QED
  BY <1>1, <1>2, Invariance, PTL DEF Spec, RefinesBank, Atomic!Spec
=============================================================================
