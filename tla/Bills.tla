------------------------------- MODULE Bills -------------------------------
(***************************************************************************)
(* The data of the shared-memory bank (Bank_Final_Project): a Bill is one  *)
(* account, the bank is an array of them, and a request is one call of a   *)
(* method of class Bank with the arguments a client typed.  Everything     *)
(* here is constant level; Bank and BankShm build their steps from it.     *)
(*                                                                         *)
(* The makefile compiles without optimisation, so the signed additions of  *)
(* bank.cpp wrap at the width of an int.  INT_MAX is a parameter: the      *)
(* proofs hold for every width, the runs use a narrow one.                 *)
(***************************************************************************)
EXTENDS Integers

CONSTANTS
  N,          \* number of accounts: the argument of ./init, Bank::size
  INT_MAX,    \* largest int
  Requests    \* the requests clients may make

INT_MIN == -INT_MAX - 1
Int32   == INT_MIN .. INT_MAX
Modulus == 2 * (INT_MAX + 1)

Account == 0 .. N-1

Bill == [balance : Int32, min_balance : Int32, max_balance : Int32,
         frozen : BOOLEAN]

\* What Bank::Bank stores in every element of bills.
NewBill == [balance |-> 0, min_balance |-> INT_MIN, max_balance |-> INT_MAX,
            frozen |-> FALSE]

\* The int a two's complement addition or subtraction of two ints leaves.
Wrap(x) == IF x > INT_MAX THEN x - Modulus
           ELSE IF x < INT_MIN THEN x + Modulus ELSE x

----------------------------------------------------------------------------
\* Requests.  The three show_* methods differ only in the field they print.

ShowKinds   == {"show_balance", "show_min_balance", "show_max_balance"}
FreezeKinds == {"freeze_account", "unfreeze_account"}
LimitKinds  == {"set_min_balance", "set_max_balance"}
SweepKinds  == {"credit_all", "debit_all"}

TransferRequest == [kind : {"transfer"}, from : Int32, to : Int32, amount : Int32]
SweepRequest    == [kind : SweepKinds, amount : Int32]
AccountRequest  == [kind : ShowKinds \cup FreezeKinds, account : Int32]
LimitRequest    == [kind : LimitKinds, account : Int32, limit : Int32]

Request == TransferRequest \cup SweepRequest \cup AccountRequest \cup LimitRequest

ASSUME BillsAssumption ==
  /\ N \in Nat \ {0}
  /\ INT_MAX \in Nat \ {0}
  /\ Requests \subseteq Request

\* The refusals a method makes before it touches the semaphore.
RefusedUnlocked(r) ==
  \/ r.kind \in SweepKinds \cup {"transfer"} /\ r.amount <= 0
  \/ r.kind = "transfer" /\ r.from = r.to

----------------------------------------------------------------------------
\* One Bill.

Deposit(bill, amount)  == [bill EXCEPT !.balance = Wrap(@ + amount)]
Withdraw(bill, amount) == [bill EXCEPT !.balance = Wrap(@ - amount)]

RoomFor(bill, amount) == Wrap(bill.balance + amount) <= bill.max_balance
Covers(bill, amount)  == Wrap(bill.balance - amount) >= bill.min_balance

\* One iteration of the loop of credit_all or debit_all.
Swept(bill, r) ==
  IF r.kind = "credit_all"
  THEN IF ~bill.frozen /\ RoomFor(bill, r.amount)
       THEN Deposit(bill, r.amount) ELSE bill
  ELSE IF ~bill.frozen /\ Covers(bill, r.amount)
       THEN Withdraw(bill, r.amount) ELSE bill

WithFrozen(bill, r) ==
  IF r.kind = "freeze_account" THEN [bill EXCEPT !.frozen = TRUE]
                               ELSE [bill EXCEPT !.frozen = FALSE]

\* Mutant of LimitAccepted: the balance is not compared with the new limit.
LimitAcceptedUnchecked(bill, r) ==
  IF r.kind = "set_min_balance" THEN bill.max_balance >= r.limit
                                ELSE bill.min_balance <= r.limit

\* The tests of set_min_balance and set_max_balance, both else branches.
LimitAccepted(bill, r) ==
  IF r.kind = "set_min_balance"
  THEN bill.max_balance >= r.limit /\ bill.balance >= r.limit
  ELSE bill.min_balance <= r.limit /\ bill.balance <= r.limit

WithLimit(bill, r) ==
  IF r.kind = "set_min_balance" THEN [bill EXCEPT !.min_balance = r.limit]
                                ELSE [bill EXCEPT !.max_balance = r.limit]

----------------------------------------------------------------------------
\* The tests transfer makes, all of them under the semaphore.
TransferAllowed(b, r) ==
  /\ r.from \in Account
  /\ r.to \in Account
  /\ ~b[r.from].frozen
  /\ ~b[r.to].frozen
  /\ Covers(b[r.from], r.amount)
  /\ RoomFor(b[r.to], r.amount)
=============================================================================
