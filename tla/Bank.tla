-------------------------------- MODULE Bank --------------------------------
(***************************************************************************)
(* What the bank promises its clients: every method of class Bank acts on  *)
(* the accounts in one indivisible step, wholly or not at all.  There are  *)
(* no processes and no semaphore here; BankShm implements this module.     *)
(***************************************************************************)
EXTENDS Bills

VARIABLE bills      \* the array Bank::bills

TypeOK == bills \in [Account -> Bill]

Init == bills = [a \in Account |-> NewBill]

Transfer(r) ==
  /\ r.kind = "transfer"
  /\ TransferAllowed(bills, r)
  /\ bills' = [bills EXCEPT ![r.from] = Withdraw(@, r.amount),
                            ![r.to]   = Deposit(@, r.amount)]

Sweep(r) ==
  /\ r.kind \in SweepKinds
  /\ bills' = [a \in Account |-> Swept(bills[a], r)]

SetFrozen(r) ==
  /\ r.kind \in FreezeKinds
  /\ r.account \in Account
  /\ bills' = [bills EXCEPT ![r.account] = WithFrozen(@, r)]

SetLimit(r) ==
  /\ r.kind \in LimitKinds
  /\ r.account \in Account
  /\ LimitAccepted(bills[r.account], r)
  /\ bills' = [bills EXCEPT ![r.account] = WithLimit(@, r)]

\* A refused request, and a request that only shows, change nothing: they are
\* the stuttering steps.
Next == \E r \in Requests :
          /\ ~RefusedUnlocked(r)
          /\ \/ Transfer(r)
             \/ Sweep(r)
             \/ SetFrozen(r)
             \/ SetLimit(r)

Spec == Init /\ [][Next]_bills
=============================================================================
