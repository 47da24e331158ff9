----------------------------- MODULE MCBankShm -----------------------------
(***************************************************************************)
(* BankShm for TLC: two accounts of 3-bit ints, two clients.               *)
(***************************************************************************)
EXTENDS BankShm

TransferOf(from, to, amount) ==
  [kind |-> "transfer", from |-> from, to |-> to, amount |-> amount]
SweepOf(kind, amount)    == [kind |-> kind, amount |-> amount]
AccountOf(kind, account) == [kind |-> kind, account |-> account]
LimitOf(kind, account, limit) == [kind |-> kind, account |-> account, limit |-> limit]

\* -1 and 2 are the two sides of the index test; the amount 2 leaves four
\* balances reachable and overflows from two of them; the amount 0 is refused
\* early.
MCRequests ==
  {TransferOf(0, 1, 2), TransferOf(0, 2, 2), TransferOf(0, 1, 0),
   SweepOf("credit_all", 2), SweepOf("debit_all", 2), SweepOf("debit_all", 0),
   AccountOf("show_balance", 2), AccountOf("freeze_account", -1),
   AccountOf("freeze_account", 1), AccountOf("unfreeze_account", 1),
   LimitOf("set_max_balance", 0, 0)}

\* Wrap is the residue modulo 2^w over every sum of two ints.
ASSUME WrapIsModular ==
  \A x, y \in Int32 : /\ Wrap(x + y) \in Int32
                      /\ Wrap(x + y) % Modulus = (x + y) % Modulus
                      /\ Wrap(x - y) \in Int32
                      /\ Wrap(x - y) % Modulus = (x - y) % Modulus
=============================================================================
