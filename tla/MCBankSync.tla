---------------------------- MODULE MCBankSync ----------------------------
(* A small instance of BankSync for TLC: two accounts of one connection. *)
EXTENDS BankSync, TLC

CONSTANTS e1, t1

\* The one transaction belongs to the first account.
TwoAccounts == [t \in {t1} |-> e1]

\* Requests and ids are never compared or ordered.
Interchangeable == Permutations(Requests) \cup Permutations(Ids)
===========================================================================
