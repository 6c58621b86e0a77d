------------------------------ MODULE BankData ------------------------------
(***************************************************************************)
(* What a provider reports of a user's bank, and the ids of the rows the   *)
(* server keeps of its accounts.                                           *)
(***************************************************************************)
EXTENDS Concurrency

CONSTANTS External,  \* accounts the provider reports
          Feed,      \* transactions the provider reports
          Unnamed,   \* those of them it sends without an id
          OwnerOf,   \* the external account of each of them
          Ids        \* ids of financial_accounts rows, never used twice

ASSUME BankAssumption ==
  /\ OwnerOf \in [Feed -> External]
  /\ Unnamed \subseteq Feed
  /\ None \notin External \cup Ids
=============================================================================
