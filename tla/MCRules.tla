------------------------------ MODULE MCRules ------------------------------
(* A small instance of RecurringRules for TLC. *)
EXTENDS RecurringRules

\* The second month of the first year is the shortest.
MonthLengths == <<2, 1, 2, 2, 2, 1, 2, 2>>
=============================================================================
