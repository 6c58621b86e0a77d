--------------------------- MODULE SingleUseLink ---------------------------
(***************************************************************************)
(* What the emailed links of an account promise: only the newest can be     *)
(* used, it has its effect at most once, and one that was replaced or       *)
(* refused never has it.  Nothing is said of rows, locks or requests.       *)
(***************************************************************************)
CONSTANT Links

VARIABLE link  \* "none", "usable", "applied" or "dead"

Init == link = [l \in Links |-> "none"]

\* Every usable link dies, but l gets the given state.
Replace(l, state) ==
  link' = [k \in Links |-> IF k = l THEN state
                           ELSE IF link[k] = "usable" THEN "dead" ELSE link[k]]

Issue(l)  == link[l] = "none" /\ Replace(l, "usable")
Apply(l)  == link[l] = "usable" /\ Replace(l, "applied")
Refuse(l) == link[l] = "usable" /\ link' = [k \in Links |-> IF k = l THEN "dead" ELSE link[k]]

Next == \E l \in Links : Issue(l) \/ Apply(l) \/ Refuse(l)

Spec == Init /\ [][Next]_link
=============================================================================
