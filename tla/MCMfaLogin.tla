----------------------------- MODULE MCMfaLogin -----------------------------
(* Small instances of MfaLogin for TLC, and claims of the source about it. *)
EXTENDS MfaLogin, TLC

\* No action compares or orders the members of these sets.
Interchangeable ==
  Permutations(Tokens) \cup Permutations(Requests) \cup Permutations(Secrets)
    \cup Permutations(Codes) \cup Permutations(Sessions)

\* Setting up two-factor authentication a second time and creating a second
\* session are both possible, in different behaviours.
CONSTANT MaxRows
Supply == Cardinality(minted) + Cardinality({s \in Sessions : sess[s] # "absent"})
BoundedSpec == Init /\ [][Next /\ Supply' <= MaxRows]_vars

\* What lockUserRow's comment says of the locks.
NoLockCycle == \A p, q \in Requests : ~LockCycle(p, q)

\* What disableMfa's comment says: the session that performs the change survives.
LiveFamily(f) == \E s \in Sessions : Live(s) /\ root[s] = f
PerformerSurvives ==
  [][\A r \in Requests, f \in Sessions :
       (changes' # changes /\ pc'[r] # pc[r] /\ keep[r] # None /\ root[keep[r]] = f
          /\ LiveFamily(f)) => LiveFamily(f)']_vars
=============================================================================
