---------------------------- MODULE SavingsGoals ----------------------------
(***************************************************************************)
(* A savings goal, its contributions, and the requests that change them.   *)
(* The stored status must follow the amounts unless the user paused or     *)
(* cancelled the goal.  Every change but the deletion of the goal runs in  *)
(* withGoalLock: the row FOR UPDATE, the change, then a recomputation of   *)
(* the status from a sum of the contributions read after it.               *)
(***************************************************************************)
EXTENDS Naturals, Functions, Concurrency

CONSTANTS Contributions,  \* ids of contributions
          Amounts         \* positive amounts, of a contribution or a target

VARIABLES
  exists, status, target,  \* the goal
  amount,                  \* of each contribution, 0 when there is none
  lock,                    \* the request holding the goal row
  pc, change, saved        \* of a request: statement, what it is to do, the sum it read

goal == <<exists, status, target>>
vars == <<goal, amount, lock, pc, change, saved>>

Status == {"ACTIVE", "COMPLETED", "PAUSED", "CANCELLED"}

Unset == [of |-> "nothing"]
\* What a request may ask: a new contribution, another amount for one (0 deletes
\* it), or new columns of the goal; "same" and 0 are fields the body leaves out.
Changes ==
  [of : {"create"}, id : Contributions, to : Amounts]
    \cup [of : {"edit"}, id : Contributions, to : Amounts \cup {0}]
    \cup [of : {"goal"}, status : {"ACTIVE", "PAUSED", "CANCELLED", "same"},
          target : Amounts \cup {0}]

deriveGoalStatus(intent, sum, goalTarget) ==
  CASE intent \in {"PAUSED", "CANCELLED"} -> intent
    [] sum >= goalTarget                  -> "COMPLETED"
    [] OTHER                              -> "ACTIVE"

\* A goal as the last request left it; createGoal starts one ACTIVE with nothing
\* saved towards a positive target.
Init ==
  /\ exists = TRUE
  /\ target \in Amounts
  /\ amount \in [Contributions -> Amounts \cup {0}]
  /\ \E intent \in {"ACTIVE", "PAUSED", "CANCELLED"} :
       status = deriveGoalStatus(intent, SumFunction(amount), target)
  /\ lock = None
  /\ pc = [r \in Requests |-> "idle"]
  /\ change = [r \in Requests |-> Unset]
  /\ saved = [r \in Requests |-> 0]

\* The contributions as the transaction of r sees them, its own change included.
Seen(r) == IF change[r].of = "goal"
             THEN amount ELSE [amount EXCEPT ![change[r].id] = change[r].to]

End(r) ==
  /\ pc' = [pc EXCEPT ![r] = "idle"]
  /\ change' = [change EXCEPT ![r] = Unset]
  /\ saved' = [saved EXCEPT ![r] = 0]
  /\ lock' = IF lock = r THEN None ELSE lock

\* A new contribution has an id of its own; another one is there to be edited.
Applicable(c) ==
  CASE c.of = "create" -> amount[c.id] = 0
    [] c.of = "edit"   -> amount[c.id] # 0
    [] c.of = "goal"   -> TRUE

\* The goal, and the contribution to edit, were found before the lock.
Submit(r, c) ==
  /\ pc[r] = "idle"
  /\ exists
  /\ Applicable(c)
  /\ c.of = "create" => \A q \in Requests : change[q].of = "create" => change[q].id # c.id
  /\ pc' = [pc EXCEPT ![r] = "lock"]
  /\ change' = [change EXCEPT ![r] = c]
  /\ UNCHANGED <<goal, amount, lock, saved>>

\* Faulty: the row is read without FOR UPDATE.
ReadGoal(r) ==
  /\ pc[r] = "lock"
  /\ exists
  /\ lock' = r
  /\ pc' = [pc EXCEPT ![r] = "sum"]
  /\ UNCHANGED <<goal, amount, change, saved>>

LockGoal(r) ==
  /\ pc[r] = "lock"
  /\ exists
  /\ lock = None
  /\ lock' = r
  /\ pc' = [pc EXCEPT ![r] = "sum"]
  /\ UNCHANGED <<goal, amount, change, saved>>

\* The change is written, then the contributions are summed; the contribution
\* to edit may have been deleted while the request waited.
SumContributions(r) ==
  /\ pc[r] = "sum"
  /\ Applicable(change[r])
  /\ saved' = [saved EXCEPT ![r] = SumFunction(Seen(r))]
  /\ pc' = [pc EXCEPT ![r] = "commit"]
  /\ UNCHANGED <<goal, amount, lock, change>>

\* Faulty: the intent is the status alone, so a paused goal becomes active.
IntentForgotten(r) == IF change[r].of = "goal" /\ change[r].status # "same"
                        THEN change[r].status ELSE "ACTIVE"

\* Faulty: a target the body leaves out is written as 0.
TargetOrZero(r) == IF change[r].of = "goal" THEN change[r].target ELSE target

\* Columns the update writes, and the intent: an explicit status, else that of
\* the locked row.
NewTarget(r) == IF change[r].of = "goal" /\ change[r].target # 0 THEN change[r].target ELSE target
Intent(r) == IF change[r].of = "goal" /\ change[r].status # "same" THEN change[r].status ELSE status

Commit(r) ==
  /\ pc[r] = "commit"
  /\ status' = deriveGoalStatus(Intent(r), saved[r], NewTarget(r))
  /\ target' = NewTarget(r)
  /\ amount' = Seen(r)
  /\ End(r)
  /\ UNCHANGED exists

\* Only the cascade removes the contributions; it waits for the goal row.
DeleteGoal ==
  /\ exists
  /\ lock = None
  /\ exists' = FALSE
  /\ amount' = [c \in Contributions |-> 0]
  /\ UNCHANGED <<status, target, lock, pc, change, saved>>

\* The goal or the contribution is gone, or the transaction times out.
Abort(r) ==
  /\ pc[r] # "idle"
  /\ End(r)
  /\ UNCHANGED <<goal, amount>>

Next ==
  \/ \E r \in Requests : \/ \E c \in Changes : Submit(r, c)
                         \/ LockGoal(r) \/ SumContributions(r) \/ Commit(r) \/ Abort(r)
  \/ DeleteGoal

Spec == Init /\ [][Next]_vars
-----------------------------------------------------------------------------
TypeOK ==
  /\ exists \in BOOLEAN /\ status \in Status /\ target \in Amounts
  /\ amount \in [Contributions -> Amounts \cup {0}]
  /\ lock \in Requests \cup {None}
  /\ pc \in [Requests -> {"idle", "lock", "sum", "commit"}]
  /\ change \in [Requests -> Changes \cup {Unset}]
  /\ saved \in [Requests -> Nat]

\* The stored status follows the amounts: a goal is completed exactly when the
\* contributions reach its target, whatever contributions and edits raced.
StatusFollowsAmounts ==
  exists /\ status \in {"ACTIVE", "COMPLETED"} =>
    (status = "COMPLETED" <=> SumFunction(amount) >= target)

\* Only a request that names a status takes a goal out of PAUSED or CANCELLED,
\* or puts it there.
IntentIsExplicit ==
  [][(status # status' /\ {status, status'} \cap {"PAUSED", "CANCELLED"} # {}) =>
       \E r \in Requests : /\ pc[r] = "commit" /\ pc'[r] = "idle"
                           /\ change[r].of = "goal" /\ change[r].status # "same"]_vars
=============================================================================
