------------------------- MODULE SavingsGoalsProofs -------------------------
(***************************************************************************)
(* Proofs about SavingsGoals, for any contributions, amounts and number of *)
(* concurrent requests.  StatusFollowsAmounts is not inductive: the sum a  *)
(* request commits with was read a statement earlier.  IInv adds that the  *)
(* goal row has one holder (Exclusive), so that this sum is still the sum  *)
(* of what the request commits (SumIsCurrent).                             *)
(***************************************************************************)
EXTENDS SavingsGoals, TLAPS

Shape ==
  /\ pc \in [Requests -> {"idle", "lock", "sum", "commit"}]
  /\ change = [r \in Requests |-> change[r]]
  /\ saved = [r \in Requests |-> saved[r]]

Exclusive == \A r \in Requests : pc[r] \in {"sum", "commit"} => lock = r

SumIsCurrent == \A r \in Requests : pc[r] = "commit" => saved[r] = SumFunction(Seen(r))

IInv == Shape /\ Exclusive /\ SumIsCurrent /\ StatusFollowsAmounts

\* What deriveGoalStatus returns follows the amounts it is given.
LEMMA DerivedStatus ==
  ASSUME NEW intent, NEW sum, NEW t
  PROVE  LET s == deriveGoalStatus(intent, sum, t)
         IN  s \in {"ACTIVE", "COMPLETED"} => (s = "COMPLETED" <=> sum >= t)
BY DEF deriveGoalStatus

LEMMA InitIInv == Init => IInv
<1> SUFFICES ASSUME Init PROVE IInv OBVIOUS
<1>1. Shape BY DEF Init, Shape
<1>2. Exclusive /\ SumIsCurrent BY DEF Init, Exclusive, SumIsCurrent
<1>3. StatusFollowsAmounts BY DerivedStatus DEF Init, StatusFollowsAmounts
<1> QED BY <1>1, <1>2, <1>3 DEF IInv

\* The end of a transaction leaves the other requests as they are.
LEMMA EndKeeps ==
  ASSUME IInv, NEW r \in Requests, End(r)
  PROVE  Shape' /\ Exclusive'
<1>1. Shape' BY DEF IInv, Shape, End
<1>2. Exclusive' BY NoneAssumption DEF IInv, Shape, Exclusive, End
<1> QED BY <1>1, <1>2

LEMMA CommitKeeps ==
  ASSUME IInv, NEW r \in Requests, Commit(r)
  PROVE  IInv'
<1>1. Shape' /\ Exclusive' BY EndKeeps DEF Commit
<1>2. SumIsCurrent'
  <2> SUFFICES ASSUME NEW q \in Requests PROVE pc'[q] # "commit" BY DEF SumIsCurrent
  <2>1. lock = r BY DEF IInv, Exclusive, Commit
  <2>2. q # r => pc[q] # "commit" BY <2>1 DEF IInv, Exclusive
  <2> QED BY <2>2 DEF Commit, End, IInv, Shape
<1>3. StatusFollowsAmounts'
  <2>1. saved[r] = SumFunction(amount')
    BY DEF IInv, SumIsCurrent, Commit
  <2>2. status' = deriveGoalStatus(Intent(r), SumFunction(amount'), target')
    BY <2>1 DEF Commit
  <2> QED BY <2>2, DerivedStatus DEF StatusFollowsAmounts
<1> QED BY <1>1, <1>2, <1>3 DEF IInv

\* Every step keeps the invariant.
LEMMA NextIInv == IInv /\ [Next]_vars => IInv'
<1> SUFFICES ASSUME IInv, [Next]_vars PROVE IInv' OBVIOUS
<1> USE NoneAssumption
<1>1. ASSUME NEW r \in Requests, NEW c \in Changes, Submit(r, c) PROVE IInv'
  <2>1. Shape' BY <1>1 DEF IInv, Shape, Submit
  <2>2. Exclusive' BY <1>1 DEF IInv, Shape, Exclusive, Submit
  <2>3. SumIsCurrent'
    <3> SUFFICES ASSUME NEW q \in Requests, pc'[q] = "commit"
                 PROVE  saved'[q] = SumFunction(Seen(q)')
      BY DEF SumIsCurrent
    <3>1. q # r /\ pc[q] = "commit" BY <1>1 DEF IInv, Shape, Submit
    <3>2. saved'[q] = saved[q] /\ change'[q] = change[q] /\ amount' = amount
      BY <1>1, <3>1 DEF IInv, Shape, Submit
    <3>3. Seen(q)' = Seen(q) BY <3>2 DEF Seen
    <3> QED BY <3>1, <3>2, <3>3 DEF IInv, SumIsCurrent
  <2>4. StatusFollowsAmounts' BY <1>1 DEF IInv, StatusFollowsAmounts, Submit, goal
  <2> QED BY <2>1, <2>2, <2>3, <2>4 DEF IInv
<1>2. ASSUME NEW r \in Requests, LockGoal(r) PROVE IInv'
  <2>1. Shape' BY <1>2 DEF IInv, Shape, LockGoal
  <2>2. Exclusive' BY <1>2 DEF IInv, Shape, Exclusive, LockGoal
  <2>3. SumIsCurrent'
    <3> SUFFICES ASSUME NEW q \in Requests, pc'[q] = "commit"
                 PROVE  saved'[q] = SumFunction(Seen(q)')
      BY DEF SumIsCurrent
    <3>1. pc[q] = "commit" BY <1>2 DEF IInv, Shape, LockGoal
    <3>2. Seen(q)' = Seen(q) BY <1>2 DEF Seen, LockGoal
    <3> QED BY <1>2, <3>1, <3>2 DEF IInv, SumIsCurrent, LockGoal
  <2>4. StatusFollowsAmounts' BY <1>2 DEF IInv, StatusFollowsAmounts, LockGoal, goal
  <2> QED BY <2>1, <2>2, <2>3, <2>4 DEF IInv
<1>3. ASSUME NEW r \in Requests, SumContributions(r) PROVE IInv'
  <2>1. Shape' BY <1>3 DEF IInv, Shape, SumContributions
  <2>2. Exclusive' BY <1>3 DEF IInv, Shape, Exclusive, SumContributions
  <2>3. SumIsCurrent'
    <3> SUFFICES ASSUME NEW q \in Requests, pc'[q] = "commit"
                 PROVE  saved'[q] = SumFunction(Seen(q)')
      BY DEF SumIsCurrent
    <3>1. Seen(q)' = Seen(q) BY <1>3 DEF Seen, SumContributions
    <3>2. CASE q = r BY <1>3, <3>1, <3>2 DEF IInv, Shape, SumContributions
    <3>3. CASE q # r
      BY <1>3, <3>1, <3>3 DEF IInv, Shape, SumIsCurrent, SumContributions
    <3> QED BY <3>2, <3>3
  <2>4. StatusFollowsAmounts' BY <1>3 DEF IInv, StatusFollowsAmounts, SumContributions, goal
  <2> QED BY <2>1, <2>2, <2>3, <2>4 DEF IInv
<1>4. ASSUME NEW r \in Requests, Commit(r) PROVE IInv'
  BY <1>4, CommitKeeps
<1>5. ASSUME NEW r \in Requests, Abort(r) PROVE IInv'
  <2>1. Shape' /\ Exclusive' BY <1>5, EndKeeps DEF Abort
  <2>2. SumIsCurrent'
    <3> SUFFICES ASSUME NEW q \in Requests, pc'[q] = "commit"
                 PROVE  saved'[q] = SumFunction(Seen(q)')
      BY DEF SumIsCurrent
    <3>1. q # r /\ pc[q] = "commit" BY <1>5 DEF IInv, Shape, Abort, End
    <3>2. saved'[q] = saved[q] /\ change'[q] = change[q] /\ amount' = amount
      BY <1>5, <3>1 DEF IInv, Shape, Abort, End
    <3>3. Seen(q)' = Seen(q) BY <3>2 DEF Seen
    <3> QED BY <3>1, <3>2, <3>3 DEF IInv, SumIsCurrent
  <2>3. StatusFollowsAmounts' BY <1>5 DEF IInv, StatusFollowsAmounts, Abort, goal
  <2> QED BY <2>1, <2>2, <2>3 DEF IInv
<1>6. CASE DeleteGoal
  <2>1. Shape' /\ Exclusive' BY <1>6 DEF IInv, Shape, Exclusive, DeleteGoal
  <2>2. SumIsCurrent'
    <3> SUFFICES ASSUME NEW q \in Requests PROVE pc[q] # "commit"
      BY <1>6 DEF SumIsCurrent, DeleteGoal
    <3> QED BY <1>6 DEF IInv, Exclusive, DeleteGoal
  <2>3. StatusFollowsAmounts' BY <1>6 DEF StatusFollowsAmounts, DeleteGoal
  <2> QED BY <2>1, <2>2, <2>3 DEF IInv
<1>7. CASE UNCHANGED vars
  <2>1. Shape' /\ Exclusive' BY <1>7 DEF IInv, Shape, Exclusive, vars
  <2>2. SumIsCurrent' BY <1>7 DEF IInv, SumIsCurrent, Seen, vars
  <2>3. StatusFollowsAmounts' BY <1>7 DEF IInv, StatusFollowsAmounts, vars, goal
  <2> QED BY <2>1, <2>2, <2>3 DEF IInv
<1> QED BY <1>1, <1>2, <1>3, <1>4, <1>5, <1>6, <1>7 DEF Next

\* withGoalLock keeps the stored status in step with the contributions, whatever
\* requests race.
THEOREM GoalStatusIsRight == Spec => []StatusFollowsAmounts
<1>1. IInv => StatusFollowsAmounts BY DEF IInv
<1> QED BY InitIInv, NextIInv, <1>1, PTL DEF Spec

\* No contribution and no edit without a status moves a goal out of PAUSED or
\* CANCELLED.
THEOREM PauseIsRespected == Spec => IntentIsExplicit
<1> DEFINE A ==
      (status # status' /\ {status, status'} \cap {"PAUSED", "CANCELLED"} # {}) =>
         \E r \in Requests : /\ pc[r] = "commit" /\ pc'[r] = "idle"
                             /\ change[r].of = "goal" /\ change[r].status # "same"
<1>1. IInv /\ [Next]_vars => A
  <2> SUFFICES ASSUME IInv, Next, status # status',
                      {status, status'} \cap {"PAUSED", "CANCELLED"} # {}
               PROVE  A
    BY DEF vars, goal
  <2>1. PICK r \in Requests : Commit(r)
    BY DEF Next, Submit, LockGoal, SumContributions, Abort, DeleteGoal, goal
  <2>2. pc[r] = "commit" /\ pc'[r] = "idle"
    BY <2>1 DEF Commit, End, IInv, Shape
  <2>3. status' = deriveGoalStatus(Intent(r), saved[r], NewTarget(r))
    BY <2>1 DEF Commit
  <2>4. change[r].of = "goal" /\ change[r].status # "same"
    <3>1. Intent(r) # status BY <2>3 DEF deriveGoalStatus
    <3> QED BY <3>1 DEF Intent
  <2> QED BY <2>2, <2>4
<1>2. IInv /\ [Next]_vars => [A]_vars BY <1>1
<1>3. Spec => [][A]_vars BY <1>2, InitIInv, NextIInv, PTL DEF Spec
<1> QED BY <1>3 DEF IntentIsExplicit
=============================================================================
