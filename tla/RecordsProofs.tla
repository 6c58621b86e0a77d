--------------------------- MODULE RecordsProofs ---------------------------
(***************************************************************************)
(* Proofs about the components that MCRecords puts side by side: the       *)
(* administration of accounts (AdminGuard, which MCRecords extends), and   *)
(* those it instantiates.  What is proved of a component in a module of    *)
(* its own (SavingsGoalsProofs, BankSyncProofs) is carried over to the     *)
(* composition, since a step of MCRecords is a step of one component and   *)
(* leaves the others as they are.                                          *)
(*                                                                         *)
(* AdminRemains is not inductive: a demotion is safe only because the      *)
(* count it relies on is still true when it commits.  AdminInv adds that   *)
(* one request at a time is past the advisory lock (Exclusive), that what  *)
(* it read is therefore still the row (Current), and that a request about  *)
(* to remove an administrator has another one (Covered).                   *)
(*                                                                         *)
(* Rules, bills and subscriptions rest on CalendarProofs.  A request goes  *)
(* on from a row it read earlier, so RuleInv and ItemInv say what of it    *)
(* still stands: a generation has read a date that was due (Reading), a    *)
(* payment a date that was accounted for when it was read (ReadBefore).    *)
(***************************************************************************)
EXTENDS MCRecords, CalendarProofs, FiniteSetTheorems, SequenceTheorems, TLAPS

-----------------------------------------------------------------------------
(* Administration of accounts.                                             *)

Inside == {"read", "check", "count", "write"}

Exclusive == \A r \in Requests : pc[r] \in Inside <=> mutex = r

Filled == \A r \in Requests :
  pc[r] # "idle" => actor[r] \in Accounts /\ target[r] \in Accounts /\ goal[r] \in Values

Current == \A r \in Requests :
  pc[r] \in {"check", "count", "write"} =>
    fresh[r] = [role |-> role[target[r]], status |-> status[target[r]]]

Permitted == \A r \in Requests : pc[r] \in {"count", "write"} => MayChange(r)

Covered == \A r \in Requests :
  pc[r] = "write" /\ RemovesAdmin(r) => RemainingAdmins(r) # {}

AdminInv == TypeOK /\ Exclusive /\ Filled /\ Current /\ Permitted /\ Covered /\ AdminRemains

\* Init establishes the invariant; no request has started.
LEMMA AdminInit == Init => AdminInv
<1> USE NoneAssumption
<1> SUFFICES ASSUME Init PROVE AdminInv OBVIOUS
<1>1. TypeOK BY SMTT(30) DEF Init, TypeOK, Role, Status, Values
<1>2. Exclusive BY DEF Init, Exclusive, Inside
<1>3. Filled /\ Current /\ Permitted /\ Covered
  BY DEF Init, Filled, Current, Permitted, Covered
<1>4. AdminRemains BY DEF Init, AdminRemains
<1> QED BY <1>1, <1>2, <1>3, <1>4 DEF AdminInv

\* A request that ends leaves the others as they are, so every clause about
\* requests survives as long as the accounts do.
LEMMA EndKeeps ==
  ASSUME AdminInv, NEW r \in Requests, End(r), UNCHANGED data, UNCHANGED audit
  PROVE  AdminInv'
<1> USE NoneAssumption
<1>1. TypeOK' BY SMTT(30) DEF AdminInv, TypeOK, End, Goto, data
<1>2. Exclusive' BY SMTT(30) DEF AdminInv, TypeOK, Exclusive, Inside, End, Goto
<1>3. Filled' BY SMTT(30) DEF AdminInv, TypeOK, Filled, End, Goto
<1>4. Current' BY SMTT(30) DEF AdminInv, TypeOK, Current, End, Goto, data
<1>5. Permitted'
  BY SMTT(30) DEF AdminInv, TypeOK, Permitted, MayChange, From, End, Goto
<1>6. Covered'
  BY SMTT(30) DEF AdminInv, TypeOK, Covered, RemovesAdmin, RemainingAdmins,
                  ActiveAdmins, End, Goto, data
<1>7. AdminRemains' BY DEF AdminInv, AdminRemains, ActiveAdmins, data
<1> QED BY <1>1, <1>2, <1>3, <1>4, <1>5, <1>6, <1>7 DEF AdminInv

\* The committed change: nobody else is inside, and an administrator remains.
LEMMA WriteKeeps ==
  ASSUME AdminInv, NEW r \in Requests, Write(r)
  PROVE  AdminInv'
<1> USE NoneAssumption
<1> DEFINE t == target[r]
<1>0. pc[r] = "write" BY DEF Write
<1>1. /\ pc[r] = "write" /\ t \in Accounts /\ goal[r] \in Values /\ actor[r] \in Accounts
      /\ fresh[r] = [role |-> role[t], status |-> status[t]]
      /\ mutex = r
  <2>1. t \in Accounts /\ goal[r] \in Values /\ actor[r] \in Accounts
    BY <1>0, SMTT(30) DEF AdminInv, Filled
  <2>2. fresh[r] = [role |-> role[t], status |-> status[t]]
    BY <1>0, SMTT(30) DEF AdminInv, Current
  <2>3. mutex = r BY <1>0, SMTT(30) DEF AdminInv, Exclusive, Inside
  <2> QED BY <1>0, <2>1, <2>2, <2>3
<1>2. \A q \in Requests : q # r => pc[q] \in {"idle", "lock"}
  <2> SUFFICES ASSUME NEW q \in Requests, q # r PROVE pc[q] \in {"idle", "lock"}
    OBVIOUS
  <2>1. pc[q] \in Inside => mutex = q BY SMTT(30) DEF AdminInv, Exclusive
  <2>2. pc[q] \notin Inside BY <1>1, <2>1
  <2>3. pc[q] \in {"idle", "lock", "read", "check", "count", "write"}
    BY DEF AdminInv, TypeOK
  <2> QED BY <2>2, <2>3 DEF Inside
<1>3. pc' = [pc EXCEPT ![r] = "idle"] /\ mutex' = None
  BY <1>1 DEF Write, End, Goto
<1>4. role' \in [Accounts -> Role] /\ status' \in [Accounts -> Status]
  <2>1. goal[r] \notin Role => goal[r] \in Status BY <1>1 DEF Values
  <2>2. role \in [Accounts -> Role] /\ status \in [Accounts -> Status]
    BY DEF AdminInv, TypeOK
  <2>3. CASE goal[r] \in Role BY <1>1, <2>2, <2>3 DEF Write
  <2>4. CASE goal[r] \notin Role BY <1>1, <2>1, <2>2, <2>4 DEF Write
  <2> QED BY <2>3, <2>4
<1>5. From(r) \in Values
  BY <1>1, SMTT(30) DEF AdminInv, TypeOK, From, Values
<1>6. TypeOK'
  <2>1. audit' \in Seq([by : Accounts, user : Accounts, from : Values, to : Values])
    BY <1>1, <1>5, SMTT(30) DEF AdminInv, TypeOK, Write
  <2> QED BY <1>3, <1>4, <2>1, SMTT(30) DEF AdminInv, TypeOK, Write, End
<1>7. Exclusive' BY <1>2, <1>3 DEF Exclusive, Inside, AdminInv, TypeOK
<1>8. Filled' BY <1>2, <1>3, SMTT(30) DEF AdminInv, TypeOK, Filled, Write, End
<1>9. Current' /\ Permitted' /\ Covered'
  <2> SUFFICES ASSUME NEW q \in Requests PROVE pc'[q] \notin {"check", "count", "write"}
    BY DEF Current, Permitted, Covered
  <2> QED BY <1>2, <1>3 DEF AdminInv, TypeOK
<1>10. AdminRemains'
  <2>1. CASE RemovesAdmin(r)
    <3>1. PICK a \in ActiveAdmins : a # t
      BY <1>1, <2>1 DEF AdminInv, Covered, RemainingAdmins
    <3>2. role'[a] = role[a] /\ status'[a] = status[a]
      BY <1>1, <3>1, SMTT(30) DEF AdminInv, TypeOK, Write, ActiveAdmins
    <3> QED BY <3>1, <3>2 DEF AdminRemains, ActiveAdmins
  <2>2. CASE ~RemovesAdmin(r)
    <3>1. PICK a : a \in ActiveAdmins BY DEF AdminInv, AdminRemains
    <3>2. a # t BY <1>1, <2>2, <3>1 DEF RemovesAdmin, ActiveAdmins
    <3>3. role'[a] = role[a] /\ status'[a] = status[a]
      BY <1>1, <3>1, <3>2, SMTT(30) DEF AdminInv, TypeOK, Write, ActiveAdmins
    <3> QED BY <3>1, <3>3 DEF AdminRemains, ActiveAdmins
  <2> QED BY <2>1, <2>2
<1> QED BY <1>6, <1>7, <1>8, <1>9, <1>10 DEF AdminInv

\* A statement that only moves one request forward within its transaction.
LEMMA SubmitKeeps ==
  ASSUME AdminInv, NEW r \in Requests, NEW a \in Accounts, NEW u \in Accounts,
         NEW v \in Values, Submit(r, a, u, v)
  PROVE  AdminInv'
<1> USE NoneAssumption
<1>1. TypeOK' BY SMTT(30) DEF AdminInv, TypeOK, Submit, Goto, data
<1>2. Exclusive' BY SMTT(30) DEF AdminInv, TypeOK, Exclusive, Inside, Submit, Goto
<1>3. Filled' BY SMTT(30) DEF AdminInv, TypeOK, Filled, Submit, Goto
<1>4. Current' BY SMTT(30) DEF AdminInv, TypeOK, Current, Submit, Goto, data
<1>5. Permitted'
  BY SMTT(30) DEF AdminInv, TypeOK, Permitted, MayChange, From, Submit, Goto
<1>6. Covered'
  BY SMTT(30) DEF AdminInv, TypeOK, Covered, RemovesAdmin, RemainingAdmins,
                  ActiveAdmins, Submit, Goto, data
<1>7. AdminRemains' BY DEF AdminInv, AdminRemains, ActiveAdmins, Submit, data
<1> QED BY <1>1, <1>2, <1>3, <1>4, <1>5, <1>6, <1>7 DEF AdminInv

LEMMA LockKeeps ==
  ASSUME AdminInv, NEW r \in Requests, Lock(r)
  PROVE  AdminInv'
<1> USE NoneAssumption
<1>1. TypeOK' BY SMTT(30) DEF AdminInv, TypeOK, Lock, Goto, data, locals
<1>2. Exclusive' BY SMTT(30) DEF AdminInv, TypeOK, Exclusive, Inside, Lock, Goto
<1>3. Filled' /\ Current'
  BY SMTT(30) DEF AdminInv, TypeOK, Filled, Current, Lock, Goto, data, locals
<1>4. Permitted'
  BY SMTT(30) DEF AdminInv, TypeOK, Permitted, MayChange, From, Lock, Goto, locals
<1>5. Covered'
  BY SMTT(30) DEF AdminInv, TypeOK, Covered, RemovesAdmin, RemainingAdmins,
                  ActiveAdmins, Lock, Goto, data, locals
<1>6. AdminRemains' BY DEF AdminInv, AdminRemains, ActiveAdmins, Lock, data
<1> QED BY <1>1, <1>2, <1>3, <1>4, <1>5, <1>6 DEF AdminInv

LEMMA ReadFreshKeeps ==
  ASSUME AdminInv, NEW r \in Requests, ReadFresh(r)
  PROVE  AdminInv'
<1> USE NoneAssumption
<1>0. target[r] \in Accounts BY DEF AdminInv, Filled, ReadFresh
<1>1. TypeOK' BY <1>0, SMTT(30) DEF AdminInv, TypeOK, ReadFresh, Goto, data
<1>2. Exclusive' BY SMTT(30) DEF AdminInv, TypeOK, Exclusive, Inside, ReadFresh, Goto
<1>3. Filled' /\ Current'
  BY SMTT(30) DEF AdminInv, TypeOK, Filled, Current, ReadFresh, Goto, data
<1>4. Permitted'
  BY SMTT(30) DEF AdminInv, TypeOK, Permitted, MayChange, From, ReadFresh, Goto
<1>5. Covered'
  BY SMTT(30) DEF AdminInv, TypeOK, Covered, RemovesAdmin, RemainingAdmins,
                  ActiveAdmins, ReadFresh, Goto, data
<1>6. AdminRemains' BY DEF AdminInv, AdminRemains, ActiveAdmins, ReadFresh, data
<1> QED BY <1>1, <1>2, <1>3, <1>4, <1>5, <1>6 DEF AdminInv

LEMMA CheckKeeps ==
  ASSUME AdminInv, NEW r \in Requests, Check(r)
  PROVE  AdminInv'
<1>1. TypeOK' BY SMTT(30) DEF AdminInv, TypeOK, Check, Goto, data, locals
<1>2. Exclusive' BY SMTT(30) DEF AdminInv, TypeOK, Exclusive, Inside, Check, Goto
<1>3. Filled' /\ Current'
  BY SMTT(30) DEF AdminInv, TypeOK, Filled, Current, Check, Goto, data, locals
<1>4. Permitted'
  BY SMTT(30) DEF AdminInv, TypeOK, Permitted, MayChange, From, Check, Goto, locals
<1>5. Covered'
  BY SMTT(30) DEF AdminInv, TypeOK, Covered, RemovesAdmin, RemainingAdmins,
                  ActiveAdmins, Check, Goto, data, locals
<1>6. AdminRemains' BY DEF AdminInv, AdminRemains, ActiveAdmins, Check, data
<1> QED BY <1>1, <1>2, <1>3, <1>4, <1>5, <1>6 DEF AdminInv

LEMMA CountAdminsKeeps ==
  ASSUME AdminInv, NEW r \in Requests, CountAdmins(r)
  PROVE  AdminInv'
<1>1. TypeOK' BY SMTT(30) DEF AdminInv, TypeOK, CountAdmins, Goto, data, locals
<1>2. Exclusive' BY SMTT(30) DEF AdminInv, TypeOK, Exclusive, Inside, CountAdmins, Goto
<1>3. Filled' /\ Current'
  BY SMTT(30) DEF AdminInv, TypeOK, Filled, Current, CountAdmins, Goto, data, locals
<1>4. Permitted'
  BY SMTT(30) DEF AdminInv, TypeOK, Permitted, MayChange, From, CountAdmins, Goto, locals
<1>5. Covered'
  BY SMTT(30) DEF AdminInv, TypeOK, Covered, RemovesAdmin, RemainingAdmins,
                  ActiveAdmins, CountAdmins, Goto, data, locals
<1>6. AdminRemains' BY DEF AdminInv, AdminRemains, ActiveAdmins, CountAdmins, data
<1> QED BY <1>1, <1>2, <1>3, <1>4, <1>5, <1>6 DEF AdminInv

\* Every step keeps the invariant.
LEMMA AdminStep == AdminInv /\ [Next]_vars => AdminInv'
<1> SUFFICES ASSUME AdminInv, [Next]_vars PROVE AdminInv' OBVIOUS
<1>1. CASE UNCHANGED vars
  BY <1>1 DEF vars, data, locals, AdminInv, TypeOK, Exclusive, Filled, Current, Permitted,
              Covered, AdminRemains, ActiveAdmins, MayChange, From, RemovesAdmin,
              RemainingAdmins
<1>2. CASE Next
  <2>1. PICK r \in Requests :
          \/ \E a, u \in Accounts, v \in Values : Submit(r, a, u, v)
          \/ Step(r)
    BY <1>2 DEF Next
  <2>2. CASE \E a, u \in Accounts, v \in Values : Submit(r, a, u, v)
    BY <2>2, SubmitKeeps
  <2>3. CASE Step(r)
    <3>1. CASE Refuse(r) BY <3>1, EndKeeps DEF Refuse
    <3>2. CASE Abandon(r) BY <3>2, EndKeeps DEF Abandon
    <3> QED BY <2>3, <3>1, <3>2, LockKeeps, ReadFreshKeeps, CheckKeeps,
               CountAdminsKeeps, WriteKeeps DEF Step
  <2> QED BY <2>1, <2>2, <2>3
<1> QED BY <1>1, <1>2

LEMMA AdminInvariance == Spec => []AdminInv
BY AdminInit, AdminStep, PTL DEF Spec

\* Type correctness of the administration of accounts.
THEOREM AdminTypeCorrect == Spec => []TypeOK
BY AdminInvariance, PTL DEF AdminInv

\* updateAdminUserStatus and updateAdminUserRole never leave the service without
\* an active administrator, for any number of concurrent administrators.
THEOREM AdminAlwaysRemains == Spec => []AdminRemains
BY AdminInvariance, PTL DEF AdminInv

\* recordAuditEvent tells the truth: the committed change of an account adds one
\* row that names its value just before and just after.
THEOREM AuditIsTruthful == Spec => AuditExplains
<1> DEFINE Entry(a, u, f, v) == [by |-> a, user |-> u, from |-> f, to |-> v]
<1> DEFINE A == data' # data =>
       \E a, u \in Accounts, v \in Values :
         \/ /\ role' = [role EXCEPT ![u] = v]
            /\ status' = status
            /\ audit' = Append(audit, Entry(a, u, role[u], v))
         \/ /\ status' = [status EXCEPT ![u] = v]
            /\ role' = role
            /\ ~ (status[u] = "DEACTIVATED" /\ v = "SUSPENDED")
            /\ audit' = Append(audit, Entry(a, u, status[u], v))
<1>1. AdminInv /\ [Next]_vars => A
  <2> SUFFICES ASSUME AdminInv, Next, data' # data PROVE A
    BY DEF vars
  <2>1. PICK r \in Requests : Write(r)
    BY DEF Next, Step, Submit, Lock, ReadFresh, Check, CountAdmins, Refuse, Abandon, data
  <2>2. /\ pc[r] = "write"
        /\ actor[r] \in Accounts /\ target[r] \in Accounts /\ goal[r] \in Values
        /\ fresh[r] = [role |-> role[target[r]], status |-> status[target[r]]]
        /\ goal[r] \in Allowed(From(r))
    BY <2>1 DEF AdminInv, Write, Filled, Current, Permitted, MayChange
  <2>3. CASE goal[r] \in Role
    <3>1. From(r) = role[target[r]] BY <2>2, <2>3 DEF From
    <3> QED BY <2>1, <2>2, <2>3, <3>1 DEF Write
  <2>4. CASE goal[r] \notin Role
    <3>1. From(r) = status[target[r]] BY <2>2, <2>4 DEF From
    <3>2. ~ (status[target[r]] = "DEACTIVATED" /\ goal[r] = "SUSPENDED")
      BY <2>2, <3>1 DEF Allowed
    <3> QED BY <2>1, <2>2, <2>4, <3>1, <3>2 DEF Write
  <2> QED BY <2>3, <2>4
<1>2. AdminInv /\ [Next]_vars => [A]_vars BY <1>1
<1>3. Spec => [][A]_vars BY <1>2, AdminInvariance, PTL DEF Spec
<1> QED BY <1>3 DEF AuditExplains
-----------------------------------------------------------------------------
(* Budgets.  AllocationFollowsUnlessRaced is not inductive: a commit      *)
(* writes what earlier statements worked out.  BudgetInv adds that an      *)
(* update that gives more than a category holds the row (RowLock), and     *)
(* what a request still knows that has missed no commit: the amount in the *)
(* row, when it is the one it allocates, and, once it has looked for the   *)
(* allocations, that it will write all there are (Informed).               *)

Allocation == [category : Categories, amount : Amounts]

\* A request to update a budget, with what it has read and written.
BudgetRequest ==
  [body : Budget!Bodies, amount : Amounts \cup {None}, seen : SUBSET Categories,
   changed : SUBSET Categories, removed : SUBSET Categories, added : Categories \cup {None},
   stale : BOOLEAN]

Updating(r) == budgetPc[r] \notin {"idle", "update"}

RowLock ==
  \A r \in Requests : budgetLock = r <=> Updating(r) /\ DOMAIN budgetReq[r].body # {"category"}

\* All of the amount, and of one category at most.
InFull(rows_, amount_) == (\A a \in rows_ : a.amount = amount_) /\ (\A a, b \in rows_ : a = b)

\* The allocations a request has looked for.
LookedFor(r) ==
  IF budgetPc[r] \in {"amounts", "remove"} THEN budgetReq[r].seen
  ELSE IF Budget!Gives(r, "category") THEN budgetReq[r].removed ELSE budgetReq[r].changed

\* A category alone that is null allocates nothing.
AllocatesRead(r) ==
  /\ ~Budget!Gives(r, "amount")
  /\ DOMAIN budgetReq[r].body = {"category"} => budgetReq[r].body.category # None

Informed(r) ==
  /\ budgetPc[r] # "idle" => budgetReq[r] \in BudgetRequest
  /\ Updating(r) => budgetReq[r].amount \in Amounts
  /\ Updating(r) /\ budget # None /\ ~budgetReq[r].stale /\ AllocatesRead(r) =>
       budgetReq[r].amount = budget
  /\ Budget!Looked(r) /\ ~budgetReq[r].stale => Budget!CategoriesOf(allocation) \subseteq LookedFor(r)
  /\ budgetPc[r] \in {"look", "amounts"} => Budget!Gives(r, "amount")
  /\ budgetPc[r] \in {"find", "remove", "insert"} => Budget!Gives(r, "category")
  /\ budgetPc[r] # "idle" =>
       budgetReq[r].added = IF budgetPc[r] = "commit" /\ Budget!Gives(r, "category")
                            THEN budgetReq[r].body.category ELSE None

BudgetInv ==
  /\ Budget!TypeOK /\ budgetReq \in [Requests -> BudgetRequest \cup {None}]
  /\ RowLock /\ (\A r \in Requests : Informed(r))
  /\ budgetRaced \/ InFull(allocation, budget)

LEMMA BudgetInit == Budget!Init => BudgetInv
BY NoneAssumption
   DEF Budget!Init, BudgetInv, Budget!TypeOK, RowLock, Updating, Informed, Budget!Looked, InFull

\* What the bodies of updates give, and the allocation of an amount.
LEMMA BudgetBodies ==
  ASSUME NEW body \in Budget!Bodies
  PROVE  /\ "amount" \in DOMAIN body => body.amount \in Amounts
         /\ "category" \in DOMAIN body => body.category \in Categories \cup {None}
BY DEF Budget!Bodies

LEMMA AllocatedInFull ==
  ASSUME NEW c \in Categories \cup {None}, NEW n \in Amounts
  PROVE  Budget!Allocated(c, n) \subseteq Allocation /\ InFull(Budget!Allocated(c, n), n)
BY DEF Budget!Allocated, Allocation, InFull

\* A statement of one request leaves the table, and what the others know of it, as it was.
LEMMA BudgetStatement ==
  ASSUME BudgetInv, NEW r \in Requests, NEW to, NEW request, budgetPc[r] # "idle",
         Budget!Go(r, to, request), UNCHANGED <<budget, allocation, budgetRaced>>,
         to \in {"look", "amounts", "find", "remove", "insert", "commit"},
         request \in BudgetRequest, Informed(r)', RowLock', budgetLock' \in Requests \cup {None}
  PROVE  BudgetInv'
<1>1. budgetPc' = [budgetPc EXCEPT ![r] = to] /\ budgetReq' = [budgetReq EXCEPT ![r] = request]
  BY DEF Budget!Go
<1>2. ASSUME NEW q \in Requests PROVE Informed(q)'
  <2>1. CASE q = r BY <2>1
  <2>2. CASE q # r
    <3>1. budgetPc'[q] = budgetPc[q] /\ budgetReq'[q] = budgetReq[q]
      BY <1>1, <2>2 DEF BudgetInv, Budget!TypeOK
    <3>2. Informed(q)
      BY DEF BudgetInv
    <3> QED
      BY <3>1, <3>2
         DEF Informed, Updating, AllocatesRead, LookedFor, Budget!Gives, Budget!Looked
  <2> QED BY <2>1, <2>2
<1>3. Budget!TypeOK' /\ budgetReq' \in [Requests -> BudgetRequest \cup {None}]
  BY <1>1 DEF BudgetInv, Budget!TypeOK
<1>4. (budgetRaced \/ InFull(allocation, budget))'
  BY DEF BudgetInv, InFull
<1> QED BY <1>2, <1>3, <1>4 DEF BudgetInv

\* The row is read with its lock, or, for a category alone, without it.
LEMMA BudgetRowRead ==
  ASSUME BudgetInv, NEW r \in Requests, Budget!UpdateRow(r) \/ Budget!ReadRow(r)
  PROVE  BudgetInv'
<1> DEFINE body    == budgetReq[r].body
           n       == IF Budget!Gives(r, "amount") THEN body.amount ELSE budget
           request == [budgetReq[r] EXCEPT !.amount = n]
<1>1. /\ budgetPc[r] = "update" /\ budget # None /\ budgetReq[r] \in BudgetRequest
      /\ body \in Budget!Bodies /\ budgetReq[r].added = None
      /\ budgetPc \in [Requests -> {"idle", "update", "look", "amounts", "find", "remove", "insert", "commit"}]
      /\ budgetReq \in [Requests -> BudgetRequest \cup {None}]
  BY DEF BudgetInv, Budget!TypeOK, Informed, BudgetRequest, Budget!UpdateRow, Budget!ReadRow
<1>2. n \in Amounts /\ (~Budget!Gives(r, "amount") => n = budget)
  BY <1>1, BudgetBodies DEF Budget!Gives, BudgetInv, Budget!TypeOK
<1>3. PICK to \in {"look", "find", "commit"} :
        /\ Budget!Go(r, to, request)
        /\ to = "look" => Budget!Gives(r, "amount")
        /\ to = "find" => Budget!Gives(r, "category")
        /\ to = "commit" => ~Budget!Gives(r, "category") /\ ~Budget!Gives(r, "amount")
  <2>1. CASE Budget!UpdateRow(r)
    BY <2>1 DEF Budget!UpdateRow, Budget!AfterRow, Budget!AfterAmounts
  <2>2. CASE Budget!ReadRow(r)
    <3>1. Budget!Gives(r, "category") /\ ~Budget!Gives(r, "amount")
      BY <2>2 DEF Budget!ReadRow, Budget!Gives
    <3> QED BY <2>2, <3>1 DEF Budget!ReadRow
  <2> QED BY <2>1, <2>2
<1> HIDE DEF n
<1>4. /\ request \in BudgetRequest /\ request.body = body /\ request.amount = n
      /\ request.added = None
  BY <1>1, <1>2 DEF BudgetRequest
<1>5. UNCHANGED <<budget, allocation, budgetRaced>>
  BY DEF Budget!UpdateRow, Budget!ReadRow
<1> HIDE DEF request
<1>6. budgetPc' = [budgetPc EXCEPT ![r] = to] /\ budgetReq' = [budgetReq EXCEPT ![r] = request]
  BY <1>3 DEF Budget!Go
<1>7. Informed(r)'
  BY <1>1, <1>2, <1>3, <1>4, <1>5, <1>6
     DEF Informed, Updating, AllocatesRead, Budget!Gives, Budget!Looked
<1>8. RowLock' /\ budgetLock' \in Requests \cup {None}
  <2>1. ASSUME NEW q \in Requests, q # r
        PROVE  Updating(q)' = Updating(q) /\ budgetReq'[q] = budgetReq[q]
    BY <1>1, <1>6, <2>1 DEF Updating
  <2>2. Updating(r)' /\ ~Updating(r) /\ budgetReq'[r].body = body
    BY <1>1, <1>3, <1>4, <1>6 DEF Updating
  <2>3. CASE Budget!UpdateRow(r)
    <3>1. budgetLock = None /\ budgetLock' = r /\ DOMAIN body # {"category"}
      BY <2>3 DEF Budget!UpdateRow
    <3> QED BY <2>1, <2>2, <3>1, NoneAssumption DEF RowLock, BudgetInv
  <2>4. CASE Budget!ReadRow(r)
    <3>1. budgetLock' = budgetLock /\ DOMAIN body = {"category"}
      BY <2>4 DEF Budget!ReadRow
    <3> QED BY <2>1, <2>2, <3>1 DEF RowLock, BudgetInv, Budget!TypeOK
  <2> QED BY <2>3, <2>4
<1> QED BY <1>1, <1>3, <1>4, <1>5, <1>7, <1>8, BudgetStatement

\* A statement on the allocations keeps the locks; what it is about has been looked for.
LEMMA BudgetAllocates ==
  ASSUME BudgetInv, NEW r \in Requests,
         \/ Budget!Look(r, "look", "amounts") \/ Budget!Look(r, "find", "remove")
         \/ Budget!SetAmounts(r) \/ Budget!Remove(r) \/ Budget!Insert(r)
  PROVE  BudgetInv'
<1> USE DEF Budget!Gives
<1> DEFINE body == budgetReq[r].body
           all  == Budget!CategoriesOf(allocation)
<1>1. /\ budgetReq[r] \in BudgetRequest /\ body \in Budget!Bodies /\ Informed(r)
      /\ budgetPc \in [Requests -> {"idle", "update", "look", "amounts", "find", "remove", "insert", "commit"}]
      /\ budgetReq \in [Requests -> BudgetRequest \cup {None}]
      /\ all \subseteq Categories
  <2>1. budgetPc[r] # "idle"
    BY DEF Budget!Look, Budget!SetAmounts, Budget!Remove, Budget!Insert
  <2> QED BY <2>1 DEF BudgetInv, Budget!TypeOK, Informed, BudgetRequest, Budget!CategoriesOf
<1>2. /\ Updating(r) /\ budgetPc[r] # "idle"
      /\ UNCHANGED <<budget, allocation, budgetLock, budgetRaced>>
  BY DEF Updating, Budget!Look, Budget!SetAmounts, Budget!Remove, Budget!Insert
<1>3. ASSUME NEW to \in {"amounts", "find", "remove", "insert", "commit"}, NEW request \in BudgetRequest,
             Budget!Go(r, to, request), request.body = body, Informed(r)'
      PROVE  BudgetInv'
  <2>1. budgetPc' = [budgetPc EXCEPT ![r] = to] /\ budgetReq' = [budgetReq EXCEPT ![r] = request]
    BY <1>3 DEF Budget!Go
  <2>2. \A q \in Requests : Updating(q)' = Updating(q) /\ budgetReq'[q].body = budgetReq[q].body
    BY <1>1, <1>2, <1>3, <2>1 DEF Updating
  <2>3. RowLock' /\ budgetLock' \in Requests \cup {None}
    BY <1>2, <2>2 DEF RowLock, BudgetInv, Budget!TypeOK
  <2> QED BY <1>2, <1>3, <2>3, BudgetStatement
<1>4. ASSUME NEW from, NEW to \in {"amounts", "remove"}, Budget!Look(r, from, to),
             <<from, to>> \in {<<"look", "amounts">>, <<"find", "remove">>}
      PROVE  BudgetInv'
  <2> DEFINE request == [budgetReq[r] EXCEPT !.seen = all]
  <2>1. Budget!Go(r, to, request) /\ budgetPc[r] = from
    BY <1>4 DEF Budget!Look
  <2>2. /\ request \in BudgetRequest /\ request.body = body /\ request.amount = budgetReq[r].amount
        /\ request.seen = all /\ request.added = budgetReq[r].added /\ request.stale = budgetReq[r].stale
    BY <1>1 DEF BudgetRequest
  <2> HIDE DEF request
  <2>3. budgetPc'[r] = to /\ budgetReq'[r] = request
    BY <1>1, <2>1 DEF Budget!Go
  <2>4. Informed(r)'
    BY <1>1, <1>2, <1>4, <2>1, <2>2, <2>3
       DEF Informed, Updating, AllocatesRead, LookedFor, Budget!Looked
  <2> QED BY <1>3, <2>1, <2>2, <2>4
<1>5. CASE Budget!SetAmounts(r)
  <2> DEFINE to      == Budget!AfterAmounts(r)
             request == [budgetReq[r] EXCEPT !.changed = budgetReq[r].seen, !.seen = {}]
  <2>1. Budget!Go(r, to, request) /\ budgetPc[r] = "amounts"
    BY <1>5 DEF Budget!SetAmounts
  <2>2. to = IF "category" \in DOMAIN body THEN "find" ELSE "commit"
    BY DEF Budget!AfterAmounts
  <2>3. /\ request \in BudgetRequest /\ request.body = body /\ request.amount = budgetReq[r].amount
        /\ request.changed = budgetReq[r].seen /\ request.added = budgetReq[r].added
        /\ request.stale = budgetReq[r].stale
    BY <1>1 DEF BudgetRequest
  <2> HIDE DEF request, to
  <2>4. budgetPc'[r] = to /\ budgetReq'[r] = request
    BY <1>1, <2>1 DEF Budget!Go
  <2>5. Informed(r)'
    BY <1>1, <1>2, <2>1, <2>2, <2>3, <2>4
       DEF Informed, Updating, AllocatesRead, LookedFor, Budget!Looked
  <2> QED BY <1>3, <2>1, <2>2, <2>3, <2>5
<1>6. CASE Budget!Remove(r)
  <2> DEFINE to      == IF body.category = None THEN "commit" ELSE "insert"
             request == [budgetReq[r] EXCEPT !.removed = budgetReq[r].seen, !.seen = {}]
  <2>1. Budget!Go(r, to, request) /\ budgetPc[r] = "remove"
    BY <1>6 DEF Budget!Remove
  <2>2. /\ request \in BudgetRequest /\ request.body = body /\ request.amount = budgetReq[r].amount
        /\ request.removed = budgetReq[r].seen /\ request.added = budgetReq[r].added
        /\ request.stale = budgetReq[r].stale
    BY <1>1 DEF BudgetRequest
  <2> HIDE DEF request
  <2>3. budgetPc'[r] = to /\ budgetReq'[r] = request
    BY <1>1, <2>1 DEF Budget!Go
  <2>4. Informed(r)'
    BY <1>1, <1>2, <2>1, <2>2, <2>3
       DEF Informed, Updating, AllocatesRead, LookedFor, Budget!Looked
  <2> QED BY <1>3, <2>1, <2>2, <2>4
<1>7. CASE Budget!Insert(r)
  <2> DEFINE request == [budgetReq[r] EXCEPT !.added = body.category]
  <2>1. Budget!Go(r, "commit", request) /\ budgetPc[r] = "insert"
    BY <1>7 DEF Budget!Insert
  <2>2. body.category \in Categories \cup {None}
    BY <1>1, <2>1, BudgetBodies DEF Informed
  <2>3. /\ request \in BudgetRequest /\ request.body = body /\ request.amount = budgetReq[r].amount
        /\ request.removed = budgetReq[r].removed /\ request.added = body.category
        /\ request.stale = budgetReq[r].stale
    BY <1>1, <2>2 DEF BudgetRequest
  <2> HIDE DEF request
  <2>4. budgetPc'[r] = "commit" /\ budgetReq'[r] = request
    BY <1>1, <2>1 DEF Budget!Go
  <2>5. Informed(r)'
    BY <1>1, <1>2, <2>1, <2>3, <2>4
       DEF Informed, Updating, AllocatesRead, LookedFor, Budget!Looked
  <2> QED BY <1>3, <2>1, <2>3, <2>5
<1> QED BY <1>4, <1>5, <1>6, <1>7

\* What has missed no commit and is committed is in full, whatever was there before, if it
\* gives a category, and if what was there was in full otherwise.
LEMMA BudgetWritesInFull ==
  ASSUME BudgetInv, NEW r \in Requests, Budget!Commit(r)
  PROVE  /\ budget' \in Amounts /\ allocation' \subseteq Allocation
         /\ budgetRaced' \in BOOLEAN
         /\ budgetRaced' \/ InFull(allocation', budget')
<1> DEFINE body == budgetReq[r].body
           n    == budgetReq[r].amount
           cs   == Budget!CategoriesOf(allocation)
           kept == {b \in allocation : b.category \notin budgetReq[r].removed}
           as(a) == IF a.category \in budgetReq[r].changed THEN [a EXCEPT !.amount = n] ELSE a
<1>1. /\ budgetPc[r] = "commit" /\ budget # None /\ Informed(r) /\ Updating(r)
      /\ budget' = IF Budget!Gives(r, "amount") THEN n ELSE budget
      /\ allocation' = {as(a) : a \in kept} \cup Budget!Allocated(budgetReq[r].added, n)
      /\ budgetRaced' = IF budgetReq[r].stale THEN TRUE ELSE budgetRaced /\ ~Budget!Gives(r, "category")
  BY DEF Budget!Commit, Budget!Written, BudgetInv, Updating
<1>2. /\ budgetReq[r] \in BudgetRequest /\ n \in Amounts /\ budget \in Amounts
      /\ allocation \subseteq Allocation /\ budgetRaced \in BOOLEAN
      /\ budgetReq[r].added \in Categories \cup {None}
  BY <1>1 DEF Informed, BudgetInv, Budget!TypeOK, BudgetRequest, Allocation
<1>3. \A a \in Allocation : as(a) \in Allocation /\ as(a).category = a.category
  BY <1>2 DEF Allocation
<1>4. \A a \in Allocation : a.category \in budgetReq[r].changed => as(a).amount = n
  BY <1>2 DEF Allocation
<1>5. \A a \in Allocation : a.category \notin budgetReq[r].changed => as(a) = a
  OBVIOUS
<1> HIDE DEF as
<1>6. Budget!Allocated(budgetReq[r].added, n) \subseteq Allocation /\ InFull(Budget!Allocated(budgetReq[r].added, n), n)
  BY <1>2, AllocatedInFull
<1>7. allocation' \subseteq Allocation
  BY <1>1, <1>2, <1>3, <1>6
<1>8. ASSUME ~budgetReq[r].stale, Budget!Gives(r, "category") PROVE InFull(allocation', budget')
  <2>1. cs \subseteq budgetReq[r].removed
    BY <1>1, <1>8 DEF Informed, LookedFor, Budget!Looked
  <2>2. allocation' = Budget!Allocated(body.category, n)
    <3>1. kept = {}
      BY <2>1 DEF Budget!CategoriesOf
    <3> QED BY <1>1, <1>8, <3>1 DEF Informed
  <2>3. CASE Budget!Gives(r, "amount")
    BY <1>1, <1>6, <1>8, <2>2, <2>3 DEF Informed
  <2>4. CASE ~Budget!Gives(r, "amount") /\ body.category = None
    BY <2>2, <2>4 DEF Budget!Allocated, InFull
  <2>5. CASE ~Budget!Gives(r, "amount") /\ body.category # None
    <3>1. n = budget
      BY <1>1, <1>8, <2>5 DEF Informed, AllocatesRead
    <3> QED BY <1>1, <1>6, <1>8, <2>2, <2>5, <3>1 DEF Informed
  <2> QED BY <2>3, <2>4, <2>5
<1>9. ASSUME ~budgetReq[r].stale, ~Budget!Gives(r, "category"), InFull(allocation, budget)
      PROVE  InFull(allocation', budget')
  <2>1. allocation' = {as(a) : a \in kept}
    BY <1>1, <1>9 DEF Informed, Budget!Allocated
  <2>2. budget' = n
    <3>1. CASE Budget!Gives(r, "amount")
      BY <1>1, <3>1
    <3>2. CASE ~Budget!Gives(r, "amount")
      <4>1. DOMAIN body # {"category"}
        BY <1>9 DEF Budget!Gives
      <4> QED BY <1>1, <1>9, <3>2, <4>1 DEF Informed, AllocatesRead
    <3> QED BY <3>1, <3>2
  <2>3. ASSUME NEW a \in kept PROVE as(a).amount = n
    <3>1. a \in Allocation /\ a.amount = budget
      BY <1>2, <1>9 DEF InFull
    <3>2. CASE a.category \in budgetReq[r].changed
      BY <1>4, <3>1, <3>2
    <3>3. CASE a.category \notin budgetReq[r].changed
      <4>1. CASE Budget!Gives(r, "amount")
        BY <1>1, <1>9, <3>3, <4>1 DEF Informed, LookedFor, Budget!Looked, Budget!CategoriesOf
      <4>2. CASE ~Budget!Gives(r, "amount")
        BY <1>1, <1>5, <2>2, <3>1, <3>3, <4>2
      <4> QED BY <4>1, <4>2
    <3> QED BY <3>2, <3>3
  <2>4. \A a, b \in kept : as(a) = as(b)
    BY <1>9 DEF InFull
  <2> QED BY <2>1, <2>2, <2>3, <2>4 DEF InFull
<1>10. budgetRaced' \/ InFull(allocation', budget')
  <2>1. ~budgetRaced' => ~budgetReq[r].stale
    BY <1>1
  <2>2. ~budgetRaced' /\ ~Budget!Gives(r, "category") => InFull(allocation, budget)
    BY <1>1, <1>2 DEF BudgetInv
  <2> QED BY <1>8, <1>9, <2>1, <2>2
<1> QED BY <1>1, <1>2, <1>7, <1>10

\* A commit leaves what the other requests know true of those that do not miss it.
LEMMA BudgetCommits ==
  ASSUME BudgetInv, NEW r \in Requests, Budget!Commit(r)
  PROVE  BudgetInv'
<1> DEFINE other(q) == [budgetReq[q] EXCEPT !.seen = @ \ budgetReq[r].removed,
                                            !.stale = @ \/ Budget!Misses(q, r)]
<1>1. /\ budgetPc[r] = "commit" /\ budget # None /\ Informed(r) /\ Updating(r)
      /\ budget' = IF Budget!Gives(r, "amount") THEN budgetReq[r].amount ELSE budget
      /\ allocation' = Budget!Written(r)
      /\ budgetLock' = IF budgetLock = r THEN None ELSE budgetLock
      /\ budgetPc' = [budgetPc EXCEPT ![r] = "idle"]
      /\ budgetReq' = [q \in Requests |-> IF q = r \/ budgetPc[q] = "idle" THEN None ELSE other(q)]
  BY DEF Budget!Commit, BudgetInv, Updating
<1>2. budgetPc \in [Requests -> {"idle", "update", "look", "amounts", "find", "remove", "insert", "commit"}]
  BY DEF BudgetInv, Budget!TypeOK
<1>3. ASSUME NEW q \in Requests, q # r, budgetPc[q] # "idle"
      PROVE  /\ budgetPc'[q] = budgetPc[q] /\ budgetReq'[q] = other(q) /\ other(q) \in BudgetRequest
             /\ other(q).body = budgetReq[q].body /\ other(q).amount = budgetReq[q].amount
             /\ other(q).seen = budgetReq[q].seen \ budgetReq[r].removed
             /\ other(q).changed = budgetReq[q].changed /\ other(q).removed = budgetReq[q].removed
             /\ other(q).added = budgetReq[q].added
             /\ other(q).stale = (budgetReq[q].stale \/ Budget!Misses(q, r))
  <2>1. budgetReq[q] \in BudgetRequest
    BY <1>3 DEF BudgetInv, Informed
  <2>2. Budget!Misses(q, r) \in BOOLEAN
    BY DEF Budget!Misses
  <2> QED BY <1>1, <1>2, <1>3, <2>1, <2>2 DEF BudgetRequest
<1> HIDE DEF other
<1>4. ASSUME NEW q \in Requests PROVE Informed(q)'
  <2>1. CASE q = r \/ budgetPc[q] = "idle"
    BY <1>1, <1>2, <2>1 DEF Informed, Updating, Budget!Looked
  <2>2. CASE q # r /\ budgetPc[q] # "idle"
    <3>1. /\ budgetPc'[q] = budgetPc[q] /\ budgetReq'[q] = other(q) /\ other(q) \in BudgetRequest
          /\ other(q).body = budgetReq[q].body /\ other(q).amount = budgetReq[q].amount
          /\ other(q).seen = budgetReq[q].seen \ budgetReq[r].removed
          /\ other(q).changed = budgetReq[q].changed /\ other(q).removed = budgetReq[q].removed
          /\ other(q).added = budgetReq[q].added
          /\ other(q).stale = (budgetReq[q].stale \/ Budget!Misses(q, r))
      BY <1>3, <2>2
    <3>2. Informed(q)
      BY DEF BudgetInv
    <3>3. /\ Updating(q)' = Updating(q) /\ Budget!Looked(q)' = Budget!Looked(q)
          /\ AllocatesRead(q)' = AllocatesRead(q)
          /\ Budget!Gives(q, "amount")' = Budget!Gives(q, "amount")
          /\ Budget!Gives(q, "category")' = Budget!Gives(q, "category")
      BY <3>1 DEF Updating, Budget!Looked, AllocatesRead, Budget!Gives
    <3>4. ASSUME Updating(q), budget' # None, ~other(q).stale, AllocatesRead(q)
          PROVE  other(q).amount = budget'
      <4>1. budgetReq[q].amount = budget /\ ~Budget!Misses(q, r)
        BY <1>1, <3>1, <3>2, <3>4 DEF Informed
      <4>2. CASE ~Budget!Gives(r, "amount")
        BY <1>1, <3>1, <4>1, <4>2
      <4>3. CASE Budget!Gives(r, "amount")
        <5>1. DOMAIN budgetReq[q].body # {"category"}
          BY <3>4, <4>1, <4>3 DEF Budget!Misses, AllocatesRead, Updating
        <5>2. DOMAIN budgetReq[r].body # {"category"}
          BY <4>3 DEF Budget!Gives
        <5>3. budgetLock = q /\ budgetLock = r
          BY <1>1, <3>4, <5>1, <5>2 DEF BudgetInv, RowLock
        <5> QED BY <2>2, <5>3
      <4> QED BY <4>2, <4>3
    <3>5. ASSUME Budget!Looked(q), ~other(q).stale
          PROVE  Budget!CategoriesOf(allocation') \subseteq LookedFor(q)'
      <4>1. /\ Budget!CategoriesOf(allocation) \subseteq LookedFor(q)
            /\ budgetReq[r].added = None
        BY <3>1, <3>2, <3>5 DEF Informed, Budget!Misses
      <4>2. ASSUME NEW a \in allocation'
            PROVE  a.category \in Budget!CategoriesOf(allocation) \ budgetReq[r].removed
        <5>1. PICK b \in allocation :
                /\ b.category \notin budgetReq[r].removed
                /\ a = IF b.category \in budgetReq[r].changed
                       THEN [b EXCEPT !.amount = budgetReq[r].amount] ELSE b
          BY <1>1, <4>1, <4>2 DEF Budget!Written, Budget!Allocated
        <5>2. b \in Allocation
          BY DEF BudgetInv, Budget!TypeOK, Allocation
        <5>3. a.category = b.category
          BY <5>1, <5>2 DEF Allocation
        <5> QED BY <5>1, <5>3 DEF Budget!CategoriesOf
      <4>3. LookedFor(q) \ budgetReq[r].removed \subseteq LookedFor(q)'
        BY <3>1, <3>3 DEF LookedFor
      <4> QED BY <4>1, <4>2, <4>3 DEF Budget!CategoriesOf
    <3> QED BY <3>1, <3>2, <3>3, <3>4, <3>5 DEF Informed, Budget!CategoriesOf
  <2> QED BY <2>1, <2>2
<1>5. RowLock'
  <2>1. ~Updating(r)'
    BY <1>1, <1>2 DEF Updating
  <2>2. ASSUME NEW q \in Requests, q # r
        PROVE  Updating(q)' = Updating(q) /\ (Updating(q) => budgetReq'[q].body = budgetReq[q].body)
    BY <1>1, <1>2, <1>3, <2>2 DEF Updating
  <2> QED BY <1>1, <2>1, <2>2, NoneAssumption DEF RowLock, BudgetInv
<1>6. Budget!TypeOK' /\ budgetReq' \in [Requests -> BudgetRequest \cup {None}]
  BY <1>1, <1>2, <1>3, BudgetWritesInFull DEF BudgetInv, Budget!TypeOK, Allocation
<1> QED BY <1>4, <1>5, <1>6, BudgetWritesInFull DEF BudgetInv

LEMMA BudgetStep == BudgetInv /\ [Budget!Next]_Budget!vars => BudgetInv'
<1> SUFFICES ASSUME BudgetInv, [Budget!Next]_Budget!vars PROVE BudgetInv' OBVIOUS
<1>0. /\ budgetPc \in [Requests -> {"idle", "update", "look", "amounts", "find", "remove", "insert", "commit"}]
      /\ budgetReq \in [Requests -> BudgetRequest \cup {None}]
  BY DEF BudgetInv, Budget!TypeOK
<1>1. ASSUME NEW amount_ \in Amounts, NEW c \in Categories \cup {None}, Budget!CreateBudget(amount_, c)
      PROVE  BudgetInv'
  <2>1. /\ budget' = amount_ /\ allocation' = Budget!Allocated(c, amount_)
        /\ budgetRaced' = FALSE /\ UNCHANGED <<budgetLock, budgetPc, budgetReq>>
        /\ \A r \in Requests : budgetPc[r] = "idle"
    BY <1>1 DEF Budget!CreateBudget
  <2>2. allocation' \subseteq Allocation /\ InFull(allocation, budget)'
    BY <2>1, AllocatedInFull DEF InFull
  <2>3. ASSUME NEW r \in Requests PROVE Informed(r)'
    BY <2>1 DEF Informed, Updating, Budget!Looked
  <2>4. RowLock'
    BY <2>1 DEF BudgetInv, RowLock, Updating
  <2> QED BY <2>1, <2>2, <2>3, <2>4 DEF BudgetInv, Budget!TypeOK, Allocation
<1>2. ASSUME NEW r \in Requests, NEW body \in Budget!Bodies, Budget!StartUpdate(r, body)
      PROVE  BudgetInv'
  <2> DEFINE request == [body |-> body, amount |-> None, seen |-> {}, changed |-> {}, removed |-> {},
                         added |-> None, stale |-> FALSE]
  <2>1. /\ budgetPc[r] = "idle" /\ request \in BudgetRequest /\ request.added = None
        /\ budgetPc' = [budgetPc EXCEPT ![r] = "update"]
        /\ budgetReq' = [budgetReq EXCEPT ![r] = request]
        /\ UNCHANGED <<budget, allocation, budgetLock, budgetRaced>>
    BY <1>2 DEF Budget!StartUpdate, Budget!Go, BudgetRequest
  <2> HIDE DEF request
  <2>2. ASSUME NEW q \in Requests PROVE Informed(q)'
    <3>1. CASE q = r
      BY <1>0, <2>1, <3>1 DEF Informed, Updating, Budget!Looked
    <3>2. CASE q # r
      <4>1. budgetPc'[q] = budgetPc[q] /\ budgetReq'[q] = budgetReq[q] /\ Informed(q)
        BY <1>0, <2>1, <3>2 DEF BudgetInv
      <4> QED
        BY <2>1, <4>1
           DEF Informed, Updating, AllocatesRead, LookedFor, Budget!Gives, Budget!Looked
    <3> QED BY <3>1, <3>2
  <2>3. RowLock'
    BY <1>0, <2>1 DEF BudgetInv, RowLock, Updating
  <2>4. (budgetRaced \/ InFull(allocation, budget))'
    BY <2>1 DEF BudgetInv, InFull
  <2> QED BY <1>0, <2>1, <2>2, <2>3, <2>4 DEF BudgetInv, Budget!TypeOK
<1>3. ASSUME NEW r \in Requests, Budget!Fail(r) PROVE BudgetInv'
  <2>1. /\ budgetPc' = [budgetPc EXCEPT ![r] = "idle"] /\ budgetReq' = [budgetReq EXCEPT ![r] = None]
        /\ budgetLock' = IF budgetLock = r THEN None ELSE budgetLock
        /\ UNCHANGED <<budget, allocation, budgetRaced>>
    BY <1>3 DEF Budget!Fail, Budget!Go
  <2>2. ASSUME NEW q \in Requests PROVE Informed(q)'
    <3>1. CASE q = r
      BY <1>0, <2>1, <3>1 DEF Informed, Updating, Budget!Looked
    <3>2. CASE q # r
      <4>1. budgetPc'[q] = budgetPc[q] /\ budgetReq'[q] = budgetReq[q] /\ Informed(q)
        BY <1>0, <2>1, <3>2 DEF BudgetInv
      <4> QED
        BY <2>1, <4>1
           DEF Informed, Updating, AllocatesRead, LookedFor, Budget!Gives, Budget!Looked
    <3> QED BY <3>1, <3>2
  <2>3. RowLock'
    BY <1>0, <2>1, NoneAssumption DEF BudgetInv, RowLock, Updating
  <2>4. (budgetRaced \/ InFull(allocation, budget))'
    BY <2>1 DEF BudgetInv, InFull
  <2> QED BY <1>0, <2>1, <2>2, <2>3, <2>4 DEF BudgetInv, Budget!TypeOK
<1>4. CASE Budget!DeleteBudget
  <2>1. /\ budget' = None /\ allocation' = {}
        /\ UNCHANGED <<budgetLock, budgetPc, budgetReq, budgetRaced>>
    BY <1>4 DEF Budget!DeleteBudget
  <2>2. ASSUME NEW r \in Requests PROVE Informed(r)'
    <3>1. Informed(r)
      BY DEF BudgetInv
    <3> QED
      BY <2>1, <3>1
         DEF Informed, Updating, AllocatesRead, LookedFor, Budget!Gives, Budget!Looked, Budget!CategoriesOf
  <2>3. RowLock'
    BY <2>1 DEF BudgetInv, RowLock, Updating
  <2> QED BY <1>0, <2>1, <2>2, <2>3 DEF BudgetInv, Budget!TypeOK, InFull
<1>5. CASE UNCHANGED Budget!vars
  <2>1. UNCHANGED <<budget, allocation, budgetLock, budgetPc, budgetReq, budgetRaced>>
    BY <1>5 DEF Budget!vars
  <2>2. ASSUME NEW r \in Requests PROVE Informed(r)'
    BY <2>1 DEF BudgetInv, Informed, Updating, AllocatesRead, LookedFor, Budget!Gives, Budget!Looked
  <2> QED BY <2>1, <2>2 DEF BudgetInv, Budget!TypeOK, RowLock, Updating, InFull
<1> QED
  BY <1>1, <1>2, <1>3, <1>4, <1>5, BudgetRowRead, BudgetAllocates, BudgetCommits DEF Budget!Next

\* A list of budgets and the page of one show the same spending: a category without
\* expenses adds 0.
LEMMA SameProgress ==
  ASSUME NEW spent \in [Categories -> Spending]
  PROVE  Budget!getBudgetProgress(spent) = Budget!computeProgressForBudgets(spent)
<1> DEFINE byCategory == [c \in {d \in Categories : spent[d] # 0} |-> spent[c]]
           lookedUp   == [c \in Categories |-> IF c \in DOMAIN byCategory THEN byCategory[c] ELSE 0]
<1>1. ASSUME NEW c \in Categories PROVE lookedUp[c] = spent[c]
  OBVIOUS
<1>2. lookedUp = spent
  <2>1. lookedUp = [c \in Categories |-> spent[c]]
    BY <1>1
  <2> QED BY <2>1
<1> QED BY <1>2 DEF Budget!getBudgetProgress, Budget!computeProgressForBudgets

-----------------------------------------------------------------------------
(* Assets, liabilities and snapshots.  WealthInv adds to OneMoment that    *)
(* the sums of a request are already those of a moment while it is summing *)
(* (SumsHeld), and that a capture about to commit holds the day, which has *)
(* no row (DayIsFree).                                                     *)

SumsHeld ==
  \A r \in Requests : wealthPc[r] \notin {"idle", "existing"} => sums[r] \in held[r]

DayIsFree ==
  \A r \in Requests : wealthPc[r] = "commit" =>
    inserting[captureDay[r]] = r /\ snapshot[captureDay[r]] = None

\* A capture that was refused finds the row it was refused for.
RowIsThere == \A r \in Requests : wealthPc[r] = "existing" => snapshot[captureDay[r]] # None

WealthTypes ==
  /\ Wealth!TypeOK
  /\ snapshot \in [Wealth!Day -> Totals \cup {None}]
  /\ sums = [r \in Requests |-> sums[r]]

WealthInv == WealthTypes /\ SumsHeld /\ DayIsFree /\ RowIsThere

LEMMA WealthInit == Wealth!Init => WealthInv
<1> SUFFICES ASSUME Wealth!Init PROVE WealthInv OBVIOUS
<1> USE NoneAssumption, MaxDayAssumption DEF Wealth!Init
<1>1. WealthTypes BY DEF WealthTypes, Wealth!TypeOK, Wealth!Day
<1>2. SumsHeld /\ DayIsFree /\ RowIsThere BY DEF SumsHeld, DayIsFree, RowIsThere
<1> QED BY <1>1, <1>2 DEF WealthInv

LEMMA WealthStep == WealthInv /\ [Wealth!Next]_Wealth!vars => WealthInv'
<1> SUFFICES ASSUME WealthInv, [Wealth!Next]_Wealth!vars PROVE WealthInv' OBVIOUS
<1> USE NoneAssumption DEF WealthInv, WealthTypes, Wealth!TypeOK, SumsHeld, DayIsFree, RowIsThere
<1>1. ASSUME NEW next \in Totals, Wealth!Change(next) PROVE WealthInv'
  BY <1>1 DEF Wealth!Change, Wealth!Summing
<1>2. ASSUME NEW r \in Requests, NEW purpose \in {"summary", "capture"}, Wealth!SumAssets(r, purpose)
      PROVE  WealthInv'
  <2>1. 0 \in Wealth!Day
    BY MaxDayAssumption DEF Wealth!Day
  <2> QED BY <1>2, <2>1 DEF Wealth!SumAssets
<1>3. ASSUME NEW r \in Requests, Wealth!SumLiabilities(r) PROVE WealthInv'
  BY <1>3 DEF Wealth!SumLiabilities, Wealth!Summing
<1>4. ASSUME NEW r \in Requests, Wealth!Insert(r) PROVE WealthInv'
  BY <1>4 DEF Wealth!Insert, Wealth!MayInsert
<1>5. ASSUME NEW r \in Requests, Wealth!Commit(r) PROVE WealthInv'
  BY <1>5 DEF Wealth!Commit
<1>6. ASSUME NEW r \in Requests, Wealth!FindExisting(r) PROVE WealthInv'
  BY <1>6, SMTT(30) DEF Wealth!FindExisting
<1>7. ASSUME NEW r \in Requests, Wealth!End(r) PROVE WealthInv'
  <2>1. 0 \in Wealth!Day
    BY MaxDayAssumption DEF Wealth!Day
  <2> QED BY <1>7, <2>1 DEF Wealth!End
<1>8. CASE Wealth!Midnight
  <2>1. wealthToday' \in Wealth!Day
    BY <1>8, MaxDayAssumption DEF Wealth!Midnight, Wealth!Day
  <2> QED BY <1>8, <2>1 DEF Wealth!Midnight
<1>9. CASE UNCHANGED Wealth!vars
  BY <1>9 DEF Wealth!vars
<1> QED BY <1>1, <1>2, <1>3, <1>4, <1>5, <1>6, <1>7, <1>8, <1>9 DEF Wealth!Next

-----------------------------------------------------------------------------
(* Reminders.  What a generation is to tell is what there was reason for   *)
(* from its start on.  NoticeInv follows that set: it is within what the   *)
(* row gives reason for now (Timely), what is found covers it (Covering),  *)
(* and what is inserted does.                                              *)

\* A row that reminders are about: only habits and budgets have no date.
NoticeTypes ==
  /\ noticeKind \in Notices!Kind
  /\ thing = [date |-> thing.date, status |-> thing.status, done |-> thing.done]
  /\ thing.date \in Notices!Day
  /\ noticeKind \in {"habit", "budget"} => thing.date = 0
  /\ noticePc \in [NoticeRequests -> {"idle", "collect", "habits", "completions", "insert", "done"}]
  /\ noticeToday \in Notices!Day
  /\ noticeDay \in [NoticeRequests -> Notices!Day]
  /\ found = [r \in NoticeRequests |-> found[r]]
  /\ throughout = [r \in NoticeRequests |-> throughout[r]]
  /\ deleted = [r \in NoticeRequests |-> deleted[r]]

Timely ==
  \A r \in NoticeRequests :
    /\ noticePc[r] # "idle" => throughout[r] \subseteq Notices!Reason(thing, noticeDay[r])
    /\ noticePc[r] \in {"habits", "completions"} => noticeKind = "habit"

Covering == \A r \in NoticeRequests : noticePc[r] = "insert" => throughout[r] \subseteq found[r]

NoticeInv == NoticeTypes /\ Timely /\ Covering /\ Notices!EveryOccasionIsTold

\* What is found of a row on a day is all that README.md promises: no window ends a day
\* too early, and nothing that is due is taken for something else.
LEMMA KeysCoverReason ==
  ASSUME NoticeTypes, NEW d \in Notices!Day
  PROVE  Notices!Reason(thing, d) \subseteq Notices!Keys(thing, d)
<1> USE WindowAssumption, MaxDayAssumption DEF NoticeTypes, Notices!Day
<1>1. CASE noticeKind = "bill"
  <2>1. CASE thing.date < d
    <3>1. ASSUME thing.status \in {"PENDING", "OVERDUE"}
          PROVE  <<thing.date, "overdue">> \in Notices!Keys(thing, d)
      <4>1. thing.date < d + UpcomingWindow + 1
        <5>1. thing.date \in Int /\ d \in Int OBVIOUS
        <5> HIDE DEF NoticeTypes
        <5> QED BY <2>1, <5>1
      <4>2. thing.status \in {thing.status} \cap {"PENDING", "OVERDUE"}
        BY <3>1
      <4> QED BY <1>1, <2>1, <4>1, <4>2 DEF Notices!Keys, Notices!BillKeys
    <3> QED BY <1>1, <2>1, <3>1 DEF Notices!Reason
  <2>2. CASE thing.date >= d
    <3>1. ASSUME thing.status # "CANCELLED", thing.date \in d..(d + UpcomingWindow)
          PROVE  Notices!Keys(thing, d) = {<<thing.date, "upcoming">>}
      BY <1>1, <2>2, <3>1 DEF Notices!Keys, Notices!BillKeys
    <3> QED BY <1>1, <2>2, <3>1 DEF Notices!Reason
  <2> QED BY <2>1, <2>2
<1>2. CASE noticeKind = "subscription"
  BY <1>2 DEF Notices!Reason, Notices!Keys, Notices!UpcomingKeys
<1>3. CASE noticeKind = "recurring"
  BY <1>3 DEF Notices!Reason, Notices!Keys, Notices!UpcomingKeys
<1>4. CASE noticeKind = "habit"
  BY <1>4 DEF Notices!Reason, Notices!Keys, Notices!HabitKeys
<1>5. CASE noticeKind = "budget"
  BY <1>5 DEF Notices!Reason, Notices!Keys, Notices!BudgetKeys
<1> QED BY <1>1, <1>2, <1>3, <1>4, <1>5 DEF Notices!Kind, Notices!StatusOf

LEMMA NoticeInit == Notices!Init => NoticeInv
<1> SUFFICES ASSUME Notices!Init PROVE NoticeInv OBVIOUS
<1>1. NoticeTypes BY MaxDayAssumption DEF Notices!Init, NoticeTypes, Notices!Day
<1>2. Timely /\ Covering /\ Notices!EveryOccasionIsTold
  BY DEF Notices!Init, Timely, Covering, Notices!EveryOccasionIsTold
<1> QED BY <1>1, <1>2 DEF NoticeInv

LEMMA NoticeStep == NoticeInv /\ [Notices!Next]_Notices!vars => NoticeInv'
<1> SUFFICES ASSUME NoticeInv, [Notices!Next]_Notices!vars PROVE NoticeInv' OBVIOUS
<1> USE DEF NoticeInv, Notices!rows
<1>0. 0 \in Notices!Day
  BY MaxDayAssumption DEF Notices!Day
<1>1. ASSUME NEW next \in [date : IF noticeKind \in {"habit", "budget"} THEN {0} ELSE Notices!Day,
                           status : Notices!StatusOf[noticeKind],
                           done : {thing.done} \cup (IF noticeKind = "habit"
                                    THEN {thing.done \cup {noticeToday}, thing.done \ {noticeToday}} ELSE {})],
             Notices!ChangeThing(next)
      PROVE  NoticeInv'
  <2>1. NoticeTypes'
    BY <1>0, <1>1 DEF Notices!ChangeThing, NoticeTypes
  <2>2. \A r \in NoticeRequests :
          throughout'[r] = throughout[r] \cap Notices!Reason(thing', noticeDay[r])
    BY <1>1 DEF Notices!ChangeThing, NoticeTypes
  <2>3. UNCHANGED <<noticeKind, notices, noticePc, noticeDay, found, deleted>>
    BY <1>1 DEF Notices!ChangeThing
  <2>4. \A r \in NoticeRequests : Notices!Reason(thing, noticeDay[r])' = Notices!Reason(thing', noticeDay[r])
    BY <2>3 DEF Notices!Reason
  <2> QED BY <2>1, <2>2, <2>3, <2>4 DEF Timely, Covering, Notices!EveryOccasionIsTold
<1>2. CASE Notices!Midnight
  <2>1. noticeToday' \in Notices!Day
    BY <1>2, MaxDayAssumption DEF Notices!Midnight, NoticeTypes, Notices!Day
  <2> QED BY <1>2, <2>1
      DEF Notices!Midnight, NoticeTypes, Timely, Covering, Notices!EveryOccasionIsTold, Notices!Reason
<1> SUFFICES ASSUME UNCHANGED <<noticeToday, noticeKind, thing>> PROVE NoticeInv'
  BY <1>1, <1>2 DEF Notices!Next, Notices!vars, Notices!StartGenerate, Notices!FindHabits,
        Notices!FindCompletions, Notices!Collect, Notices!InsertCandidates, Notices!End,
        Notices!MarkRead, Notices!DeleteNotice, Notices!MarkAllRead
<1>3. \A d : Notices!Reason(thing, d)' = Notices!Reason(thing, d)
  BY DEF Notices!Reason
<1>4. ASSUME NEW r \in NoticeRequests, Notices!StartGenerate(r) PROVE NoticeInv'
  BY <1>3, <1>4 DEF Notices!StartGenerate, NoticeTypes, Timely, Covering, Notices!EveryOccasionIsTold
<1>5. ASSUME NEW r \in NoticeRequests, Notices!FindHabits(r) PROVE NoticeInv'
  <2>1. thing.status # "ACTIVE" => throughout[r] = {}
    BY <1>5 DEF Notices!FindHabits, Timely, Notices!Reason
  <2> QED BY <1>3, <1>5, <2>1
      DEF Notices!FindHabits, NoticeTypes, Timely, Covering, Notices!EveryOccasionIsTold
<1>6. ASSUME NEW r \in NoticeRequests, Notices!FindCompletions(r) PROVE NoticeInv'
  <2>1. throughout[r] \subseteq Notices!HabitKeys([thing EXCEPT !.status = "ACTIVE"], noticeDay[r])
    BY <1>6 DEF Notices!FindCompletions, NoticeTypes, Timely, Notices!Reason, Notices!HabitKeys
  <2> QED BY <1>3, <1>6, <2>1
      DEF Notices!FindCompletions, NoticeTypes, Timely, Covering, Notices!EveryOccasionIsTold
<1>7. ASSUME NEW r \in NoticeRequests, Notices!Collect(r) PROVE NoticeInv'
  <2>1. noticeDay[r] \in Notices!Day
    BY DEF NoticeTypes
  <2>2. throughout[r] \subseteq Notices!Keys(thing, noticeDay[r])
    BY <1>7, <2>1, KeysCoverReason DEF Notices!Collect, Timely
  <2> QED BY <1>3, <1>7, <2>2
      DEF Notices!Collect, NoticeTypes, Timely, Covering, Notices!EveryOccasionIsTold
<1>8. ASSUME NEW r \in NoticeRequests, Notices!InsertCandidates(r) PROVE NoticeInv'
  <2>1. DOMAIN notices' = DOMAIN notices \cup found[r]
    BY <1>8 DEF Notices!InsertCandidates
  <2>2. NoticeTypes'
    BY <1>8 DEF Notices!InsertCandidates, NoticeTypes
  <2>3. Timely' /\ Covering'
    BY <1>3, <1>8 DEF Notices!InsertCandidates, NoticeTypes, Timely, Covering
  <2>4. Notices!EveryOccasionIsTold'
    BY <1>8, <2>1 DEF Notices!InsertCandidates, NoticeTypes, Covering, Notices!EveryOccasionIsTold
  <2> QED BY <2>2, <2>3, <2>4
<1>9. ASSUME NEW r \in NoticeRequests, Notices!End(r) PROVE NoticeInv'
  <2>1. NoticeTypes'
    BY <1>0, <1>9 DEF Notices!End, NoticeTypes
  <2>2. Timely' /\ Covering'
    BY <1>3, <1>9 DEF Notices!End, NoticeTypes, Timely, Covering
  <2>3. Notices!EveryOccasionIsTold'
    BY <1>9 DEF Notices!End, NoticeTypes, Notices!EveryOccasionIsTold
  <2> QED BY <2>1, <2>2, <2>3
<1>10. ASSUME NEW k \in Notices!Key, Notices!MarkRead(k) PROVE NoticeInv'
  BY <1>3, <1>10 DEF Notices!MarkRead, NoticeTypes, Timely, Covering, Notices!EveryOccasionIsTold
<1>11. ASSUME NEW k \in Notices!Key, Notices!DeleteNotice(k) PROVE NoticeInv'
  <2>1. DOMAIN notices' = DOMAIN notices \ {k}
    BY <1>11 DEF Notices!DeleteNotice, Notices!Restrict
  <2> QED BY <1>3, <1>11, <2>1
      DEF Notices!DeleteNotice, NoticeTypes, Timely, Covering, Notices!EveryOccasionIsTold
<1>12. CASE Notices!MarkAllRead
  BY <1>3, <1>12 DEF Notices!MarkAllRead, NoticeTypes, Timely, Covering, Notices!EveryOccasionIsTold
<1>13. CASE UNCHANGED Notices!vars
  BY <1>3, <1>13 DEF Notices!vars, NoticeTypes, Timely, Covering, Notices!EveryOccasionIsTold
<1> QED BY <1>1, <1>2, <1>4, <1>5, <1>6, <1>7, <1>8, <1>9, <1>10, <1>11, <1>12, <1>13
    DEF Notices!Next

-----------------------------------------------------------------------------
(* Categories.  TypesAgreeUnlessRaced is not inductive: a request writes   *)
(* what it checked against an earlier state.  Settled says what of such a  *)
(* check stays true: a category never changes its type, and an id is never *)
(* used again, so the type that was compared is that of the category for   *)
(* as long as there is one.  CatPending has what each request is about to  *)
(* write, References the foreign keys.  Recalls follows a choice that is   *)
(* to be remembered: unless the request is disturbed, its category and the *)
(* rule it found are there.                                                *)

Settled(id, type) ==
  /\ id \in Cats!EveryId /\ (id \in Own => category[id] # None)
  /\ id \in Cats!CategoryIds => Cats!TypeOf(id) = type

Recalling  == {"find", "insert", "refind", "repoint", "error"}
Statements == {"idle", "category", "deleteCategory", "create", "patch", "rule"} \cup Recalling

CatTables ==
  /\ category \in [Own -> {None, Deleted} \cup Cats!CategoryRow]
  /\ tx \in [Transactions -> {None, Deleted} \cup Cats!TransactionRow]
  /\ rule \in [RuleIds -> {None, Deleted} \cup Cats!RuleRow]
  /\ raced \subseteq Transactions /\ disturbed \subseteq Requests
  /\ catPc \in [Requests -> Statements] /\ catReq = [r \in Requests |-> catReq[r]]

References ==
  /\ \A t \in Cats!Rows : tx[t].category \in Cats!CategoryIds
  /\ \A u \in Cats!Rules : rule[u].category \in Cats!CategoryIds /\ rule[u].key # Cats!Nothing

\* What the body of a request about a rule makes of a row.
Edits(body) ==
  /\ body.key \in Taught
  /\ \A row \in Cats!RuleRow :
       /\ Cats!With(row, body) \in Cats!RuleRow /\ Cats!With(row, body).key = body.key
       /\ Cats!With(row, body).category = IF "category" \in DOMAIN body THEN body.category ELSE row.category

AsRead(request, t) == Cats!With(request.read[t], request.body)

CatPending(r) ==
  LET request == catReq[r] IN
  /\ catPc[r] = "category" =>
       /\ request.id \in Own /\ request.row \in Cats!CategoryRow
       /\ ~request.new => Settled(request.id, request.row.type)
  /\ catPc[r] = "create" =>
       /\ request.tx \in Transactions /\ request.row \in Cats!TransactionRow
       /\ request.category = request.row.category /\ Settled(request.row.category, request.row.type)
  /\ catPc[r] = "patch" =>
       /\ request.ts \subseteq Transactions /\ request.body \in Patches
       /\ \A t \in request.ts : request.read[t] \in Cats!TransactionRow
       /\ DOMAIN request.body # {"source"} =>
            \A t \in request.ts : Settled(AsRead(request, t).category, AsRead(request, t).type)
       /\ "category" \in DOMAIN request
       /\ "keys" \in DOMAIN request => request \in Choice
  /\ catPc[r] \in Recalling => request \in Choice /\ request.keys # {}
  /\ catPc[r] = "repoint" => request.found \in RuleIds
  /\ catPc[r] = "rule" =>
       /\ request.id \in RuleIds /\ Edits(request.body)
       /\ request.new => request.body \in Cats!RuleRow

Recalls(r) ==
  LET request == catReq[r] IN
  r \notin disturbed =>
    /\ catPc[r] \in {"patch"} \cup Recalling => request.category \in Cats!CategoryIds
    /\ catPc[r] = "repoint" => request.found \in Cats!Rules /\ rule[request.found].key \in request.keys
    /\ catPc[r] = "refind" => \E u \in Cats!Rules : rule[u].key = Cats!Key(r)
    /\ catPc[r] # "error"

CatInv == /\ CatTables /\ References /\ Cats!TypesAgreeUnlessRaced
          /\ \A r \in Requests : CatPending(r) /\ Recalls(r)

\* The categories a tier finds are among those it is given, and of the type.
LEMMA TiersAreTyped ==
  ASSUME NEW categories, NEW type
  PROVE  LET typed == {c \in categories : c.type = type} IN
         /\ \A id : Cats!usableById(categories, id, type) \subseteq typed
         /\ \A name : Cats!usableByName(categories, name, type) \subseteq typed
<1>1. \A name : Cats!byName(categories, name) \subseteq categories
  BY DEF Cats!byName
<1> QED
  BY <1>1 DEF Cats!usableById, Cats!usableByName

\* A nonempty set of numbers up to seven has a least one.
LEMMA LeastOfSeven ==
  ASSUME NEW s \in SUBSET (1..7), s # {}
  PROVE  Cats!Min(s) \in s
<1>1. \E x \in s : \A y \in s : x =< y
  <2>1. CASE 1 \in s BY <2>1
  <2>2. CASE 1 \notin s /\ 2 \in s BY <2>2
  <2>3. CASE 1 \notin s /\ 2 \notin s /\ 3 \in s BY <2>3
  <2>4. CASE 1 \notin s /\ 2 \notin s /\ 3 \notin s /\ 4 \in s BY <2>4
  <2>5. CASE 1 \notin s /\ 2 \notin s /\ 3 \notin s /\ 4 \notin s /\ 5 \in s BY <2>5
  <2>6. CASE 1 \notin s /\ 2 \notin s /\ 3 \notin s /\ 4 \notin s /\ 5 \notin s /\ 6 \in s BY <2>6
  <2>7. CASE 1 \notin s /\ 2 \notin s /\ 3 \notin s /\ 4 \notin s /\ 5 \notin s /\ 6 \notin s
    <3>1. PICK x : x \in s OBVIOUS
    <3>2. \A y \in s : y = 7 BY <2>7
    <3>3. \A y \in s : x =< y BY <3>1, <3>2
    <3> QED BY <3>1, <3>3
  <2> QED BY <2>1, <2>2, <2>3, <2>4, <2>5, <2>6, <2>7
<1> QED
  BY <1>1 DEF Cats!Min

\* What the engine finds is one of the categories it is given, of the type of its input.
LEMMA CategorizeIsTyped ==
  ASSUME NEW categories, NEW known, NEW input,
         Cats!categorize(categories, known, input).category # "none"
  PROVE  \E c \in categories : /\ c.id = Cats!categorize(categories, known, input).category
                               /\ c.type = input.type
<1> DEFINE typed == {c \in categories : c.type = input.type}
           chosen == IF input.chosen THEN Cats!usableById(categories, input.existing, input.type) ELSE {}
           taught == Cats!FromUserRules(categories, known, input)
           named == Cats!FromTable(categories, MerchantRules, Cats!normalizeMerchant(input.merchant), input.type)
           paid == Cats!FromChannels(categories, input.channels, input.type)
           described == Cats!FromTable(categories, DescriptionRules, input.description, input.type)
           present == IF input.chosen THEN {} ELSE Cats!usableById(categories, input.existing, input.type)
           default == Cats!usableByName(categories, DefaultName[input.type], input.type)
           tiers == << <<"MANUAL", chosen>>, <<"USER_RULE", taught>>, <<"MERCHANT_RULE", named>>,
                       <<"PAYMENT_CHANNEL_RULE", paid>>, <<"DESCRIPTION_RULE", described>>,
                       <<"EXISTING_CATEGORY", present>>, <<"DEFAULT_CATEGORY", default>> >>
           hits == {i \in 1..Len(tiers) : tiers[i][2] # {}}
           first == IF hits # {} THEN Cats!Min(hits) ELSE 0
<1>1. chosen \subseteq typed /\ present \subseteq typed /\ default \subseteq typed
  BY TiersAreTyped
<1>2. (\A id : Cats!usableById(categories, id, input.type) \subseteq typed)
      /\ \A name : Cats!usableByName(categories, name, input.type) \subseteq typed
  BY TiersAreTyped
<1>3. taught = {} \/ \E id : taught = Cats!usableById(categories, id, input.type)
  BY Zenon DEF Cats!FromUserRules
<1>4. \A rules_, text : LET s == Cats!FromTable(categories, rules_, text, input.type) IN
        s = {} \/ \E name : s = Cats!usableByName(categories, name, input.type)
  BY Zenon DEF Cats!FromTable
<1>4a. paid = {} \/ \E name : paid = Cats!usableByName(categories, name, input.type)
  BY Zenon DEF Cats!FromChannels
<1>4b. taught \subseteq typed /\ named \subseteq typed /\ described \subseteq typed /\ paid \subseteq typed
  BY <1>2, <1>3, <1>4, <1>4a
<1>5. Cats!categorize(categories, known, input) =
        IF first = 0 THEN Cats!None_ ELSE Cats!Outcome((CHOOSE c \in tiers[first][2] : TRUE).id, tiers[first][1])
  BY Zenon DEF Cats!categorize, Cats!SelectInSeq
<1> HIDE DEF chosen, taught, named, paid, described, present, default
<1>6. Len(tiers) = 7 /\ \A i \in 1..7 : tiers[i][2] \subseteq typed
  BY <1>1, <1>4b
<1> HIDE DEF tiers
<1>7. first = 0 \/ (first \in 1..7 /\ tiers[first][2] # {})
  BY <1>6, LeastOfSeven
<1> HIDE DEF hits, first
<1>8. first # 0
  BY <1>5 DEF Cats!None_
<1> DEFINE c == CHOOSE d \in tiers[first][2] : TRUE
<1>9. c \in typed
  <2>1. c \in tiers[first][2]
    BY <1>7, <1>8
  <2> QED
    BY <1>6, <1>7, <1>8, <2>1
<1>10. Cats!categorize(categories, known, input).category = c.id
  BY <1>5, <1>8 DEF Cats!Outcome
<1> HIDE DEF c
<1> QED
  BY <1>9, <1>10

\* A usable category is settled.
LEMMA UsableIsSettled ==
  ASSUME CatTables, NEW c \in Cats!Usable
  PROVE  c.id \in Cats!CategoryIds /\ Settled(c.id, c.type)
<1>1. CASE c \in System
  BY <1>1, CategoryAssumption DEF Settled, Cats!CategoryIds, Cats!EveryId, Cats!TypeOf
<1>2. CASE \E o \in Cats!Created : c = [id |-> o, name |-> category[o].name, type |-> category[o].type, own |-> TRUE]
  BY <1>2 DEF Settled, Cats!CategoryIds, Cats!EveryId, Cats!TypeOf, Cats!Created, Cats!Row
<1> QED
  BY <1>1, <1>2 DEF Cats!Usable

\* A category keeps its type while it exists, and its id for ever.
Stable ==
  \A o \in Own : category[o] # None =>
    category'[o] # None /\ (o \in Cats!Created' => o \in Cats!Created /\ category'[o].type = category[o].type)

LEMMA SettledStays ==
  ASSUME Stable, NEW id, NEW type, Settled(id, type)
  PROVE  Settled(id, type)'
<1>1. CASE id \in Own
  <2>1. id \in Cats!CategoryIds' => id \in Cats!Created'
    BY <1>1, CategoryAssumption DEF Cats!CategoryIds
  <2>2. category[id] # None
    BY <1>1 DEF Settled
  <2>3. id \in Cats!Created => category[id].type = type
    BY <1>1 DEF Settled, Cats!CategoryIds, Cats!TypeOf
  <2> QED
    BY <1>1, <2>1, <2>2, <2>3 DEF Stable, Settled, Cats!TypeOf
<1>2. CASE id \notin Own
  BY <1>2 DEF Settled, Cats!CategoryIds, Cats!Created, Cats!TypeOf
<1> QED
  BY <1>1, <1>2

\* The category of a row that is not raced is settled.
LEMMA RowsAreSettled ==
  ASSUME CatTables, References, Cats!TypesAgreeUnlessRaced, NEW t \in Cats!Rows, t \notin raced
  PROVE  Settled(tx[t].category, tx[t].type)
<1>1. tx[t].category \in Cats!CategoryIds /\ Cats!TypeOf(tx[t].category) = tx[t].type
  BY DEF References, Cats!TypesAgreeUnlessRaced
<1>2. tx[t].category \in Own => tx[t].category \in Cats!Created
  BY <1>1, CategoryAssumption DEF Cats!CategoryIds
<1> QED
  BY <1>1, <1>2 DEF Settled, Cats!CategoryIds, Cats!EveryId, Cats!Created, Cats!Row

\* Rows that no change reaches agree as before.
LEMMA AgreementStays ==
  ASSUME CatTables, References, Cats!TypesAgreeUnlessRaced, Stable, References', raced \subseteq raced',
         \A t \in Cats!Rows' : t \in Cats!Rows /\ tx'[t] = tx[t]
  PROVE  Cats!TypesAgreeUnlessRaced'
<1> SUFFICES ASSUME NEW t \in Cats!Rows', t \notin raced'
             PROVE  Cats!TypeOf(tx[t].category)' = tx'[t].type
  BY DEF Cats!TypesAgreeUnlessRaced
<1>1. t \in Cats!Rows /\ t \notin raced /\ tx'[t] = tx[t]
  OBVIOUS
<1>2. Settled(tx[t].category, tx[t].type)
  BY <1>1, RowsAreSettled
<1>3. Settled(tx[t].category, tx[t].type)'
  <2> DEFINE id == tx[t].category
             type == tx[t].type
  <2>1. Stable /\ \A i, y : Settled(i, y) => Settled(i, y)'
    BY SettledStays
  <2> QED
    BY <1>1, <1>2, <2>1 DEF Settled
<1> QED
  BY <1>1, <1>3 DEF References, Settled

\* Only r moves, and whoever loses the category or the rule of a choice is disturbed.
OnlyMoves(r) == \A q \in Requests \ {r} : catPc'[q] = catPc[q] /\ catReq'[q] = catReq[q]

Told(r) ==
  \A q \in Requests \ {r} :
    /\ q \in disturbed => q \in disturbed'
    /\ catPc[q] # "idle" /\ "category" \in DOMAIN catReq[q] /\ catReq[q].category \in Cats!CategoryIds =>
         catReq[q].category \in Cats!CategoryIds' \/ q \in disturbed'
    /\ \A u \in Cats!Rules :
         catPc[q] # "idle" /\ "keys" \in DOMAIN catReq[q] /\ rule[u].key \in catReq[q].keys =>
           (u \in Cats!Rules' /\ rule'[u].key = rule[u].key) \/ q \in disturbed'

LEMMA OthersGoOn ==
  ASSUME CatInv, NEW r, OnlyMoves(r), Stable, Told(r)
  PROVE  \A q \in Requests \ {r} : CatPending(q)' /\ Recalls(q)'
<1> SUFFICES ASSUME NEW q \in Requests, q # r
             PROVE  CatPending(q)' /\ Recalls(q)'
  OBVIOUS
<1>1. CatPending(q) /\ Recalls(q) /\ catPc'[q] = catPc[q] /\ catReq'[q] = catReq[q]
  BY DEF CatInv, OnlyMoves
<1>2. \A id, type : Settled(id, type) => Settled(id, type)'
  BY SettledStays
<1>3. CatPending(q)'
  <2>1. \A t : AsRead(catReq[q], t)' = AsRead(catReq[q], t)
    BY <1>1 DEF AsRead, Cats!With
  <2> QED
    BY <1>1, <1>2, <2>1 DEF CatPending
<1>4. Recalls(q)'
  <2> SUFFICES ASSUME q \notin disturbed' PROVE Recalls(q)'
    BY DEF Recalls
  <2>1. q \notin disturbed
    BY DEF Told
  <2>2. catPc[q] \in {"patch"} \cup Recalling => catReq[q].category \in Cats!CategoryIds'
    <3> HAVE catPc[q] \in {"patch"} \cup Recalling
    <3>1. "category" \in DOMAIN catReq[q]
      BY <1>1 DEF CatPending, Choice
    <3> QED
      BY <1>1, <2>1, <3>1 DEF Told, Recalls, Recalling
  <2>3. catPc[q] \in Recalling => "keys" \in DOMAIN catReq[q] /\ Cats!Key(q) \in catReq[q].keys
    BY <1>1 DEF CatPending, Choice, Cats!Key
  <2>4. catPc[q] = "repoint" => catReq[q].found \in Cats!Rules' /\ rule'[catReq[q].found].key \in catReq[q].keys
    BY <1>1, <2>1, <2>3 DEF Told, Recalls, Recalling
  <2>5. catPc[q] = "refind" => \E u \in Cats!Rules' : rule'[u].key = Cats!Key(q)
    BY <1>1, <2>1, <2>3 DEF Told, Recalls, Recalling
  <2>6. Cats!Key(q)' = Cats!Key(q)
    BY <1>1 DEF Cats!Key
  <2> QED
    BY <1>1, <2>1, <2>2, <2>4, <2>5, <2>6 DEF Recalls
<1> QED
  BY <1>3, <1>4

LEMMA CatAssembled ==
  ASSUME CatInv, NEW r, OnlyMoves(r), Stable, Told(r), CatTables', References', Cats!TypesAgreeUnlessRaced',
         r \in Requests => CatPending(r)' /\ Recalls(r)'
  PROVE  CatInv'
BY OthersGoOn DEF CatInv

\* A request that ends, or has nothing to write.
LEMMA IdleIsFine ==
  ASSUME NEW r \in Requests, catPc'[r] = "idle"
  PROVE  CatPending(r)' /\ Recalls(r)'
BY DEF CatPending, Recalls, Recalling

\* What a statement does to one request.
LEMMA Goes ==
  ASSUME CatTables, NEW r \in Requests, NEW statement \in Statements, NEW request, Cats!Go(r, statement, request)
  PROVE  /\ OnlyMoves(r) /\ catPc'[r] = statement /\ catReq'[r] = request
         /\ catPc' \in [Requests -> Statements] /\ catReq' = [q \in Requests |-> catReq'[q]]
BY DEF CatTables, Cats!Go, OnlyMoves

\* Nothing is lost when categories and rules are as they were.
LEMMA NothingIsLost ==
  ASSUME NEW r, UNCHANGED <<category, rule>>, disturbed \ {r} \subseteq disturbed'
  PROVE  Stable /\ Told(r)
BY DEF Stable, Told, Cats!Created, Cats!Rules, Cats!CategoryIds, Cats!Row

\* A request begins.
LEMMA BeginKeeps ==
  ASSUME CatInv, NEW r \in Requests, NEW statement \in Statements, NEW request, Cats!Begin(r, statement, request),
         catPc'[r] = statement /\ catReq'[r] = request => CatPending(r)' /\ Recalls(r)'
  PROVE  CatInv'
<1>1. /\ OnlyMoves(r) /\ catPc'[r] = statement /\ catReq'[r] = request
      /\ catPc' \in [Requests -> Statements] /\ catReq' = [q \in Requests |-> catReq'[q]]
  BY Goes DEF CatInv, Cats!Begin
<1>2. UNCHANGED <<category, tx, rule, raced, disturbed>>
  BY DEF Cats!Begin, Cats!history
<1>3. Stable /\ Told(r)
  BY <1>2, NothingIsLost
<1>4. CatTables'
  BY <1>1, <1>2 DEF CatInv, CatTables
<1>5. References' /\ Cats!TypesAgreeUnlessRaced'
  BY <1>2 DEF CatInv, References, Cats!TypesAgreeUnlessRaced, Cats!Rows, Cats!Rules, Cats!Row, Cats!CategoryIds,
              Cats!Created, Cats!TypeOf
<1> QED
  BY <1>1, <1>3, <1>4, <1>5, CatAssembled

LEMMA StartCategoryKeeps ==
  ASSUME CatInv, NEW r \in Requests, NEW o \in Own, NEW name \in Names, NEW type \in Cats!Type,
         Cats!StartCategory(r, o, name, type)
  PROVE  CatInv'
<1> DEFINE request == [id |-> o, row |-> [name |-> name, type |-> type], new |-> category[o] = None]
<1>1. Cats!Begin(r, "category", request) /\ (Cats!Row(category[o]) => category[o].type = type)
  BY DEF Cats!StartCategory
<1>2. UNCHANGED category
  BY <1>1 DEF Cats!Begin
<1>3. request.row \in Cats!CategoryRow
  BY DEF Cats!CategoryRow
<1>4. ~request.new => Settled(o, type)'
  BY <1>1, <1>2, CategoryAssumption
     DEF Settled, Cats!EveryId, Cats!CategoryIds, Cats!Created, Cats!TypeOf
<1>5. catPc'[r] = "category" /\ catReq'[r] = request => CatPending(r)' /\ Recalls(r)'
  BY <1>3, <1>4 DEF CatPending, Recalls, Recalling
<1> QED
  BY <1>1, <1>5, BeginKeeps DEF Statements

\* The type of what is created is that of its category: the user's is checked, the engine
\* finds no other.
LEMMA StartCreateKeeps ==
  ASSUME CatInv, NEW r \in Requests, NEW t \in Transactions, NEW type \in Cats!Type, NEW id \in Cats!CategoryIds,
         NEW source \in {"MANUAL", "IMPORTED"}, Cats!StartCreate(r, t, type, id, source)
  PROVE  CatInv'
<1> DEFINE request == [tx |-> t, category |-> id, row |-> [type |-> type, category |-> id, source |-> source]]
<1>1. Cats!Begin(r, "create", request)
  BY DEF Cats!StartCreate
<1>2. Settled(id, type)
  <2>1. CASE source = "MANUAL"
    <3>1. Cats!TypeOf(id) = type
      BY <2>1 DEF Cats!StartCreate
    <3>2. id \in Own => id \in Cats!Created
      BY CategoryAssumption DEF Cats!CategoryIds
    <3> QED
      BY <3>1, <3>2 DEF Settled, Cats!CategoryIds, Cats!EveryId, Cats!Created, Cats!Row
  <2>2. CASE source # "MANUAL"
    <3>1. PICK order : id = Cats!categorize(Cats!Usable, order, Cats!Input(t, type)).category
      BY <2>2 DEF Cats!StartCreate
    <3>2. id # "none"
      BY CategoryAssumption DEF Cats!CategoryIds, Cats!Created
    <3>3. PICK c \in Cats!Usable : c.id = id /\ c.type = Cats!Input(t, type).type
      BY <3>1, <3>2, CategorizeIsTyped
    <3>4. Cats!Input(t, type).type = type
      BY DEF Cats!Input
    <3> QED
      BY <3>3, <3>4, UsableIsSettled DEF CatInv
  <2> QED
    BY <2>1, <2>2
<1>3. UNCHANGED category
  BY <1>1 DEF Cats!Begin
<1>4. Settled(id, type)'
  BY <1>2, <1>3 DEF Settled, Cats!CategoryIds, Cats!Created, Cats!TypeOf
<1>5. request.row \in Cats!TransactionRow
  BY <1>2 DEF Cats!TransactionRow, Settled
<1>6. catPc'[r] = "create" /\ catReq'[r] = request => CatPending(r)' /\ Recalls(r)'
  BY <1>4, <1>5 DEF CatPending, Recalls, Recalling
<1> QED
  BY <1>1, <1>6, BeginKeeps DEF Statements

\* What a patch makes of a row.
LEMMA PatchedRow ==
  ASSUME NEW row \in Cats!TransactionRow, NEW body \in Patches
  PROVE  /\ Cats!With(row, body) \in Cats!TransactionRow
         /\ Cats!With(row, body).type = IF "type" \in DOMAIN body THEN body.type ELSE row.type
         /\ Cats!With(row, body).category = IF "category" \in DOMAIN body THEN body.category ELSE row.category
<1>1. DOMAIN row = {"type", "category", "source"} /\ DOMAIN body \subseteq {"type", "category", "source"}
  BY DEF Cats!TransactionRow, Patches
<1>2. /\ "type" \in DOMAIN body => body.type \in Cats!Type
      /\ "category" \in DOMAIN body => body.category \in Cats!EveryId
      /\ "source" \in DOMAIN body => body.source \in {"MANUAL", "IMPORTED"}
  BY DEF Patches
<1>3. Cats!With(row, body) = [f \in {"type", "category", "source"} |-> IF f \in DOMAIN body THEN body[f] ELSE row[f]]
  BY <1>1 DEF Cats!With
<1> DEFINE new == Cats!With(row, body)
<1>4. /\ new.type = IF "type" \in DOMAIN body THEN body.type ELSE row.type
      /\ new.category = IF "category" \in DOMAIN body THEN body.category ELSE row.category
      /\ new.source = IF "source" \in DOMAIN body THEN body.source ELSE row.source
  BY <1>3
<1>5. new \in Cats!TransactionRow
  <2>1. new.type \in Cats!Type /\ new.category \in Cats!EveryId /\ new.source \in {"MANUAL", "IMPORTED"}
    BY <1>2, <1>4 DEF Cats!TransactionRow
  <2>2. new = [type |-> new.type, category |-> new.category, source |-> new.source]
    BY <1>3
  <2> HIDE DEF new
  <2> QED
    BY <2>1, <2>2 DEF Cats!TransactionRow
<1> QED
  BY <1>4, <1>5

\* A change of transactions that are there begins.
LEMMA PatchBegins ==
  ASSUME CatInv, NEW r \in Requests, NEW request, Cats!Begin(r, "patch", request),
         request.ts \subseteq Cats!Rows, request.body \in Patches,
         \A t \in request.ts : request.read[t] = tx[t],
         DOMAIN request.body # {"source"} =>
           \A t \in request.ts : Settled(AsRead(request, t).category, AsRead(request, t).type),
         "category" \in DOMAIN request, request.category \in Cats!CategoryIds,
         "keys" \in DOMAIN request => request \in Choice
  PROVE  CatInv'
<1>1. UNCHANGED category
  BY DEF Cats!Begin
<1>2. \A id, type : Settled(id, type) => Settled(id, type)'
  BY <1>1 DEF Settled, Cats!CategoryIds, Cats!Created, Cats!TypeOf
<1>3. request.ts \subseteq Transactions /\ \A t \in request.ts : request.read[t] \in Cats!TransactionRow
  BY DEF CatInv, CatTables, Cats!Rows, Cats!Row
<1>4. Cats!CategoryIds' = Cats!CategoryIds
  BY <1>1 DEF Cats!CategoryIds, Cats!Created
<1>5. catPc'[r] = "patch" /\ catReq'[r] = request => CatPending(r)' /\ Recalls(r)'
  <2> HAVE catPc'[r] = "patch" /\ catReq'[r] = request
  <2>1. \A t : AsRead(catReq[r], t)' = AsRead(request, t)
    BY DEF AsRead, Cats!With
  <2>2. CatPending(r)'
    BY <1>2, <1>3, <2>1 DEF CatPending, Recalling
  <2>3. Recalls(r)'
    BY <1>4 DEF Recalls, Recalling
  <2> QED
    BY <2>2, <2>3
<1> QED
  BY <1>5, BeginKeeps DEF Statements

LEMMA StartPatchKeeps ==
  ASSUME CatInv, NEW r \in Requests, NEW t \in Transactions, NEW body \in Patches, Cats!StartPatch(r, t, body)
  PROVE  CatInv'
<1> DEFINE row     == Cats!With(tx[t], body)
           request == [ts |-> {t}, body |-> body, read |-> [u \in {t} |-> tx[u]], category |-> row.category]
<1>1. /\ t \in Cats!Rows /\ Cats!Begin(r, "patch", request)
      /\ row.category \in Cats!CategoryIds /\ Cats!TypeOf(row.category) = row.type
  BY DEF Cats!StartPatch
<1>2. Settled(row.category, row.type)
  BY <1>1, CategoryAssumption DEF Settled, Cats!CategoryIds, Cats!EveryId, Cats!Created, Cats!Row
<1>3. AsRead(request, t) = row
  BY DEF AsRead
<1>4. \A u \in request.ts : Settled(AsRead(request, u).category, AsRead(request, u).type)
  <2> HIDE DEF row
  <2> QED
    BY <1>2, <1>3
<1>5. \A u \in request.ts : request.read[u] = tx[u]
  OBVIOUS
<1>6. /\ request.ts \subseteq Cats!Rows /\ request.body \in Patches /\ "category" \in DOMAIN request
      /\ request.category \in Cats!CategoryIds /\ "keys" \notin DOMAIN request
  BY <1>1
<1> HIDE DEF request
<1> QED
  BY <1>1, <1>4, <1>5, <1>6, PatchBegins

LEMMA StartConvertKeeps ==
  ASSUME CatInv, NEW r \in Requests, NEW t \in Transactions, Cats!StartConvert(r, t)
  PROVE  CatInv'
<1> DEFINE request == [ts |-> {t}, body |-> [source |-> "MANUAL"], read |-> [u \in {t} |-> tx[u]],
                       category |-> tx[t].category]
<1>1. t \in Cats!Rows /\ Cats!Begin(r, "patch", request)
  BY DEF Cats!StartConvert
<1>2. request.body \in Patches /\ DOMAIN request.body = {"source"}
  BY DEF Patches
<1>3. \A u \in request.ts : request.read[u] = tx[u]
  OBVIOUS
<1>4. /\ request.ts \subseteq Cats!Rows /\ "category" \in DOMAIN request /\ "keys" \notin DOMAIN request
      /\ request.category \in Cats!CategoryIds
  BY <1>1 DEF CatInv, References
<1> HIDE DEF request
<1> QED
  BY <1>1, <1>2, <1>3, <1>4, PatchBegins

LEMMA StartRecategorizeKeeps ==
  ASSUME CatInv, NEW r \in Requests, NEW ts \in SUBSET Transactions, NEW id \in Cats!CategoryIds,
         NEW remember \in BOOLEAN, Cats!StartRecategorize(r, ts, id, remember)
  PROVE  CatInv'
<1> DEFINE body    == [category |-> id]
           read    == [t \in ts |-> tx[t]]
           keys    == IF remember THEN {Cats!normalizeMerchant(MerchantOf[t]) : t \in ts} \ {Cats!Nothing} ELSE {}
           request == [ts |-> ts, body |-> body, read |-> read, category |-> id, keys |-> keys, found |-> None]
<1>1. /\ ts \subseteq Cats!Rows /\ Cats!Begin(r, "patch", request)
      /\ \A t \in ts : tx[t].type = Cats!TypeOf(id)
  BY DEF Cats!StartRecategorize
<1>2. id \in Cats!EveryId /\ (id \in Own => category[id] # None)
  BY CategoryAssumption DEF Cats!CategoryIds, Cats!EveryId, Cats!Created, Cats!Row
<1>3. body \in Patches /\ DOMAIN body = {"category"} /\ body.category = id
  BY <1>2 DEF Patches
<1>4. \A t \in ts : tx[t] \in Cats!TransactionRow
  BY <1>1 DEF CatInv, CatTables, Cats!Rows, Cats!Row
<1>5. read \in Reads
  BY <1>4 DEF Reads
<1>6. keys \subseteq Taught
  BY DEF Taught, Cats!Keys
<1> HIDE DEF body, read, keys
<1>7. request \in Choice
  BY <1>2, <1>3, <1>5, <1>6 DEF Choice
<1>8. \A t \in ts : Settled(AsRead(request, t).category, AsRead(request, t).type)
  <2> SUFFICES ASSUME NEW t \in ts PROVE Settled(AsRead(request, t).category, AsRead(request, t).type)
    OBVIOUS
  <2>1. AsRead(request, t) = Cats!With(tx[t], body)
    BY DEF AsRead, read
  <2>2. Cats!With(tx[t], body).category = id /\ Cats!With(tx[t], body).type = tx[t].type
    BY <1>3, <1>4, PatchedRow
  <2> QED
    BY <1>1, <1>2, <2>1, <2>2 DEF Settled
<1>9. \A t \in request.ts : request.read[t] = tx[t]
  BY DEF read
<1>10. /\ request.ts = ts /\ request.body = body /\ request.category = id /\ "category" \in DOMAIN request
  OBVIOUS
<1> HIDE DEF request
<1> QED
  BY <1>1, <1>3, <1>7, <1>8, <1>9, <1>10, PatchBegins

\* The fields a body about a rule may give, and what it makes of a row.
RuleFields == {"key", "category", "priority", "active"}
Gives(body) ==
  /\ DOMAIN body \subseteq RuleFields /\ body = [f \in DOMAIN body |-> body[f]]
  /\ "category" \in DOMAIN body => body.category \in Cats!EveryId
  /\ "priority" \in DOMAIN body => body.priority \in Int
  /\ "active" \in DOMAIN body => body.active \in BOOLEAN

LEMMA RuleRowIs ==
  ASSUME NEW row, row = [f \in RuleFields |-> row[f]], row.key \in Cats!Keys, row.category \in Cats!EveryId,
         row.priority \in Int, row.active \in BOOLEAN
  PROVE  row \in Cats!RuleRow
<1>1. row = [key |-> row.key, category |-> row.category, priority |-> row.priority, active |-> row.active]
  BY DEF RuleFields
<1> QED
  BY <1>1 DEF Cats!RuleRow

LEMMA EditedRow ==
  ASSUME NEW body, Gives(body), "key" \in DOMAIN body, body.key \in Taught
  PROVE  Edits(body)
<1> SUFFICES ASSUME NEW row \in Cats!RuleRow
             PROVE  /\ Cats!With(row, body) \in Cats!RuleRow /\ Cats!With(row, body).key = body.key
                    /\ Cats!With(row, body).category = IF "category" \in DOMAIN body THEN body.category ELSE row.category
  BY DEF Edits
<1> DEFINE new == Cats!With(row, body)
<1>1. DOMAIN row \cup DOMAIN body = RuleFields
  BY DEF Gives, RuleFields, Cats!RuleRow
<1>2. new = [f \in RuleFields |-> IF f \in DOMAIN body THEN body[f] ELSE row[f]]
  BY <1>1 DEF Cats!With
<1> HIDE DEF new
<1>3. /\ new.key = body.key
      /\ new.category = IF "category" \in DOMAIN body THEN body.category ELSE row.category
      /\ new.priority = IF "priority" \in DOMAIN body THEN body.priority ELSE row.priority
      /\ new.active = IF "active" \in DOMAIN body THEN body.active ELSE row.active
  BY <1>2 DEF RuleFields
<1>4. row.category \in Cats!EveryId /\ row.priority \in Int /\ row.active \in BOOLEAN
  BY DEF Cats!RuleRow
<1>5. new.key \in Cats!Keys /\ new.category \in Cats!EveryId /\ new.priority \in Int /\ new.active \in BOOLEAN
  BY <1>3, <1>4 DEF Gives, Taught
<1>6. new = [f \in RuleFields |-> new[f]]
  BY <1>2
<1>7. new \in Cats!RuleRow
  BY <1>5, <1>6, RuleRowIs
<1> QED
  BY <1>3, <1>7 DEF new

LEMMA StartRuleKeeps ==
  ASSUME CatInv, NEW r \in Requests, NEW u \in RuleIds, NEW body \in RuleBodies,
         NEW merchant \in Texts \cup (IF u \in Cats!Rules THEN {rule[u].key} ELSE {}),
         rule[u] # Deleted, Cats!StartRule(r, u, merchant, body)
  PROVE  CatInv'
<1> DEFINE key     == Cats!normalizeMerchant(merchant)
           before  == IF u \in Cats!Rules THEN rule[u] ELSE [priority |-> 0, active |-> TRUE]
           row     == Cats!With(before, body)
           given   == Cats!With(IF u \in Cats!Rules THEN body ELSE row, [key |-> key])
           request == [id |-> u, body |-> given, new |-> rule[u] = None, category |-> row.category]
<1>1. /\ key # Cats!Nothing /\ "category" \in DOMAIN row /\ row.category \in Cats!CategoryIds
      /\ Cats!Begin(r, "rule", request)
  BY DEF Cats!StartRule
<1>2. key \in Taught
  <2>1. CASE merchant \in Texts
    BY <1>1, <2>1 DEF Taught, Cats!Keys
  <2>2. CASE u \in Cats!Rules /\ merchant = rule[u].key
    <3>1. rule[u] \in Cats!RuleRow
      BY <2>2 DEF CatInv, CatTables, Cats!Rules, Cats!Row
    <3>2. rule[u].key \in Cats!Keys
      BY <3>1 DEF Cats!RuleRow
    <3> QED
      BY <1>1, <2>2, <3>2, CategoryAssumption DEF Taught
  <2> QED
    BY <2>1, <2>2
<1>3. /\ DOMAIN body \subseteq {"category", "priority", "active"}
      /\ "category" \in DOMAIN body => body.category \in Cats!EveryId
      /\ "priority" \in DOMAIN body => body.priority \in Int
      /\ "active" \in DOMAIN body => body.active \in BOOLEAN
  BY BodyAssumption
<1> HIDE DEF key
<1>4. ASSUME u \in Cats!Rules PROVE Edits(given)
  <2>1. given = [f \in DOMAIN body \cup {"key"} |-> IF f \in {"key"} THEN key ELSE body[f]]
    BY <1>4 DEF Cats!With
  <2>2. given.key = key /\ \A f \in DOMAIN body : given[f] = body[f]
    BY <1>3, <2>1
  <2>3. DOMAIN given = DOMAIN body \cup {"key"}
    BY <2>1
  <2>4. given = [f \in DOMAIN given |-> given[f]]
    BY <2>1
  <2> HIDE DEF given
  <2>5. Gives(given)
    BY <1>3, <2>2, <2>3, <2>4 DEF Gives, RuleFields
  <2> QED
    BY <1>2, <2>2, <2>3, <2>5, EditedRow
<1>5. ASSUME u \notin Cats!Rules PROVE Edits(given) /\ given \in Cats!RuleRow
  <2>1. row = [f \in {"priority", "active"} \cup DOMAIN body |->
                 IF f \in DOMAIN body THEN body[f] ELSE [priority |-> 0, active |-> TRUE][f]]
    BY <1>5 DEF Cats!With
  <2>2. "category" \in DOMAIN body /\ DOMAIN row = {"category", "priority", "active"}
    BY <1>1, <1>3, <2>1
  <2>3. row.category \in Cats!EveryId /\ row.priority \in Int /\ row.active \in BOOLEAN
    <3>1. /\ row.category = body.category
          /\ row.priority = IF "priority" \in DOMAIN body THEN body.priority ELSE 0
          /\ row.active = IF "active" \in DOMAIN body THEN body.active ELSE TRUE
      BY <2>1, <2>2
    <3> HIDE DEF row
    <3>2. row.category \in Cats!EveryId
      BY <1>3, <2>2, <3>1
    <3>3. row.priority \in Int
      BY <1>3, <3>1
    <3>4. row.active \in BOOLEAN
      BY <1>3, <3>1, Zenon
    <3> QED
      BY <3>2, <3>3, <3>4
  <2>4. given = [f \in DOMAIN row \cup {"key"} |-> IF f \in {"key"} THEN key ELSE row[f]]
    BY <1>5 DEF Cats!With
  <2> HIDE DEF row
  <2>5. given = [f \in RuleFields |-> IF f = "key" THEN key ELSE row[f]]
    BY <2>2, <2>4 DEF RuleFields
  <2>6. /\ given.key = key /\ given.category = row.category /\ given.priority = row.priority
        /\ given.active = row.active /\ given = [f \in RuleFields |-> given[f]] /\ DOMAIN given = RuleFields
    BY <2>5 DEF RuleFields
  <2> HIDE DEF given
  <2>7. given \in Cats!RuleRow
    BY <1>2, <2>3, <2>6, RuleRowIs DEF Taught
  <2>8. Gives(given)
    BY <2>3, <2>6 DEF Gives
  <2> QED
    BY <1>2, <2>6, <2>7, <2>8, EditedRow DEF RuleFields
<1>6. Edits(given) /\ (u \notin Cats!Rules => given \in Cats!RuleRow)
  BY <1>4, <1>5
<1> HIDE DEF given, row
<1>7. request.new => u \notin Cats!Rules
  BY DEF Cats!Rules, Cats!Row
<1>8. catPc'[r] = "rule" /\ catReq'[r] = request => CatPending(r)' /\ Recalls(r)'
  <2> HAVE catPc'[r] = "rule" /\ catReq'[r] = request
  <2>1. catReq'[r].id = u /\ catReq'[r].body = given /\ (catReq'[r].new => given \in Cats!RuleRow)
    BY <1>6, <1>7
  <2> QED
    BY <1>6, <2>1 DEF CatPending, Recalls, Recalling, Edits, Cats!With
<1> QED
  BY <1>1, <1>8, BeginKeeps DEF Statements

\* Rules stay and categories are only added.
LEMMA OnlyAdded ==
  ASSUME NEW r, UNCHANGED rule, Cats!CategoryIds \subseteq Cats!CategoryIds', disturbed \ {r} \subseteq disturbed'
  PROVE  Told(r)
BY DEF Told, Cats!Rules, Cats!Row

LEMMA AnswerEnds ==
  ASSUME CatTables, NEW r \in Requests, Cats!Answer(r)
  PROVE  /\ OnlyMoves(r) /\ CatPending(r)' /\ Recalls(r)' /\ disturbed' \subseteq Requests
         /\ catPc' \in [Requests -> Statements] /\ catReq' = [q \in Requests |-> catReq'[q]]
         /\ disturbed \ {r} \subseteq disturbed'
<1>1. Cats!Go(r, "idle", None) /\ disturbed' = disturbed \ {r} /\ "idle" \in Statements
  BY DEF Cats!Answer, Statements
<1>2. /\ OnlyMoves(r) /\ catPc'[r] = "idle"
      /\ catPc' \in [Requests -> Statements] /\ catReq' = [q \in Requests |-> catReq'[q]]
  BY <1>1, Goes
<1> QED
  BY <1>1, <1>2, IdleIsFine DEF CatTables

LEMMA FailKeeps ==
  ASSUME CatInv, NEW r \in Requests, Cats!Fail(r)
  PROVE  CatInv'
<1>1. Cats!Answer(r) /\ UNCHANGED <<category, tx, rule, raced>>
  BY DEF Cats!Fail
<1>2. /\ OnlyMoves(r) /\ CatPending(r)' /\ Recalls(r)' /\ disturbed' \subseteq Requests
      /\ catPc' \in [Requests -> Statements] /\ catReq' = [q \in Requests |-> catReq'[q]]
      /\ disturbed \ {r} \subseteq disturbed'
  BY <1>1, AnswerEnds DEF CatInv
<1>3. Stable /\ Told(r)
  BY <1>1, <1>2, NothingIsLost
<1>4. CatTables'
  BY <1>1, <1>2 DEF CatInv, CatTables
<1>5. References' /\ Cats!TypesAgreeUnlessRaced'
  BY <1>1 DEF CatInv, References, Cats!TypesAgreeUnlessRaced, Cats!Rows, Cats!Rules, Cats!Row, Cats!CategoryIds,
              Cats!Created, Cats!TypeOf
<1> QED
  BY <1>2, <1>3, <1>4, <1>5, CatAssembled

\* A category is written with the type it had when it was read.
LEMMA WriteCategoryKeeps ==
  ASSUME CatInv, NEW r \in Requests, Cats!WriteCategory(r)
  PROVE  CatInv'
<1> DEFINE o   == catReq[r].id
           row == catReq[r].row
<1>1. /\ catPc[r] = "category" /\ Cats!Answer(r) /\ UNCHANGED <<tx, rule, raced>>
      /\ IF catReq[r].new THEN category[o] = None ELSE Cats!Row(category[o])
      /\ category' = [category EXCEPT ![o] = row]
  BY DEF Cats!WriteCategory
<1>2. /\ o \in Own /\ row \in Cats!CategoryRow
      /\ ~catReq[r].new => Settled(o, row.type)
  BY <1>1 DEF CatInv, CatPending
<1>3. row \notin {None, Deleted}
  BY <1>2, CategoryRowAssumption
<1>4. category'[o] = row /\ \A p \in Own \ {o} : category'[p] = category[p]
  BY <1>1, <1>2 DEF CatInv, CatTables
<1>5. o \in Cats!Created => category[o].type = row.type
  <2> HAVE o \in Cats!Created
  <2>1. o \in Cats!CategoryIds /\ ~catReq[r].new
    BY <1>1 DEF Cats!CategoryIds, Cats!Created, Cats!Row
  <2> QED
    BY <1>2, <2>1 DEF Settled, Cats!TypeOf
<1>6. category[o] = None \/ o \in Cats!Created
  BY <1>1, <1>2 DEF Cats!Created
<1> HIDE DEF o, row
<1>7. Stable
  <2> SUFFICES ASSUME NEW p \in Own, category[p] # None
               PROVE  category'[p] # None
                      /\ (p \in Cats!Created' => p \in Cats!Created /\ category'[p].type = category[p].type)
    BY DEF Stable
  <2>1. CASE p = o
    BY <1>3, <1>4, <1>5, <1>6, <2>1
  <2>2. CASE p # o
    BY <1>4, <2>2 DEF Cats!Created, Cats!Row
  <2> QED
    BY <2>1, <2>2
<1>8. Cats!Created \subseteq Cats!Created'
  BY <1>3, <1>4 DEF Cats!Created, Cats!Row
<1>9. Cats!CategoryIds \subseteq Cats!CategoryIds'
  BY <1>8 DEF Cats!CategoryIds
<1>10. /\ OnlyMoves(r) /\ CatPending(r)' /\ Recalls(r)' /\ disturbed' \subseteq Requests
       /\ catPc' \in [Requests -> Statements] /\ catReq' = [q \in Requests |-> catReq'[q]]
       /\ disturbed \ {r} \subseteq disturbed'
  BY <1>1, AnswerEnds DEF CatInv
<1>11. Told(r)
  BY <1>1, <1>9, <1>10, OnlyAdded
<1>12. CatTables'
  BY <1>1, <1>2, <1>10 DEF CatInv, CatTables
<1>13. References'
  BY <1>1, <1>9 DEF CatInv, References, Cats!Rows, Cats!Rules, Cats!Row
<1>14. Cats!Rows' = Cats!Rows
  BY <1>1 DEF Cats!Rows, Cats!Row
<1>15. Cats!TypesAgreeUnlessRaced'
  BY <1>1, <1>7, <1>13, <1>14, AgreementStays DEF CatInv
<1> QED
  BY <1>7, <1>10, <1>11, <1>12, <1>13, <1>15, CatAssembled

\* A category is deleted when no transaction has it; whoever uses it or a rule of it is
\* disturbed.
LEMMA DeleteCategoryKeeps ==
  ASSUME CatInv, NEW r \in Requests, Cats!DeleteCategory(r)
  PROVE  CatInv'
<1> DEFINE o    == catReq[r].id
           with == {u \in Cats!Rules : rule[u].category = o}
           keys == {rule[u].key : u \in with}
<1>1. /\ o \in Cats!Created /\ \A t \in Cats!Rows : tx[t].category # o
      /\ category' = [category EXCEPT ![o] = Deleted]
      /\ rule' = [u \in RuleIds |-> IF u \in with THEN Deleted ELSE rule[u]]
      /\ Cats!Go(r, "idle", None) /\ UNCHANGED <<tx, raced>>
      /\ disturbed' = (disturbed \cup Cats!Touched(keys, {o})) \ {r}
  BY DEF Cats!DeleteCategory
<1>2. o \in Own /\ Deleted # None
  BY <1>1, CategoryAssumption DEF Cats!Created
<1>3. /\ OnlyMoves(r) /\ catPc'[r] = "idle"
      /\ catPc' \in [Requests -> Statements] /\ catReq' = [q \in Requests |-> catReq'[q]]
  BY <1>1, Goes DEF CatInv, Statements
<1>4. category'[o] = Deleted /\ \A p \in Own \ {o} : category'[p] = category[p]
  BY <1>1, <1>2 DEF CatInv, CatTables
<1>5. Cats!Created' = Cats!Created \ {o}
  BY <1>2, <1>4 DEF Cats!Created, Cats!Row
<1>6. Cats!CategoryIds' = Cats!CategoryIds \ {o}
  BY <1>2, <1>5, CategoryAssumption DEF Cats!CategoryIds
<1>7. \A u \in Cats!Rules : rule[u].category # o => u \in Cats!Rules' /\ rule'[u] = rule[u]
  BY <1>1 DEF Cats!Rules, Cats!Row
<1>8. \A u \in Cats!Rules' : u \in Cats!Rules /\ rule[u].category # o /\ rule'[u] = rule[u]
  BY <1>1 DEF Cats!Rules, Cats!Row
<1>9. \A u \in Cats!Rules : rule[u].category = o => rule[u].key \in keys
  OBVIOUS
<1>10. Stable
  BY <1>2, <1>4, <1>5 DEF Stable
<1>11. CatTables'
  <2>1. category' \in [Own -> {None, Deleted} \cup Cats!CategoryRow]
    BY <1>1 DEF CatInv, CatTables
  <2>2. rule' \in [RuleIds -> {None, Deleted} \cup Cats!RuleRow]
    BY <1>1 DEF CatInv, CatTables
  <2>3. disturbed' \subseteq Requests
    BY <1>1 DEF CatInv, CatTables, Cats!Touched
  <2> QED
    BY <1>1, <1>3, <2>1, <2>2, <2>3 DEF CatInv, CatTables
<1> HIDE DEF o, with, keys
<1>12. Told(r)
  <2> SUFFICES ASSUME NEW q \in Requests, q # r
               PROVE  /\ q \in disturbed => q \in disturbed'
                      /\ catPc[q] # "idle" /\ "category" \in DOMAIN catReq[q]
                           /\ catReq[q].category \in Cats!CategoryIds =>
                           catReq[q].category \in Cats!CategoryIds' \/ q \in disturbed'
                      /\ \A u \in Cats!Rules :
                           catPc[q] # "idle" /\ "keys" \in DOMAIN catReq[q] /\ rule[u].key \in catReq[q].keys =>
                             (u \in Cats!Rules' /\ rule'[u].key = rule[u].key) \/ q \in disturbed'
    BY DEF Told
  <2>1. q \in disturbed => q \in disturbed'
    BY <1>1
  <2>2. ASSUME catPc[q] # "idle", "category" \in DOMAIN catReq[q], catReq[q].category \in Cats!CategoryIds
        PROVE  catReq[q].category \in Cats!CategoryIds' \/ q \in disturbed'
    BY <1>1, <1>6, <2>2 DEF Cats!Touched
  <2>3. ASSUME NEW u \in Cats!Rules, catPc[q] # "idle", "keys" \in DOMAIN catReq[q], rule[u].key \in catReq[q].keys
        PROVE  (u \in Cats!Rules' /\ rule'[u].key = rule[u].key) \/ q \in disturbed'
    <3>1. CASE rule[u].category = o
      <4>1. q \in Cats!Touched(keys, {o})
        BY <1>9, <2>3, <3>1 DEF Cats!Touched
      <4> QED
        BY <1>1, <4>1
    <3>2. CASE rule[u].category # o
      BY <1>7, <3>2
    <3> QED
      BY <3>1, <3>2
  <2> QED
    BY <2>1, <2>2, <2>3
<1>13. Cats!Rows' = Cats!Rows
  BY <1>1 DEF Cats!Rows, Cats!Row
<1>14. References'
  BY <1>1, <1>6, <1>8, <1>13 DEF CatInv, References
<1>15. Cats!TypesAgreeUnlessRaced'
  BY <1>1, <1>10, <1>13, <1>14, AgreementStays DEF CatInv
<1>16. CatPending(r)' /\ Recalls(r)'
  BY <1>3, IdleIsFine
<1> QED
  BY <1>3, <1>10, <1>11, <1>12, <1>14, <1>15, <1>16, CatAssembled

\* The categories are as they were.
LEMMA SameCategories ==
  ASSUME UNCHANGED category
  PROVE  /\ Stable /\ Cats!CategoryIds' = Cats!CategoryIds
         /\ \A id, type : Settled(id, type)' <=> Settled(id, type)
BY DEF Stable, Settled, Cats!CategoryIds, Cats!Created, Cats!TypeOf

LEMMA CreateKeeps ==
  ASSUME CatInv, NEW r \in Requests, Cats!Create(r)
  PROVE  CatInv'
<1> DEFINE t   == catReq[r].tx
           row == catReq[r].row
<1>1. /\ catPc[r] = "create" /\ tx[t] = None /\ catReq[r].category \in Cats!CategoryIds
      /\ tx' = [tx EXCEPT ![t] = row] /\ Cats!Answer(r) /\ UNCHANGED <<category, rule, raced>>
  BY DEF Cats!Create
<1>2. /\ t \in Transactions /\ row \in Cats!TransactionRow
      /\ catReq[r].category = row.category /\ Settled(row.category, row.type)
  BY <1>1 DEF CatInv, CatPending
<1>3. row \notin {None, Deleted}
  BY <1>2, CategoryRowAssumption
<1>4. tx'[t] = row /\ \A u \in Transactions \ {t} : tx'[u] = tx[u]
  BY <1>1, <1>2 DEF CatInv, CatTables
<1>5. row.category \in Cats!CategoryIds /\ Cats!TypeOf(row.category) = row.type
  BY <1>1, <1>2 DEF Settled
<1> HIDE DEF t, row
<1>6. /\ OnlyMoves(r) /\ CatPending(r)' /\ Recalls(r)' /\ disturbed' \subseteq Requests
      /\ catPc' \in [Requests -> Statements] /\ catReq' = [q \in Requests |-> catReq'[q]]
      /\ disturbed \ {r} \subseteq disturbed'
  BY <1>1, AnswerEnds DEF CatInv
<1>7. Stable /\ Told(r)
  BY <1>1, <1>6, NothingIsLost
<1>8. CatTables'
  BY <1>1, <1>2, <1>6 DEF CatInv, CatTables
<1>9. Cats!Rows' = Cats!Rows \cup {t}
  BY <1>2, <1>3, <1>4 DEF Cats!Rows, Cats!Row
<1>10. t \notin Cats!Rows
  BY <1>1 DEF Cats!Rows, Cats!Row, t
<1>11. Cats!CategoryIds' = Cats!CategoryIds /\ \A id : Cats!TypeOf(id)' = Cats!TypeOf(id)
  BY <1>1 DEF Cats!CategoryIds, Cats!Created, Cats!TypeOf
<1>12. References'
  <2>1. \A u \in Cats!Rows' : tx'[u].category \in Cats!CategoryIds'
    BY <1>4, <1>5, <1>9, <1>11 DEF CatInv, References, Cats!Rows
  <2>2. \A u \in Cats!Rules' : rule'[u].category \in Cats!CategoryIds' /\ rule'[u].key # Cats!Nothing
    BY <1>1, <1>11 DEF CatInv, References, Cats!Rules, Cats!Row
  <2> QED
    BY <2>1, <2>2 DEF References
<1>13. Cats!TypesAgreeUnlessRaced'
  <2> SUFFICES ASSUME NEW u \in Cats!Rows', u \notin raced'
               PROVE  Cats!TypeOf(tx[u].category)' = tx'[u].type
    BY DEF Cats!TypesAgreeUnlessRaced
  <2>1. CASE u = t
    BY <1>4, <1>5, <1>11, <2>1 DEF Cats!TypeOf
  <2>2. CASE u # t
    <3>1. u \in Cats!Rows /\ tx'[u] = tx[u] /\ u \notin raced
      BY <1>1, <1>4, <1>9, <2>2 DEF Cats!Rows
    <3>2. Cats!TypeOf(tx[u].category) = tx[u].type
      BY <3>1 DEF CatInv, Cats!TypesAgreeUnlessRaced
    <3> QED
      BY <1>1, <3>1, <3>2 DEF Cats!TypeOf
  <2> QED
    BY <2>1, <2>2
<1> QED
  BY <1>6, <1>7, <1>8, <1>12, <1>13, CatAssembled

\* A patch writes what was checked: of a row that is as it was read, it makes what was
\* checked; another row is raced; and a conversion changes neither type nor category.
LEMMA PatchAgrees ==
  ASSUME CatInv, NEW r \in Requests, Cats!Patch(r), NEW t \in catReq[r].ts \cap Cats!Rows
  PROVE  LET row == Cats!With(tx[t], catReq[r].body) IN
         /\ row \in Cats!TransactionRow /\ row.category \in Cats!CategoryIds
         /\ Cats!TypeOf(row.category) = row.type \/ t \in raced'
<1> DEFINE body  == catReq[r].body
           read  == catReq[r].read[t]
           row   == Cats!With(tx[t], body)
           stale == {u \in catReq[r].ts \cap Cats!Rows :
                       \E f \in {"type", "category"} : tx[u][f] # catReq[r].read[u][f]}
<1>1. /\ catPc[r] = "patch" /\ ("category" \in DOMAIN body => body.category \in Cats!CategoryIds)
      /\ raced' = IF DOMAIN body = {"source"} THEN raced ELSE (raced \ (catReq[r].ts \cap Cats!Rows)) \cup stale
  BY DEF Cats!Patch
<1>2. /\ body \in Patches /\ read \in Cats!TransactionRow
      /\ DOMAIN body # {"source"} => Settled(AsRead(catReq[r], t).category, AsRead(catReq[r], t).type)
  BY <1>1 DEF CatInv, CatPending
<1>3. tx[t] \in Cats!TransactionRow /\ tx[t].category \in Cats!CategoryIds
  BY DEF CatInv, CatTables, References, Cats!Rows, Cats!Row
<1>4. /\ row \in Cats!TransactionRow
      /\ row.type = IF "type" \in DOMAIN body THEN body.type ELSE tx[t].type
      /\ row.category = IF "category" \in DOMAIN body THEN body.category ELSE tx[t].category
  BY <1>2, <1>3, PatchedRow
<1>5. /\ Cats!With(read, body).type = IF "type" \in DOMAIN body THEN body.type ELSE read.type
      /\ Cats!With(read, body).category = IF "category" \in DOMAIN body THEN body.category ELSE read.category
  BY <1>2, PatchedRow
<1>6. row.category \in Cats!CategoryIds
  BY <1>1, <1>3, <1>4
<1>7. t \in stale <=> (tx[t].type # read.type \/ tx[t].category # read.category)
  OBVIOUS
<1>8. CASE DOMAIN body = {"source"}
  <2>1. row.type = tx[t].type /\ row.category = tx[t].category
    BY <1>4, <1>8
  <2>2. t \in raced \/ Cats!TypeOf(tx[t].category) = tx[t].type
    BY DEF CatInv, Cats!TypesAgreeUnlessRaced
  <2> HIDE DEF row, body
  <2> QED
    BY <1>1, <1>4, <1>6, <1>8, <2>1, <2>2 DEF row, body
<1>9. CASE DOMAIN body # {"source"} /\ t \in stale
  BY <1>1, <1>4, <1>6, <1>9
<1>10. CASE DOMAIN body # {"source"} /\ t \notin stale
  <2>1. AsRead(catReq[r], t) = Cats!With(read, body)
    BY DEF AsRead
  <2>2. row.type = Cats!With(read, body).type /\ row.category = Cats!With(read, body).category
    BY <1>4, <1>5, <1>7, <1>10
  <2>3. Settled(row.category, row.type)
    BY <1>2, <1>10, <2>1, <2>2
  <2> QED
    BY <1>4, <1>6, <2>3 DEF Settled
<1> QED
  BY <1>8, <1>9, <1>10

LEMMA PatchKeeps ==
  ASSUME CatInv, NEW r \in Requests, Cats!Patch(r)
  PROVE  CatInv'
<1> DEFINE body == catReq[r].body
           ts   == catReq[r].ts \cap Cats!Rows
<1>1. /\ catPc[r] = "patch" /\ UNCHANGED <<category, rule>>
      /\ tx' = [t \in Transactions |-> IF t \in ts THEN Cats!With(tx[t], body) ELSE tx[t]]
      /\ IF "keys" \in DOMAIN catReq[r] /\ catReq[r].keys # {}
         THEN Cats!Go(r, "find", catReq[r]) /\ UNCHANGED disturbed
         ELSE Cats!Answer(r)
  BY DEF Cats!Patch
<1>2. /\ \A t \in ts : Cats!With(tx[t], body) \in Cats!TransactionRow
      /\ \A t \in ts : Cats!With(tx[t], body).category \in Cats!CategoryIds
      /\ \A t \in ts : Cats!TypeOf(Cats!With(tx[t], body).category) = Cats!With(tx[t], body).type \/ t \in raced'
  BY PatchAgrees
<1>3. raced' \subseteq Transactions /\ \A t \in raced : t \notin ts => t \in raced'
  BY DEF Cats!Patch, CatInv, CatTables, Cats!Rows
<1>4. ts \subseteq Transactions /\ \A t \in ts : Cats!With(tx[t], body) \notin {None, Deleted}
  BY <1>2, CategoryRowAssumption DEF Cats!Rows
<1> HIDE DEF ts, body
<1>5. \A t \in Transactions : tx'[t] = IF t \in ts THEN Cats!With(tx[t], body) ELSE tx[t]
  BY <1>1
<1>6. Cats!Rows' = Cats!Rows
  BY <1>4, <1>5 DEF Cats!Rows, Cats!Row, ts
<1>7. Stable /\ Cats!CategoryIds' = Cats!CategoryIds /\ \A id : Cats!TypeOf(id)' = Cats!TypeOf(id)
  BY <1>1 DEF Stable, Cats!CategoryIds, Cats!Created, Cats!TypeOf
<1>8. /\ OnlyMoves(r) /\ CatPending(r)' /\ Recalls(r)' /\ disturbed' \subseteq Requests
      /\ catPc' \in [Requests -> Statements] /\ catReq' = [q \in Requests |-> catReq'[q]]
      /\ disturbed \ {r} \subseteq disturbed'
  <2>1. CASE "keys" \in DOMAIN catReq[r] /\ catReq[r].keys # {}
    <3>1. Cats!Go(r, "find", catReq[r]) /\ UNCHANGED disturbed /\ "find" \in Statements
      BY <1>1, <2>1 DEF Statements, Recalling
    <3>2. /\ OnlyMoves(r) /\ catPc'[r] = "find" /\ catReq'[r] = catReq[r]
          /\ catPc' \in [Requests -> Statements] /\ catReq' = [q \in Requests |-> catReq'[q]]
      BY <3>1, Goes DEF CatInv
    <3>3. catReq[r] \in Choice
      BY <1>1, <2>1 DEF CatInv, CatPending
    <3>4. CatPending(r)'
      BY <2>1, <3>2, <3>3 DEF CatPending, Recalling
    <3>5. Recalls(r)'
      BY <1>1, <1>7, <3>1, <3>2 DEF CatInv, Recalls, Recalling
    <3> QED
      BY <3>1, <3>2, <3>4, <3>5 DEF CatInv, CatTables
  <2>2. CASE ~("keys" \in DOMAIN catReq[r] /\ catReq[r].keys # {})
    BY <1>1, <2>2, AnswerEnds DEF CatInv
  <2> QED
    BY <2>1, <2>2
<1>9. Told(r)
  BY <1>1, <1>8, NothingIsLost
<1>10. CatTables'
  BY <1>1, <1>2, <1>3, <1>8 DEF CatInv, CatTables
<1>11. References'
  <2>1. \A u \in Cats!Rows' : tx'[u].category \in Cats!CategoryIds'
    BY <1>2, <1>5, <1>6, <1>7 DEF CatInv, References, Cats!Rows
  <2>2. \A u \in Cats!Rules' : rule'[u].category \in Cats!CategoryIds' /\ rule'[u].key # Cats!Nothing
    BY <1>1, <1>7 DEF CatInv, References, Cats!Rules, Cats!Row
  <2> QED
    BY <2>1, <2>2 DEF References
<1>12. Cats!TypesAgreeUnlessRaced'
  <2> SUFFICES ASSUME NEW u \in Cats!Rows', u \notin raced'
               PROVE  Cats!TypeOf(tx[u].category)' = tx'[u].type
    BY DEF Cats!TypesAgreeUnlessRaced
  <2>1. CASE u \in ts
    <3>1. tx'[u] = Cats!With(tx[u], body)
      BY <1>4, <1>5, <2>1
    <3>2. Cats!TypeOf(Cats!With(tx[u], body).category) = Cats!With(tx[u], body).type
      BY <1>2, <2>1
    <3> QED
      BY <1>1, <3>1, <3>2 DEF Cats!TypeOf
  <2>2. CASE u \notin ts
    <3>1. u \in Cats!Rows /\ tx'[u] = tx[u] /\ u \notin raced
      BY <1>3, <1>5, <1>6, <2>2 DEF Cats!Rows
    <3>2. Cats!TypeOf(tx[u].category) = tx[u].type
      BY <3>1 DEF CatInv, Cats!TypesAgreeUnlessRaced
    <3> QED
      BY <1>1, <3>1, <3>2 DEF Cats!TypeOf
  <2> QED
    BY <2>1, <2>2
<1> QED
  BY <1>7, <1>8, <1>9, <1>10, <1>11, <1>12, CatAssembled

LEMMA DeleteTransactionKeeps ==
  ASSUME CatInv, NEW t \in Transactions, Cats!DeleteTransaction(t)
  PROVE  CatInv'
<1>1. tx' = [tx EXCEPT ![t] = Deleted] /\ UNCHANGED <<category, rule, catPc, catReq, raced, disturbed>>
  BY DEF Cats!DeleteTransaction, Cats!history
<1>2. PICK r : r \notin Requests
  BY NoSetContainsEverything
<1>3. OnlyMoves(r) /\ Stable /\ Told(r)
  BY <1>1, NothingIsLost DEF OnlyMoves
<1>4. \A u \in Cats!Rows' : u \in Cats!Rows /\ tx'[u] = tx[u]
  BY <1>1 DEF CatInv, CatTables, Cats!Rows, Cats!Row
<1>5. CatTables'
  BY <1>1 DEF CatInv, CatTables
<1>6. References'
  BY <1>1, <1>4 DEF CatInv, References, Cats!Rules, Cats!Row, Cats!CategoryIds, Cats!Created
<1>7. Cats!TypesAgreeUnlessRaced'
  BY <1>1, <1>3, <1>4, <1>6, AgreementStays DEF CatInv
<1> QED
  BY <1>2, <1>3, <1>5, <1>6, <1>7, CatAssembled

\* A statement that only reads, or finds that it cannot write.
LEMMA ReadingKeeps ==
  ASSUME CatInv, NEW r \in Requests, NEW statement \in Statements, NEW request, Cats!Go(r, statement, request),
         UNCHANGED <<category, tx, rule, raced, disturbed>>,
         catPc'[r] = statement /\ catReq'[r] = request => CatPending(r)' /\ Recalls(r)'
  PROVE  CatInv'
<1>1. /\ OnlyMoves(r) /\ catPc'[r] = statement /\ catReq'[r] = request
      /\ catPc' \in [Requests -> Statements] /\ catReq' = [q \in Requests |-> catReq'[q]]
  BY Goes DEF CatInv
<1>2. Stable /\ Told(r)
  BY NothingIsLost
<1>3. CatTables'
  BY <1>1 DEF CatInv, CatTables
<1>4. References' /\ Cats!TypesAgreeUnlessRaced'
  BY DEF CatInv, References, Cats!TypesAgreeUnlessRaced, Cats!Rows, Cats!Rules, Cats!Row, Cats!CategoryIds,
         Cats!Created, Cats!TypeOf
<1> QED
  BY <1>1, <1>2, <1>3, <1>4, CatAssembled

\* The request to remember has a key, and may be told the rule it found.
LEMMA Keyed ==
  ASSUME CatInv, NEW r \in Requests, catPc[r] \in Recalling
  PROVE  /\ catReq[r] \in Choice /\ Cats!Key(r) \in catReq[r].keys /\ Cats!Key(r) \in Taught
         /\ \A u \in RuleIds : /\ [catReq[r] EXCEPT !.found = u] \in Choice
                               /\ [catReq[r] EXCEPT !.found = u].found = u
                               /\ [catReq[r] EXCEPT !.found = u].keys = catReq[r].keys
                               /\ [catReq[r] EXCEPT !.found = u].category = catReq[r].category
<1>1. catReq[r] \in Choice /\ catReq[r].keys # {}
  BY DEF CatInv, CatPending
<1>2. Cats!Key(r) \in catReq[r].keys
  BY <1>1 DEF Cats!Key
<1>3. catReq[r].keys \subseteq Taught
  BY <1>1 DEF Choice
<1>4. \A u \in RuleIds : /\ [catReq[r] EXCEPT !.found = u] \in Choice
                         /\ [catReq[r] EXCEPT !.found = u].found = u
                         /\ [catReq[r] EXCEPT !.found = u].keys = catReq[r].keys
                         /\ [catReq[r] EXCEPT !.found = u].category = catReq[r].category
  BY <1>1 DEF Choice
<1> QED
  BY <1>1, <1>2, <1>3, <1>4

\* The rule that was found is there, with the key it was found by.
LEMMA FindsRule ==
  ASSUME CatInv, NEW r \in Requests, catPc[r] \in Recalling, NEW u \in Cats!RuleFor(Cats!Key(r)),
         Cats!Go(r, "repoint", [catReq[r] EXCEPT !.found = u]),
         UNCHANGED <<category, tx, rule, raced, disturbed>>
  PROVE  CatInv'
<1> DEFINE request == [catReq[r] EXCEPT !.found = u]
<1>1. u \in Cats!Rules /\ u \in RuleIds /\ rule[u].key = Cats!Key(r)
  BY DEF Cats!RuleFor, Cats!Rules
<1>2. /\ request \in Choice /\ request.found = u /\ request.keys = catReq[r].keys
      /\ request.category = catReq[r].category /\ Cats!Key(r) \in catReq[r].keys
  BY <1>1, Keyed
<1> HIDE DEF request
<1>3. catPc'[r] = "repoint" /\ catReq'[r] = request => CatPending(r)' /\ Recalls(r)'
  <2> HAVE catPc'[r] = "repoint" /\ catReq'[r] = request
  <2>1. CatPending(r)'
    BY <1>1, <1>2 DEF CatPending, Recalling
  <2>2. r \notin disturbed => catReq[r].category \in Cats!CategoryIds
    BY DEF CatInv, Recalls
  <2>3. Cats!CategoryIds' = Cats!CategoryIds /\ Cats!Rules' = Cats!Rules
    BY DEF Cats!CategoryIds, Cats!Created, Cats!Rules, Cats!Row
  <2>4. Recalls(r)'
    BY <1>1, <1>2, <2>2, <2>3 DEF Recalls
  <2> QED
    BY <2>1, <2>4
<1> QED
  BY <1>3, ReadingKeeps DEF Statements, Recalling, request

LEMMA FindRuleKeeps ==
  ASSUME CatInv, NEW r \in Requests, Cats!FindRule(r)
  PROVE  CatInv'
<1>1. catPc[r] = "find" /\ catPc[r] \in Recalling /\ UNCHANGED <<category, tx, rule, raced, disturbed>>
  BY DEF Cats!FindRule, Cats!history, Recalling
<1>2. CASE Cats!Go(r, "insert", catReq[r])
  <2>1. catReq[r] \in Choice /\ catReq[r].keys # {}
    BY <1>1, Keyed
  <2>2. catPc'[r] = "insert" /\ catReq'[r] = catReq[r] => CatPending(r)' /\ Recalls(r)'
    <3> HAVE catPc'[r] = "insert" /\ catReq'[r] = catReq[r]
    <3>1. CatPending(r)'
      BY <2>1 DEF CatPending, Recalling
    <3>2. r \notin disturbed => catReq[r].category \in Cats!CategoryIds
      BY <1>1 DEF CatInv, Recalls
    <3>3. Recalls(r)'
      BY <1>1, <3>2 DEF Recalls, Cats!CategoryIds, Cats!Created
    <3> QED
      BY <3>1, <3>3
  <2> QED
    BY <1>1, <1>2, <2>2, ReadingKeeps DEF Statements, Recalling
<1>3. CASE \E u \in Cats!RuleFor(Cats!Key(r)) : Cats!Go(r, "repoint", [catReq[r] EXCEPT !.found = u])
  BY <1>1, <1>3, FindsRule
<1> QED
  BY <1>2, <1>3 DEF Cats!FindRule

\* The rule of the one that won the race can only be gone when somebody took it away.
LEMMA FindRacedKeeps ==
  ASSUME CatInv, NEW r \in Requests, Cats!FindRaced(r)
  PROVE  CatInv'
<1>1. catPc[r] = "refind" /\ catPc[r] \in Recalling /\ UNCHANGED <<category, tx, rule, raced, disturbed>>
  BY DEF Cats!FindRaced, Cats!history, Recalling
<1>2. CASE Cats!RuleFor(Cats!Key(r)) = {} /\ Cats!Go(r, "error", catReq[r])
  <2>1. catReq[r] \in Choice /\ catReq[r].keys # {}
    BY <1>1, Keyed
  <2>2. r \in disturbed
    BY <1>1, <1>2 DEF CatInv, Recalls, Cats!RuleFor
  <2>3. catPc'[r] = "error" /\ catReq'[r] = catReq[r] => CatPending(r)' /\ Recalls(r)'
    BY <1>1, <2>1, <2>2 DEF CatPending, Recalls, Recalling
  <2> QED
    BY <1>1, <1>2, <2>3, ReadingKeeps DEF Statements, Recalling
<1>3. CASE \E u \in Cats!RuleFor(Cats!Key(r)) : Cats!Go(r, "repoint", [catReq[r] EXCEPT !.found = u])
  BY <1>1, <1>3, FindsRule
<1> QED
  BY <1>2, <1>3 DEF Cats!FindRaced

\* After a rule is written the next key is looked up, or the request is answered.
LEMMA RememberedGoes ==
  ASSUME CatInv, NEW r \in Requests, catPc[r] \in Recalling, UNCHANGED category, Cats!Remembered(r)
  PROVE  /\ OnlyMoves(r) /\ CatPending(r)' /\ Recalls(r)' /\ disturbed' \subseteq Requests
         /\ catPc' \in [Requests -> Statements] /\ catReq' = [q \in Requests |-> catReq'[q]]
         /\ disturbed \ {r} \subseteq disturbed'
<1> DEFINE rest == catReq[r].keys \ {Cats!Key(r)}
           next == [catReq[r] EXCEPT !.keys = rest]
<1>1. CASE rest = {}
  <2>1. Cats!Answer(r)
    BY <1>1 DEF Cats!Remembered
  <2> QED
    BY <2>1, AnswerEnds DEF CatInv
<1>2. CASE rest # {}
  <2>1. Cats!Go(r, "find", next) /\ UNCHANGED disturbed
    BY <1>2 DEF Cats!Remembered
  <2>2. catReq[r] \in Choice
    BY Keyed
  <2>3. next \in Choice /\ next.keys # {} /\ next.category = catReq[r].category
    BY <1>2, <2>2 DEF Choice
  <2> HIDE DEF next
  <2>4. /\ OnlyMoves(r) /\ catPc'[r] = "find" /\ catReq'[r] = next
        /\ catPc' \in [Requests -> Statements] /\ catReq' = [q \in Requests |-> catReq'[q]]
    BY <2>1, Goes DEF CatInv, Statements, Recalling
  <2>5. CatPending(r)'
    BY <2>3, <2>4 DEF CatPending, Recalling
  <2>6. r \notin disturbed => catReq[r].category \in Cats!CategoryIds
    BY DEF CatInv, Recalls
  <2>7. Recalls(r)'
    BY <2>1, <2>3, <2>4, <2>6 DEF Recalls, Cats!CategoryIds, Cats!Created
  <2> QED
    BY <2>1, <2>4, <2>5, <2>7 DEF CatInv, CatTables
<1> QED
  BY <1>1, <1>2

\* One rule is written, with a category and a key, and its old key is nobody's unless the
\* requests that remember it are disturbed.
LEMMA RuleIsWritten ==
  ASSUME CatInv, NEW r \in Requests, OnlyMoves(r), CatPending(r)', Recalls(r)', disturbed' \subseteq Requests,
         catPc' \in [Requests -> Statements], catReq' = [q \in Requests |-> catReq'[q]],
         disturbed \ {r} \subseteq disturbed', UNCHANGED <<category, tx, raced>>,
         NEW u \in RuleIds, NEW row \in Cats!RuleRow, rule' = [rule EXCEPT ![u] = row],
         row.category \in Cats!CategoryIds, row.key # Cats!Nothing,
         u \in Cats!Rules =>
           row.key = rule[u].key \/ Cats!Touched({rule[u].key}, {}) \ {r} \subseteq disturbed'
  PROVE  CatInv'
<1>1. rule'[u] = row /\ \A v \in RuleIds \ {u} : rule'[v] = rule[v]
  BY DEF CatInv, CatTables
<1>2. row \notin {None, Deleted}
  BY CategoryRowAssumption
<1>3. Stable /\ Cats!CategoryIds' = Cats!CategoryIds
  BY SameCategories
<1>4. \A v \in Cats!Rules : v \in Cats!Rules'
  BY <1>1, <1>2 DEF Cats!Rules, Cats!Row
<1>5. \A v \in Cats!Rules' : v = u \/ (v \in Cats!Rules /\ rule'[v] = rule[v])
  BY <1>1 DEF Cats!Rules, Cats!Row
<1>6. Told(r)
  <2> SUFFICES ASSUME NEW q \in Requests, q # r, NEW v \in Cats!Rules, catPc[q] # "idle",
                      "keys" \in DOMAIN catReq[q], rule[v].key \in catReq[q].keys
               PROVE  (v \in Cats!Rules' /\ rule'[v].key = rule[v].key) \/ q \in disturbed'
    BY <1>3 DEF Told
  <2>1. CASE v # u
    BY <1>1, <1>4, <2>1 DEF Cats!Rules
  <2>2. CASE v = u /\ row.key = rule[u].key
    BY <1>1, <1>4, <2>2
  <2>3. CASE v = u /\ row.key # rule[u].key
    <3>1. q \in Cats!Touched({rule[u].key}, {})
      BY <2>3 DEF Cats!Touched
    <3> QED
      BY <2>3, <3>1
  <2> QED
    BY <2>1, <2>2, <2>3
<1>7. CatTables'
  <2>1. rule' \in [RuleIds -> {None, Deleted} \cup Cats!RuleRow]
    BY DEF CatInv, CatTables
  <2> QED
    BY <2>1 DEF CatInv, CatTables
<1>8. Cats!Rows' = Cats!Rows
  BY DEF Cats!Rows, Cats!Row
<1>9. References'
  <2>1. \A t \in Cats!Rows' : tx'[t].category \in Cats!CategoryIds'
    BY <1>3, <1>8 DEF CatInv, References
  <2>2. \A v \in Cats!Rules' : rule'[v].category \in Cats!CategoryIds' /\ rule'[v].key # Cats!Nothing
    BY <1>1, <1>3, <1>5 DEF CatInv, References
  <2> QED
    BY <2>1, <2>2 DEF References
<1>10. Cats!TypesAgreeUnlessRaced'
  BY <1>3, <1>8, <1>9, AgreementStays DEF CatInv
<1> QED
  BY <1>3, <1>6, <1>7, <1>9, <1>10, CatAssembled

LEMMA InsertRuleKeeps ==
  ASSUME CatInv, NEW r \in Requests, Cats!InsertRule(r)
  PROVE  CatInv'
<1>1. catPc[r] = "insert" /\ catPc[r] \in Recalling /\ UNCHANGED <<category, tx, raced>>
  BY DEF Cats!InsertRule, Recalling
<1>2. catReq[r] \in Choice /\ catReq[r].keys # {} /\ Cats!Key(r) \in Taught
  BY <1>1, Keyed
<1>3. CASE Cats!RuleFor(Cats!Key(r)) # {} /\ Cats!Go(r, "refind", catReq[r]) /\ UNCHANGED <<rule, disturbed>>
  <2>1. catPc'[r] = "refind" /\ catReq'[r] = catReq[r] => CatPending(r)' /\ Recalls(r)'
    <3> HAVE catPc'[r] = "refind" /\ catReq'[r] = catReq[r]
    <3>1. CatPending(r)'
      BY <1>2 DEF CatPending, Recalling
    <3>2. r \notin disturbed => catReq[r].category \in Cats!CategoryIds
      BY <1>1 DEF CatInv, Recalls
    <3>3. \E u \in Cats!Rules : rule[u].key = Cats!Key(r)
      BY <1>3 DEF Cats!RuleFor
    <3>4. /\ Cats!CategoryIds' = Cats!CategoryIds /\ Cats!Rules' = Cats!Rules /\ Cats!Key(r)' = Cats!Key(r)
      BY <1>1, <1>3 DEF Cats!CategoryIds, Cats!Created, Cats!Rules, Cats!Row, Cats!Key
    <3>5. Recalls(r)'
      BY <1>3, <3>2, <3>3, <3>4 DEF Recalls
    <3> QED
      BY <3>1, <3>5
  <2> QED
    BY <1>1, <1>3, <2>1, ReadingKeeps DEF Statements, Recalling
<1>4. ASSUME NEW u \in RuleIds, rule[u] = None, catReq[r].category \in Cats!CategoryIds,
             rule' = [rule EXCEPT ![u] = [key |-> Cats!Key(r), category |-> catReq[r].category,
                                          priority |-> 0, active |-> TRUE]],
             Cats!Remembered(r)
      PROVE  CatInv'
  <2> DEFINE row == [key |-> Cats!Key(r), category |-> catReq[r].category, priority |-> 0, active |-> TRUE]
  <2>1. row \in Cats!RuleRow /\ row.category \in Cats!CategoryIds /\ row.key # Cats!Nothing
    BY <1>2, <1>4 DEF Cats!RuleRow, Choice, Taught
  <2>2. /\ OnlyMoves(r) /\ CatPending(r)' /\ Recalls(r)' /\ disturbed' \subseteq Requests
        /\ catPc' \in [Requests -> Statements] /\ catReq' = [q \in Requests |-> catReq'[q]]
        /\ disturbed \ {r} \subseteq disturbed'
    BY <1>1, <1>4, RememberedGoes
  <2>3. u \notin Cats!Rules /\ rule' = [rule EXCEPT ![u] = row]
    BY <1>4 DEF Cats!Rules, Cats!Row
  <2> HIDE DEF row
  <2> QED
    BY <1>1, <2>1, <2>2, <2>3, RuleIsWritten
<1> QED
  BY <1>3, <1>4 DEF Cats!InsertRule

LEMMA RepointRuleKeeps ==
  ASSUME CatInv, NEW r \in Requests, Cats!RepointRule(r)
  PROVE  CatInv'
<1> DEFINE u   == catReq[r].found
           row == [rule[u] EXCEPT !.category = catReq[r].category, !.active = TRUE]
<1>1. catPc[r] = "repoint" /\ catPc[r] \in Recalling /\ UNCHANGED <<category, tx, raced>>
  BY DEF Cats!RepointRule, Recalling
<1>2. catReq[r] \in Choice /\ catReq[r].keys # {} /\ u \in RuleIds
  BY <1>1, Keyed DEF CatInv, CatPending
<1>3. CASE /\ Cats!Row(rule[u]) /\ catReq[r].category \in Cats!CategoryIds /\ Cats!Remembered(r)
           /\ rule' = [rule EXCEPT ![u].category = catReq[r].category, ![u].active = TRUE]
  <2>1. u \in Cats!Rules /\ rule[u] \in Cats!RuleRow /\ rule[u].key # Cats!Nothing
    BY <1>2, <1>3 DEF CatInv, CatTables, References, Cats!Rules, Cats!Row
  <2>2. row \in Cats!RuleRow /\ row.category \in Cats!CategoryIds /\ row.key = rule[u].key
    BY <1>2, <1>3, <2>1 DEF Cats!RuleRow, Choice
  <2>3. rule' = [rule EXCEPT ![u] = row]
    BY <1>2, <1>3 DEF CatInv, CatTables
  <2>4. /\ OnlyMoves(r) /\ CatPending(r)' /\ Recalls(r)' /\ disturbed' \subseteq Requests
        /\ catPc' \in [Requests -> Statements] /\ catReq' = [q \in Requests |-> catReq'[q]]
        /\ disturbed \ {r} \subseteq disturbed'
    BY <1>1, <1>3, RememberedGoes
  <2> HIDE DEF row, u
  <2> QED
    BY <1>1, <1>2, <2>1, <2>2, <2>3, <2>4, RuleIsWritten
<1>4. CASE /\ ~(Cats!Row(rule[u]) /\ catReq[r].category \in Cats!CategoryIds)
           /\ Cats!Go(r, "error", catReq[r]) /\ UNCHANGED <<rule, disturbed>>
  <2>1. r \in disturbed
    BY <1>1, <1>2, <1>4 DEF CatInv, Recalls, Cats!Rules
  <2>2. catPc'[r] = "error" /\ catReq'[r] = catReq[r] => CatPending(r)' /\ Recalls(r)'
    BY <1>2, <1>4, <2>1 DEF CatPending, Recalls, Recalling
  <2> QED
    BY <1>1, <1>4, <2>2, ReadingKeeps DEF Statements, Recalling
<1> QED
  BY <1>3, <1>4 DEF Cats!RepointRule

LEMMA WriteRuleKeeps ==
  ASSUME CatInv, NEW r \in Requests, Cats!WriteRule(r)
  PROVE  CatInv'
<1> DEFINE u    == catReq[r].id
           body == catReq[r].body
           row  == IF catReq[r].new THEN body ELSE Cats!With(rule[u], body)
<1>1. /\ catPc[r] = "rule" /\ Cats!Go(r, "idle", None) /\ UNCHANGED <<category, tx, raced>>
      /\ IF catReq[r].new THEN rule[u] = None ELSE Cats!Row(rule[u])
      /\ "category" \in DOMAIN body => body.category \in Cats!CategoryIds
      /\ rule' = [rule EXCEPT ![u] = IF catReq[r].new THEN body ELSE Cats!With(@, body)]
      /\ disturbed' = (disturbed \cup Cats!Touched(IF Cats!Row(rule[u]) THEN {rule[u].key} ELSE {}, {})) \ {r}
  BY DEF Cats!WriteRule
<1>2. u \in RuleIds /\ Edits(body) /\ (catReq[r].new => body \in Cats!RuleRow)
  BY <1>1 DEF CatInv, CatPending
<1>3. row \in Cats!RuleRow /\ row.category \in Cats!CategoryIds /\ row.key # Cats!Nothing
  <2>1. CASE catReq[r].new
    <3>1. row = body /\ body \in Cats!RuleRow
      BY <1>2, <2>1
    <3>2. "category" \in DOMAIN body
      BY <3>1 DEF Cats!RuleRow
    <3>3. body.category \in Cats!CategoryIds /\ body.key # Cats!Nothing
      BY <1>1, <1>2, <3>2 DEF Edits, Taught
    <3> HIDE DEF row, body
    <3> QED
      BY <3>1, <3>3
  <2>2. CASE ~catReq[r].new
    <3>1. u \in Cats!Rules /\ rule[u] \in Cats!RuleRow /\ rule[u].category \in Cats!CategoryIds
      BY <1>1, <1>2, <2>2 DEF CatInv, CatTables, References, Cats!Rules, Cats!Row
    <3>2. row = Cats!With(rule[u], body)
      BY <2>2
    <3> HIDE DEF row, body, u
    <3> QED
      BY <1>1, <1>2, <3>1, <3>2 DEF Edits, Taught
  <2> QED
    BY <2>1, <2>2
<1>4. rule' = [rule EXCEPT ![u] = row]
  BY <1>1
<1> HIDE DEF row, body, u
<1>5. /\ OnlyMoves(r) /\ catPc'[r] = "idle"
      /\ catPc' \in [Requests -> Statements] /\ catReq' = [q \in Requests |-> catReq'[q]]
  BY <1>1, Goes DEF CatInv, Statements
<1>6. CatPending(r)' /\ Recalls(r)'
  BY <1>5, IdleIsFine
<1>7. disturbed' \subseteq Requests /\ disturbed \ {r} \subseteq disturbed'
  BY <1>1 DEF CatInv, CatTables, Cats!Touched
<1>8. u \in Cats!Rules => Cats!Touched({rule[u].key}, {}) \ {r} \subseteq disturbed'
  BY <1>1 DEF Cats!Rules
<1> QED
  BY <1>1, <1>2, <1>3, <1>4, <1>5, <1>6, <1>7, <1>8, RuleIsWritten

LEMMA DeleteRuleKeeps ==
  ASSUME CatInv, NEW u \in RuleIds, Cats!DeleteRule(u)
  PROVE  CatInv'
<1>1. /\ u \in Cats!Rules /\ rule' = [rule EXCEPT ![u] = Deleted]
      /\ disturbed' = disturbed \cup Cats!Touched({rule[u].key}, {})
      /\ UNCHANGED <<category, tx, catPc, catReq, raced>>
  BY DEF Cats!DeleteRule
<1>2. PICK r : r \notin Requests
  BY NoSetContainsEverything
<1>3. \A v \in Cats!Rules' : v \in Cats!Rules /\ rule'[v] = rule[v]
  BY <1>1 DEF CatInv, CatTables, Cats!Rules, Cats!Row
<1>4. \A v \in Cats!Rules : v # u => v \in Cats!Rules' /\ rule'[v] = rule[v]
  BY <1>1 DEF CatInv, CatTables, Cats!Rules, Cats!Row
<1>5. Stable /\ Cats!CategoryIds' = Cats!CategoryIds
  BY <1>1, SameCategories
<1>6. OnlyMoves(r)
  BY <1>1 DEF OnlyMoves
<1>7. Told(r)
  <2> SUFFICES ASSUME NEW q \in Requests, NEW v \in Cats!Rules, catPc[q] # "idle",
                      "keys" \in DOMAIN catReq[q], rule[v].key \in catReq[q].keys
               PROVE  (v \in Cats!Rules' /\ rule'[v].key = rule[v].key) \/ q \in disturbed'
    BY <1>1, <1>5 DEF Told
  <2>1. CASE v = u
    BY <1>1, <2>1 DEF Cats!Touched
  <2>2. CASE v # u
    BY <1>4, <2>2
  <2> QED
    BY <2>1, <2>2
<1>8. CatTables'
  <2>1. disturbed' \subseteq Requests
    BY <1>1 DEF CatInv, CatTables, Cats!Touched
  <2> QED
    BY <1>1, <2>1 DEF CatInv, CatTables
<1>9. Cats!Rows' = Cats!Rows
  BY <1>1 DEF Cats!Rows, Cats!Row
<1>10. References'
  BY <1>1, <1>3, <1>5, <1>9 DEF CatInv, References
<1>11. Cats!TypesAgreeUnlessRaced'
  BY <1>1, <1>5, <1>9, <1>10, AgreementStays DEF CatInv
<1> QED
  BY <1>2, <1>5, <1>6, <1>7, <1>8, <1>10, <1>11, CatAssembled

LEMMA CatStep == ASSUME CatInv, [Cats!Next]_(Cats!vars) PROVE CatInv'
<1>1. CASE Cats!Next
  <2>1. ASSUME NEW r \in Requests, Cats!Ask(r) PROVE CatInv'
    <3>1. ASSUME NEW o \in Own, Cats!StartDeleteCategory(r, o) PROVE CatInv'
      <4>1. Cats!Begin(r, "deleteCategory", [id |-> o])
        BY <3>1 DEF Cats!StartDeleteCategory
      <4>2. catPc'[r] = "deleteCategory" /\ catReq'[r] = [id |-> o] => CatPending(r)' /\ Recalls(r)'
        BY DEF CatPending, Recalls, Recalling
      <4> QED
        BY <2>1, <4>1, <4>2, BeginKeeps DEF Statements
    <3>2. ASSUME NEW t \in Transactions, NEW type \in Cats!Type, Cats!StartPatch(r, t, [type |-> type])
          PROVE  CatInv'
      BY <2>1, <3>2, StartPatchKeeps DEF Patches
    <3>3. ASSUME NEW t \in Transactions, NEW id \in Cats!CategoryIds,
                 Cats!StartPatch(r, t, [category |-> id])
                   \/ Cats!StartPatch(r, t, [category |-> id, type |-> Cats!TypeOf(id)])
          PROVE  CatInv'
      <4>1. id \in Cats!EveryId
        BY DEF Cats!CategoryIds, Cats!EveryId, Cats!Created
      <4>2. Cats!TypeOf(id) \in Cats!Type
        BY CategoryAssumption
           DEF Cats!CategoryIds, Cats!Created, Cats!Row, Cats!TypeOf, CatInv, CatTables, Cats!CategoryRow
      <4>3. [category |-> id] \in Patches /\ [category |-> id, type |-> Cats!TypeOf(id)] \in Patches
        BY <4>1, <4>2 DEF Patches
      <4> QED
        BY <2>1, <3>3, <4>3, StartPatchKeeps
    <3> QED
      BY <2>1, <3>1, <3>2, <3>3, StartCategoryKeeps, StartCreateKeeps, StartConvertKeeps,
         StartRecategorizeKeeps, StartRuleKeeps DEF Cats!Ask
  <2> QED
    BY <1>1, <2>1, WriteCategoryKeeps, DeleteCategoryKeeps, CreateKeeps, PatchKeeps, FindRuleKeeps,
       InsertRuleKeeps, FindRacedKeeps, RepointRuleKeeps, WriteRuleKeeps, FailKeeps, DeleteTransactionKeeps,
       DeleteRuleKeeps DEF Cats!Next
<1>2. CASE UNCHANGED Cats!vars
  <2>1. UNCHANGED <<category, tx, rule, catPc, catReq, raced, disturbed>>
    BY <1>2 DEF Cats!vars
  <2>2. PICK r : r \notin Requests
    BY NoSetContainsEverything
  <2>3. OnlyMoves(r) /\ Stable /\ Told(r)
    BY <2>1, NothingIsLost DEF OnlyMoves
  <2>4. CatTables'
    BY <2>1 DEF CatInv, CatTables
  <2>5. References' /\ Cats!TypesAgreeUnlessRaced'
    BY <2>1 DEF CatInv, References, Cats!TypesAgreeUnlessRaced, Cats!Rows, Cats!Rules, Cats!Row,
                Cats!CategoryIds, Cats!Created, Cats!TypeOf
  <2> QED
    BY <2>2, <2>3, <2>4, <2>5, CatAssembled
<1> QED
  BY <1>1, <1>2

LEMMA CatInit == Cats!Init => CatInv
<1> SUFFICES ASSUME Cats!Init PROVE CatInv
  OBVIOUS
<1>1. /\ catPc = [r \in Requests |-> "idle"] /\ catReq = [r \in Requests |-> None]
      /\ raced = {} /\ disturbed = {}
      /\ \A t \in Cats!Rows : Cats!TypeOf(tx[t].category) = tx[t].type
  BY DEF Cats!Init
<1>2. category \in [Own -> {None, Deleted} \cup Cats!CategoryRow]
  BY DEF Cats!Init
<1>3. Cats!CategoryIds \subseteq Cats!EveryId
  BY DEF Cats!CategoryIds, Cats!EveryId, Cats!Created
<1>4. /\ tx \in [Transactions -> {None, Deleted} \cup Cats!TransactionRow]
      /\ \A t \in Cats!Rows : tx[t].category \in Cats!CategoryIds
  <2> DEFINE kinds == {"MANUAL", "IMPORTED"}
             rows_ == [type : Cats!Type, category : Cats!CategoryIds, source : kinds]
  <2>1. tx \in [Transactions -> {None} \cup rows_]
    BY DEF Cats!Init
  <2>2. rows_ \subseteq Cats!TransactionRow /\ \A row \in rows_ : row.category \in Cats!CategoryIds
    BY <1>3 DEF Cats!TransactionRow
  <2> HIDE DEF rows_
  <2> QED
    BY <2>1, <2>2 DEF Cats!Rows, Cats!Row
<1>5. /\ rule \in [RuleIds -> {None, Deleted} \cup Cats!RuleRow]
      /\ \A u \in Cats!Rules : rule[u].category \in Cats!CategoryIds /\ rule[u].key # Cats!Nothing
  <2> DEFINE keys  == {Cats!normalizeMerchant(text) : text \in Texts} \ {Cats!Nothing}
             rows_ == [key : keys, category : Cats!CategoryIds, priority : Priorities, active : {TRUE}]
  <2>1. rule \in [RuleIds -> {None} \cup rows_]
    BY DEF Cats!Init
  <2>2. keys \subseteq Cats!Keys /\ Cats!Nothing \notin keys
    BY DEF Cats!Keys
  <2> HIDE DEF keys
  <2>3. rows_ \subseteq Cats!RuleRow
    BY <1>3, <2>2, CategoryAssumption DEF Cats!RuleRow
  <2>4. \A row \in rows_ : row.category \in Cats!CategoryIds /\ row.key # Cats!Nothing
    BY <2>2
  <2> HIDE DEF rows_
  <2> QED
    BY <2>1, <2>3, <2>4 DEF Cats!Rules, Cats!Row
<1>6. \A r \in Requests : catPc[r] = "idle"
  BY <1>1
<1>7. CatTables
  BY <1>1, <1>2, <1>4, <1>5 DEF CatTables, Statements
<1>8. References /\ Cats!TypesAgreeUnlessRaced
  BY <1>1, <1>4, <1>5 DEF References, Cats!TypesAgreeUnlessRaced
<1>9. \A r \in Requests : CatPending(r) /\ Recalls(r)
  BY <1>6 DEF CatPending, Recalls, Recalling
<1> QED
  BY <1>7, <1>8, <1>9 DEF CatInv

-----------------------------------------------------------------------------
(* What the user has taught, in the engine.  The order of the rules is     *)
(* computed by recursion (Iterated, IteratedTyped); what is needed of it   *)
(* is that no rule stands behind one it is ahead of, by priority and then  *)
(* by length (SortedIs), whatever the alphabet says.  A key that occurs in *)
(* another is shorter (PhraseFits), and a merchant has one rule            *)
(* (OneRulePerKey), so of the rules of one priority that match, the rule   *)
(* of the merchant itself comes first.                                     *)

\* A recursion on the numbers up to n whose steps stay in a set.
Recursion(n, T, first, step) ==
  \E f \in [0..n -> T] : f[0] = first /\ \A k \in 1..n : f[k] = step[k][f[k - 1]]

\* There is one, and every one stays in the set.
LEMMA Iterated ==
  ASSUME NEW n \in Nat, NEW T, NEW first \in T, NEW step, \A k \in 1..n : \A x \in T : step[k][x] \in T
  PROVE  Recursion(n, T, first, step)
<1> DEFINE Steps(f, m) == f[0] = first /\ \A k \in 1..m : f[k] = step[k][f[k - 1]]
           S == {m \in Nat : m <= n => \E f \in [0..m -> T] : Steps(f, m)}
<1>1. 0 \in S
  <2>1. [k \in 0..0 |-> first] \in [0..0 -> T] /\ Steps([k \in 0..0 |-> first], 0)
    OBVIOUS
  <2> QED
    BY <2>1
<1>2. \A m \in Nat : m \in S => m + 1 \in S
  <2> SUFFICES ASSUME NEW m \in Nat, m + 1 <= n, NEW f \in [0..m -> T], Steps(f, m)
               PROVE  \E h \in [0..(m + 1) -> T] : Steps(h, m + 1)
    OBVIOUS
  <2> DEFINE h == [k \in 0..(m + 1) |-> IF k = m + 1 THEN step[m + 1][f[m]] ELSE f[k]]
  <2>1. m + 1 \in 1..n /\ f[m] \in T
    OBVIOUS
  <2>2. h \in [0..(m + 1) -> T]
    BY <2>1
  <2>3. \A k \in 0..m : h[k] = f[k]
    OBVIOUS
  <2>4. h[m + 1] = step[m + 1][h[m]]
    BY <2>3
  <2> HIDE DEF h
  <2>5. \A k \in 1..(m + 1) : h[k] = step[k][h[k - 1]]
    <3> SUFFICES ASSUME NEW k \in 1..(m + 1) PROVE h[k] = step[k][h[k - 1]]
      OBVIOUS
    <3>1. CASE k = m + 1
      BY <2>4, <3>1
    <3>2. CASE k # m + 1
      <4>1. k \in 1..m /\ k \in 0..m /\ k - 1 \in 0..m
        BY <3>2
      <4> QED
        BY <2>3, <4>1
    <3> QED
      BY <3>1, <3>2
  <2> QED
    BY <2>2, <2>3, <2>5
<1> HIDE DEF S
<1>3. Nat \subseteq S
  BY <1>1, <1>2, Induction
<1> QED
  BY <1>3 DEF S, Recursion

LEMMA IteratedTyped ==
  ASSUME NEW n \in Nat, NEW T, NEW g, g[0] \in T, \A k \in 1..n : g[k - 1] \in T => g[k] \in T
  PROVE  \A k \in 0..n : g[k] \in T
<1> DEFINE S == {k \in Nat : k <= n => g[k] \in T}
<1>1. 0 \in S
  OBVIOUS
<1>2. \A k \in Nat : k \in S => k + 1 \in S
  <2> SUFFICES ASSUME NEW k \in Nat, k + 1 <= n, g[k] \in T PROVE g[k + 1] \in T
    OBVIOUS
  <2>1. k + 1 \in 1..n /\ (k + 1) - 1 = k
    OBVIOUS
  <2> QED
    BY <2>1
<1> HIDE DEF S
<1>3. Nat \subseteq S
  BY <1>1, <1>2, Induction
<1> QED
  BY <1>3 DEF S

\* The length of a key, token by token.
LEMMA LengthIs ==
  ASSUME NEW key \in Seq(Cats!Token)
  PROVE  \E f \in [0..Len(key) -> Int] :
           /\ f[0] = Len(key) - 1 /\ \A k \in 1..Len(key) : f[k] = f[k - 1] + Size[key[k]]
           /\ Cats!Length(key) = f[Len(key)]
<1> DEFINE n == Len(key)
           step == [k \in 1..n |-> [x \in Int |-> x + Size[key[k]]]]
           IsLength(f) == f = [k \in 0..n |-> IF k = 0 THEN n - 1 ELSE f[k - 1] + Size[key[k]]]
           g == CHOOSE f : IsLength(f)
           Numbers == Int
           before == n - 1
<1>1. n \in Nat /\ \A k \in 1..n : Size[key[k]] \in Nat
  BY SizeAssumption DEF Cats!Token
<1>2. before \in Numbers /\ \A k \in 1..n : \A x \in Numbers : step[k][x] \in Numbers
  BY <1>1
<1>3. Cats!Length(key) = g[n]
  BY DEF Cats!Length
<1> HIDE DEF n
<1>2a. \A k \in 1..n : \A x \in Int : step[k][x] = x + Size[key[k]]
  OBVIOUS
<1> HIDE DEF step, Numbers, before
<1>3a. Recursion(n, Numbers, before, step)
  BY <1>1, <1>2, Iterated
<1>4. PICK f \in [0..n -> Numbers] : f[0] = before /\ \A k \in 1..n : f[k] = step[k][f[k - 1]]
  BY <1>3a DEF Recursion
<1>5. \A k \in 1..n : f[k] = f[k - 1] + Size[key[k]]
  <2> TAKE k \in 1..n
  <2>1. f[k - 1] \in Int
    BY <1>1 DEF Numbers
  <2> QED
    BY <1>2a, <1>4, <2>1
<1>6. IsLength(f)
  BY <1>1, <1>4, <1>5 DEF Numbers, before
<1>7. IsLength(g)
  BY <1>6
<1> HIDE DEF g
<1>8. g[0] = before /\ \A k \in 1..n : g[k] = g[k - 1] + Size[key[k]]
  BY <1>1, <1>7 DEF before
<1>9. g[0] \in Numbers /\ \A k \in 1..n : g[k - 1] \in Numbers => g[k] \in Numbers
  <2>1. ASSUME NEW k \in 1..n, g[k - 1] \in Numbers PROVE g[k] \in Numbers
    <3>1. g[k - 1] + Size[key[k]] \in Int
      BY <1>1, <2>1 DEF Numbers
    <3> QED
      BY <1>8, <3>1 DEF Numbers
  <2> QED
    BY <1>2, <1>8, <2>1
<1>10. \A k \in 0..n : g[k] \in Numbers
  BY <1>1, <1>9, IteratedTyped
<1>11. g \in [0..n -> Int]
  BY <1>7, <1>10 DEF Numbers
<1> QED
  BY <1>3, <1>8, <1>11 DEF n, before
\* The tokens of a key from one place on are at least as many as the places.
LEMMA LengthGrows ==
  ASSUME NEW key \in Seq(Cats!Token), NEW f \in [0..Len(key) -> Int],
         \A k \in 1..Len(key) : f[k] = f[k - 1] + Size[key[k]]
  PROVE  \A i, j \in 0..Len(key) : i <= j => f[i] <= f[j]
<1> SUFFICES ASSUME NEW i \in 0..Len(key) PROVE \A j \in 0..Len(key) : i <= j => f[i] <= f[j]
  OBVIOUS
<1> DEFINE S == {d \in Nat : i + d <= Len(key) => f[i] <= f[i + d]}
<1>1. 0 \in S
  OBVIOUS
<1>2. \A d \in Nat : d \in S => d + 1 \in S
  <2> SUFFICES ASSUME NEW d \in Nat, i + d + 1 <= Len(key), f[i] <= f[i + d] PROVE f[i] <= f[i + (d + 1)]
    OBVIOUS
  <2>1. i + d + 1 \in 1..Len(key) /\ i + d \in 0..Len(key) /\ (i + d + 1) - 1 = i + d
    OBVIOUS
  <2>2. f[i + d + 1] = f[i + d] + Size[key[i + d + 1]] /\ Size[key[i + d + 1]] \in Nat
    BY <2>1, SizeAssumption DEF Cats!Token
  <2>3. f[i] \in Int /\ f[i + d] \in Int /\ i + (d + 1) = i + d + 1
    BY <2>1
  <2> QED
    BY <2>2, <2>3
<1> HIDE DEF S
<1>3. Nat \subseteq S
  BY <1>1, <1>2, Induction
<1>4. \A j \in 0..Len(key) : i <= j => j - i \in S
  BY <1>3
<1> QED
  BY <1>4 DEF S

\* A phrase is shorter than a key it occurs in, unless it is the key.
LEMMA PhraseFits ==
  ASSUME NEW key \in Seq(Cats!Token), NEW phrase \in Seq(Cats!Token), Cats!matchesPhrase(key, phrase)
  PROVE  Cats!Length(phrase) < Cats!Length(key) \/ phrase = key
<1> DEFINE n == Len(key)
           m == Len(phrase)
<1>1. n \in Nat /\ m \in Nat
  OBVIOUS
<1>2. PICK i \in 0..(n - m) : SubSeq(key, i + 1, i + m) = phrase
  BY DEF Cats!matchesPhrase
<1>3. \A k \in 1..m : phrase[k] = key[i + k]
  <2> TAKE k \in 1..m
  <2>1. i \in Nat /\ i + m <= n /\ i + 1 \in Int /\ i + m \in Int
    BY <1>1
  <2>2. \A j \in (i + 1)..(i + m) : key[j] \in Cats!Token
    BY <1>1, <2>1
  <2>3. k \in 1..((i + m) - (i + 1) + 1) /\ (i + 1) + k - 1 = i + k
    BY <1>1, <2>1
  <2> HIDE DEF n, m
  <2>4. SubSeq(key, i + 1, i + m)[k] = key[(i + 1) + k - 1]
    BY <2>1, <2>2, <2>3, SubSeqProperties
  <2> QED
    BY <1>2, <2>3, <2>4
<1>3a. i \in Nat /\ i + m <= n
  BY <1>1
<1>4. PICK f \in [0..n -> Int] : /\ f[0] = n - 1 /\ \A k \in 1..n : f[k] = f[k - 1] + Size[key[k]]
                                 /\ Cats!Length(key) = f[n]
  BY LengthIs
<1>5. PICK g \in [0..m -> Int] : /\ g[0] = m - 1 /\ \A k \in 1..m : g[k] = g[k - 1] + Size[phrase[k]]
                                 /\ Cats!Length(phrase) = g[m]
  BY LengthIs
<1> HIDE DEF n, m
<1>6. \A k \in 0..m : g[k] - g[0] = f[i + k] - f[i]
  <2> DEFINE S == {k \in Nat : k <= m => g[k] - g[0] = f[i + k] - f[i]}
  <2>1. 0 \in S
    BY <1>1
  <2>2. \A k \in Nat : k \in S => k + 1 \in S
    <3> SUFFICES ASSUME NEW k \in Nat, k + 1 <= m, g[k] - g[0] = f[i + k] - f[i]
                 PROVE  g[k + 1] - g[0] = f[i + (k + 1)] - f[i]
      BY <1>1
    <3>1. /\ k + 1 \in 1..m /\ k \in 0..m /\ i + k + 1 \in 1..n /\ i + k \in 0..n
          /\ (k + 1) - 1 = k /\ (i + k + 1) - 1 = i + k /\ i + (k + 1) = i + k + 1
      BY <1>1, <1>3a
    <3>2. g[k + 1] = g[k] + Size[phrase[k + 1]] /\ phrase[k + 1] = key[i + k + 1]
      BY <1>3, <1>5, <3>1
    <3>3. f[i + k + 1] = f[i + k] + Size[key[i + k + 1]] /\ Size[key[i + k + 1]] \in Nat
      <4>1. key[i + k + 1] \in Cats!Token
        BY <3>1 DEF n
      <4>2. Size[key[i + k + 1]] \in Nat
        BY <4>1, SizeAssumption
      <4>3. \A j \in 1..n : f[j] = f[j - 1] + Size[key[j]]
        BY <1>4
      <4>4. f[i + k + 1] = f[(i + k + 1) - 1] + Size[key[i + k + 1]]
        BY <3>1, <4>3
      <4>5. (i + k + 1) - 1 = i + k
        BY <1>1, <1>3a
      <4> QED
        BY <4>2, <4>4, <4>5
    <3>4. g[k] \in Int /\ g[0] \in Int /\ f[i] \in Int /\ f[i + k] \in Int
      BY <1>1, <3>1
    <3>5. g[k + 1] = g[k] + Size[key[i + k + 1]]
      BY <3>2
    <3>6. f[i + (k + 1)] = f[i + k] + Size[key[i + k + 1]]
      <4>1. i + (k + 1) = i + k + 1
        BY <1>3a
      <4> QED
        BY <3>3, <4>1
    <3> DEFINE a == g[k]
               b == g[0]
               c == f[i + k]
               d == f[i]
               e == Size[key[i + k + 1]]
    <3>7. a \in Int /\ b \in Int /\ c \in Int /\ d \in Int /\ e \in Int /\ a - b = c - d
      BY <3>3, <3>4
    <3>8. g[k + 1] = a + e /\ f[i + (k + 1)] = c + e
      BY <3>5, <3>6
    <3> HIDE DEF a, b, c, d, e
    <3>9. (a + e) - b = (c + e) - d
      BY <3>7
    <3> QED
      BY <3>8, <3>9 DEF b, d
  <2> HIDE DEF S
  <2>3. Nat \subseteq S
    BY <2>1, <2>2, Induction
  <2> QED
    BY <2>3 DEF S
<1>7. f[0] <= f[i] /\ f[i + m] <= f[n]
  <2>1. \A a, b \in 0..n : a <= b => f[a] <= f[b]
    BY <1>4, LengthGrows DEF n
  <2> QED
    BY <1>1, <2>1
<1>8. f[0] \in Int /\ f[i] \in Int /\ f[i + m] \in Int /\ f[n] \in Int /\ g[0] \in Int /\ g[m] \in Int
  BY <1>1
<1>9. g[m] - g[0] = f[i + m] - f[i]
  BY <1>1, <1>6
<1>10. CASE m < n
  BY <1>1, <1>4, <1>5, <1>7, <1>8, <1>9, <1>10
<1>11. CASE m >= n
  <2>1. i = 0 /\ m = n
    BY <1>1, <1>11
  <2>2. \A k \in 1..n : phrase[k] = key[k]
    BY <1>3, <2>1
  <2> QED
    BY <2>1, <2>2, SeqEqual DEF n, m
<1> QED
  BY <1>1, <1>10, <1>11

\* The user's rules as the engine reads them, and the order it has to respect, whatever the
\* alphabet says of the keys of the same length.
Known == [key : Seq(Cats!Token), category : Cats!EveryId, priority : Int]
Ahead(a, b) ==
  \/ a.priority > b.priority
  \/ a.priority = b.priority /\ Cats!Length(a.key) >= Cats!Length(b.key)

LEMMA LengthType == \A key \in Seq(Cats!Token) : Cats!Length(key) \in Int
<1> SUFFICES ASSUME NEW key \in Seq(Cats!Token) PROVE Cats!Length(key) \in Int
  OBVIOUS
<1>1. PICK f \in [0..Len(key) -> Int] : Cats!Length(key) = f[Len(key)]
  BY LengthIs
<1> QED
  BY <1>1

LEMMA AheadOrders ==
  /\ \A a, b \in Known : Ahead(a, b) \/ Ahead(b, a)
  /\ \A a, b, c \in Known : Ahead(a, b) /\ Ahead(b, c) => Ahead(a, c)
  /\ \A a, b \in Known : ~Ahead(b, a) => Cats!Before(a, b)
  /\ \A a, b \in Known : ~Ahead(a, b) => ~Cats!Before(a, b)
<1>1. \A a \in Known : a.priority \in Int /\ Cats!Length(a.key) \in Int
  BY LengthType DEF Known
<1>2. \A a, b \in Known : Ahead(a, b) \/ Ahead(b, a)
  BY <1>1 DEF Ahead
<1>3. \A a, b, c \in Known : Ahead(a, b) /\ Ahead(b, c) => Ahead(a, c)
  BY <1>1 DEF Ahead
<1>4. \A a, b \in Known : ~Ahead(b, a) => Cats!Before(a, b)
  BY <1>1 DEF Ahead, Cats!Before
<1>5. \A a, b \in Known : ~Ahead(a, b) => ~Cats!Before(a, b)
  BY <1>1 DEF Ahead, Cats!Before
<1> QED
  BY <1>2, <1>3, <1>4, <1>5

LEMMA InsertedAt ==
  ASSUME NEW R, NEW s \in Seq(R), NEW p \in 1..(Len(s) + 1), NEW e \in R
  PROVE  /\ Cats!InsertAt(s, p, e) \in Seq(R) /\ Len(Cats!InsertAt(s, p, e)) = Len(s) + 1
         /\ \A i \in 1..(Len(s) + 1) :
              Cats!InsertAt(s, p, e)[i] = IF i < p THEN s[i] ELSE IF i = p THEN e ELSE s[i - 1]
<1> DEFINE n == Len(s)
           m == p - 1
           low == SubSeq(s, 1, p - 1)
           high == SubSeq(s, p, n)
<1>1. n \in Nat /\ m \in Nat /\ m <= n /\ p = m + 1
  OBVIOUS
<1>2. \A i \in 1..n : s[i] \in R
  OBVIOUS
<1>2a. low = SubSeq(s, 1, m) /\ high = SubSeq(s, m + 1, n)
  BY <1>1
<1> HIDE DEF low, high, m, n
<1>3. low \in Seq(R) /\ Len(low) = m /\ \A i \in 1..m : low[i] = s[i]
  <2>1. \A i \in 1..m : s[i] \in R
    BY <1>1, <1>2
  <2>2. 1 \in Int /\ m \in Int /\ (1 <= m => m - 1 + 1 = m) /\ (~(1 <= m) => m = 0)
        /\ m - 1 + 1 = m
    BY <1>1
  <2>3. /\ SubSeq(s, 1, m) \in Seq(R) /\ Len(SubSeq(s, 1, m)) = IF 1 <= m THEN m - 1 + 1 ELSE 0
        /\ \A i \in 1..(m - 1 + 1) : SubSeq(s, 1, m)[i] = s[1 + i - 1]
    BY <2>1, <2>2, SubSeqProperties
  <2>4. \A i \in 1..m : 1 + i - 1 = i
    BY <1>1
  <2> QED
    BY <1>2a, <2>2, <2>3, <2>4
<1>4. high \in Seq(R) /\ Len(high) = n - m /\ \A i \in 1..(n - m) : high[i] = s[m + i]
  <2>1. \A i \in (m + 1)..n : s[i] \in R
    BY <1>1, <1>2
  <2>2. m + 1 \in Int /\ n \in Int /\ n - (m + 1) + 1 = n - m /\ (~(m + 1 <= n) => n - m = 0)
    BY <1>1
  <2>3. /\ SubSeq(s, m + 1, n) \in Seq(R)
        /\ Len(SubSeq(s, m + 1, n)) = IF m + 1 <= n THEN n - (m + 1) + 1 ELSE 0
        /\ \A i \in 1..(n - (m + 1) + 1) : SubSeq(s, m + 1, n)[i] = s[(m + 1) + i - 1]
    BY <2>1, <2>2, SubSeqProperties
  <2>4. \A i \in 1..(n - m) : (m + 1) + i - 1 = m + i
    BY <1>1
  <2> QED
    BY <1>2a, <2>2, <2>3, <2>4
<1> DEFINE one == <<e>>
<1>5. one \in Seq(R) /\ Len(one) = 1 /\ one[1] = e
  OBVIOUS
<1> HIDE DEF one
<1> DEFINE l == low \o one
<1>6. /\ l \in Seq(R) /\ Len(l) = Len(low) + Len(one)
      /\ \A i \in 1..(Len(low) + Len(one)) : l[i] = IF i <= Len(low) THEN low[i] ELSE one[i - Len(low)]
  BY <1>3, <1>5, ConcatProperties
<1>7. \A i \in 1..(m + 1) : l[i] = IF i <= m THEN s[i] ELSE e
  <2> TAKE i \in 1..(m + 1)
  <2>1. l[i] = IF i <= m THEN low[i] ELSE one[i - m]
    BY <1>3, <1>5, <1>6
  <2>2. i > m => i - m = 1
    BY <1>1
  <2> QED
    BY <1>1, <1>3, <1>5, <2>1, <2>2
<1>8. l \in Seq(R) /\ Len(l) = m + 1
  BY <1>3, <1>5, <1>6
<1> HIDE DEF l
<1> DEFINE t == l \o high
<1>9. /\ t \in Seq(R) /\ Len(t) = Len(l) + Len(high)
      /\ \A i \in 1..(Len(l) + Len(high)) : t[i] = IF i <= Len(l) THEN l[i] ELSE high[i - Len(l)]
  BY <1>4, <1>8, ConcatProperties
<1>10. Len(l) + Len(high) = n + 1
  BY <1>1, <1>4, <1>8
<1> HIDE DEF t
<1>11. \A i \in 1..(n + 1) : t[i] = IF i <= m THEN s[i] ELSE IF i = m + 1 THEN e ELSE s[i - 1]
  <2> TAKE i \in 1..(n + 1)
  <2>0. t[i] = IF i <= m + 1 THEN l[i] ELSE high[i - (m + 1)]
    BY <1>8, <1>9, <1>10
  <2>1. CASE i <= m + 1
    <3>1. i \in 1..(m + 1)
      BY <2>1
    <3> QED
      BY <1>1, <1>7, <2>0, <2>1, <3>1
  <2>2. CASE i > m + 1
    <3>1. i - (m + 1) \in 1..(n - m) /\ m + (i - (m + 1)) = i - 1
      BY <1>1, <2>2
    <3>2. high[i - (m + 1)] = s[i - 1]
      BY <1>4, <3>1
    <3> QED
      BY <1>1, <2>0, <2>2, <3>2
  <2> QED
    BY <1>1, <2>1, <2>2
<1>12. Cats!InsertAt(s, p, e) = t
  BY DEF Cats!InsertAt, t, l, one, low, high, n
<1> QED
  BY <1>1, <1>9, <1>10, <1>11, <1>12 DEF n

Elements(s) == {s[i] : i \in 1..Len(s)}
InOrder(s)  == \A i, j \in 1..Len(s) : i < j => Ahead(s[i], s[j])
Ordered     == {s \in Seq(Known) : InOrder(s)}

LEMMA SameCount == \A S : Cats!Cardinality(S) = Cardinality(S)
BY DEF Cats!Cardinality, Cardinality, IsFiniteSet, Cats!IsFiniteSet

\* A rule is inserted behind those that are ahead of it, however the alphabet decides
\* between the others.
LEMMA InsertedIs ==
  ASSUME NEW s \in Ordered, NEW e \in Known
  PROVE  Cats!Inserted(s, e) \in Ordered /\ Elements(Cats!Inserted(s, e)) = Elements(s) \cup {e}
<1> DEFINE n == Len(s)
           behind == {i \in DOMAIN s : ~Cats!Before(e, s[i])}
           m == Cats!Cardinality(behind)
           t == Cats!InsertAt(s, m + 1, e)
<1>1. s \in Seq(Known) /\ n \in Nat /\ DOMAIN s = 1..n /\ \A i \in 1..n : s[i] \in Known
  BY DEF Ordered
<1>2. \A i, j \in 1..n : i < j => Ahead(s[i], s[j])
  BY DEF Ordered, InOrder
<1>3. Cats!Inserted(s, e) = t
  BY DEF Cats!Inserted
<1>4. \A k \in 0..n : IsFiniteSet(1..k) /\ Cardinality(1..k) = k
  <2> TAKE k \in 0..n
  <2>1. 1 \in Int /\ k \in Int /\ (1 > k => k = 0) /\ k - 1 + 1 = k
    BY <1>1
  <2> QED
    BY <2>1, FS_Interval
<1>5. m \in 0..n /\ IsFiniteSet(behind) /\ m = Cardinality(behind)
  <2>1. behind \in SUBSET (1..n)
    BY <1>1
  <2>2. IsFiniteSet(1..n) /\ Cardinality(1..n) = n
    BY <1>1, <1>4
  <2>3. IsFiniteSet(behind) /\ Cardinality(behind) <= n
    BY <2>1, <2>2, FS_Subset
  <2>4. Cardinality(behind) \in Nat
    BY <2>3, FS_CardinalityType
  <2> QED
    BY <1>1, <2>3, <2>4, SameCount
<1>6. \A i \in behind : i \in 1..n /\ ~Cats!Before(e, s[i])
  BY <1>1
<1>7. \A i \in 1..n : ~Cats!Before(e, s[i]) => i \in behind
  BY <1>1
<1> HIDE DEF n, behind, m
<1>8. \A i \in 1..n : i <= m => Ahead(s[i], e)
  <2> SUFFICES ASSUME NEW i \in 1..n, ~Ahead(s[i], e) PROVE m < i
    BY <1>1, <1>5
  <2>1. \A j \in 1..n : i <= j => ~Ahead(s[j], e)
    BY <1>1, <1>2, AheadOrders
  <2>2. \A j \in 1..n : i <= j => Cats!Before(e, s[j])
    BY <1>1, <2>1, AheadOrders
  <2>3. behind \subseteq 1..(i - 1)
    BY <1>1, <1>6, <2>2
  <2>4. i - 1 \in 0..n
    BY <1>1
  <2>5. IsFiniteSet(1..(i - 1)) /\ Cardinality(1..(i - 1)) = i - 1
    BY <1>4, <2>4
  <2>6. Cardinality(behind) <= i - 1
    BY <2>3, <2>5, FS_Subset
  <2> QED
    BY <1>1, <1>5, <2>6
<1>9. \A i \in 1..n : i > m => Ahead(e, s[i])
  <2> SUFFICES ASSUME NEW i \in 1..n, ~Ahead(e, s[i]) PROVE i <= m
    BY <1>1, <1>5
  <2>1. \A j \in 1..n : j <= i => ~Ahead(e, s[j])
    BY <1>1, <1>2, AheadOrders
  <2>2. \A j \in 1..n : j <= i => ~Cats!Before(e, s[j])
    BY <1>1, <2>1, AheadOrders
  <2>3. 1..i \in SUBSET behind
    BY <1>1, <1>7, <2>2
  <2>4. i \in 0..n
    BY <1>1
  <2>5. Cardinality(1..i) <= Cardinality(behind)
    BY <1>5, <2>3, FS_Subset
  <2> QED
    BY <1>4, <1>5, <2>4, <2>5
<1>10. /\ t \in Seq(Known) /\ Len(t) = n + 1
       /\ \A i \in 1..(n + 1) : t[i] = IF i <= m THEN s[i] ELSE IF i = m + 1 THEN e ELSE s[i - 1]
  <2> DEFINE p == m + 1
  <2>1. p \in 1..(Len(s) + 1) /\ m \in Int /\ \A i \in 1..(n + 1) : (i < p <=> i <= m)
    BY <1>1, <1>5 DEF n
  <2>2. t = Cats!InsertAt(s, p, e)
    OBVIOUS
  <2> HIDE DEF t, p
  <2>3. /\ Cats!InsertAt(s, p, e) \in Seq(Known) /\ Len(Cats!InsertAt(s, p, e)) = Len(s) + 1
        /\ \A i \in 1..(Len(s) + 1) :
             Cats!InsertAt(s, p, e)[i] = IF i < p THEN s[i] ELSE IF i = p THEN e ELSE s[i - 1]
    BY <1>1, <2>1, InsertedAt
  <2> QED
    BY <2>1, <2>2, <2>3 DEF n, p
<1> HIDE DEF t
<1>11. InOrder(t)
  <2> SUFFICES ASSUME NEW i \in 1..(n + 1), NEW j \in 1..(n + 1), i < j PROVE Ahead(t[i], t[j])
    BY <1>10 DEF InOrder
  <2>1. CASE j <= m
    <3>1. t[i] = s[i] /\ t[j] = s[j] /\ i \in 1..n /\ j \in 1..n
      BY <1>1, <1>5, <1>10, <2>1
    <3> QED
      BY <1>2, <3>1
  <2>2. CASE i <= m /\ j = m + 1
    <3>1. t[i] = s[i] /\ t[j] = e /\ i \in 1..n
      BY <1>1, <1>5, <1>10, <2>2
    <3> QED
      BY <1>8, <2>2, <3>1
  <2>3. CASE i <= m /\ j > m + 1
    <3>1. t[i] = s[i] /\ t[j] = s[j - 1] /\ i \in 1..n /\ j - 1 \in 1..n /\ i < j - 1
      BY <1>1, <1>5, <1>10, <2>3
    <3> QED
      BY <1>2, <3>1
  <2>4. CASE i = m + 1
    <3>1. t[i] = e /\ t[j] = s[j - 1] /\ j - 1 \in 1..n /\ j - 1 > m
      BY <1>1, <1>5, <1>10, <2>4
    <3> QED
      BY <1>9, <3>1
  <2>5. CASE i > m + 1
    <3>1. t[i] = s[i - 1] /\ t[j] = s[j - 1] /\ i - 1 \in 1..n /\ j - 1 \in 1..n /\ i - 1 < j - 1
      BY <1>1, <1>5, <1>10, <2>5
    <3> QED
      BY <1>2, <3>1
  <2>6. m \in Nat /\ i \in Int /\ j \in Int
    BY <1>1, <1>5
  <2> QED
    BY <2>1, <2>2, <2>3, <2>4, <2>5, <2>6
<1>12. Elements(t) \subseteq Elements(s) \cup {e}
  <2> SUFFICES ASSUME NEW i \in 1..(n + 1) PROVE t[i] \in Elements(s) \cup {e}
    BY <1>10 DEF Elements
  <2>1. t[i] = e \/ (i \in 1..n /\ t[i] = s[i]) \/ (i - 1 \in 1..n /\ t[i] = s[i - 1])
    BY <1>1, <1>5, <1>10
  <2> QED
    BY <2>1 DEF Elements, n
<1>13. Elements(s) \cup {e} \subseteq Elements(t)
  <2>1. e \in Elements(t)
    <3>1. m + 1 \in 1..(n + 1) /\ t[m + 1] = e
      BY <1>1, <1>5, <1>10
    <3> QED
      BY <1>10, <3>1 DEF Elements
  <2>2. ASSUME NEW i \in 1..n PROVE s[i] \in Elements(t)
    <3>1. CASE i <= m
      <4>1. i \in 1..(n + 1) /\ t[i] = s[i]
        BY <1>1, <1>5, <1>10, <3>1
      <4> QED
        BY <1>10, <4>1 DEF Elements
    <3>2. CASE i > m
      <4>1. i + 1 \in 1..(n + 1) /\ t[i + 1] = s[(i + 1) - 1] /\ (i + 1) - 1 = i
        BY <1>1, <1>5, <1>10, <3>2
      <4> QED
        BY <1>10, <4>1 DEF Elements
    <3> QED
      BY <1>1, <1>5, <3>1, <3>2
  <2> QED
    BY <2>1, <2>2 DEF Elements, n
<1> QED
  BY <1>3, <1>10, <1>11, <1>12, <1>13 DEF Ordered

\* Sorting keeps the rules and puts none behind one it is ahead of.
LEMMA SortedIs ==
  ASSUME NEW rules \in Seq(Known)
  PROVE  Cats!Sorted(rules) \in Ordered /\ Elements(Cats!Sorted(rules)) = Elements(rules)
<1> DEFINE n == Len(rules)
           step == [k \in 1..n |-> [s \in Ordered |-> Cats!Inserted(s, rules[k])]]
           IsSort(f) == f = [k \in 0..n |-> IF k = 0 THEN <<>> ELSE Cats!Inserted(f[k - 1], rules[k])]
           g == CHOOSE f : IsSort(f)
<1>1. n \in Nat /\ \A k \in 1..n : rules[k] \in Known
  OBVIOUS
<1>2. <<>> \in Ordered /\ Elements(<<>>) = {}
  BY DEF Ordered, InOrder, Elements
<1>3. \A k \in 1..n : \A s \in Ordered : step[k][s] = Cats!Inserted(s, rules[k]) /\ step[k][s] \in Ordered
  BY <1>1, InsertedIs
<1>4. Cats!Sorted(rules) = g[n]
  BY DEF Cats!Sorted
<1> HIDE DEF n, step
<1>5. Recursion(n, Ordered, <<>>, step)
  BY <1>1, <1>2, <1>3, Iterated
<1>6. PICK f \in [0..n -> Ordered] : f[0] = <<>> /\ \A k \in 1..n : f[k] = step[k][f[k - 1]]
  BY <1>5 DEF Recursion
<1>7. \A k \in 1..n : f[k] = Cats!Inserted(f[k - 1], rules[k])
  <2> TAKE k \in 1..n
  <2>1. k - 1 \in 0..n
    BY <1>1
  <2> QED
    BY <1>3, <1>6, <2>1
<1>8. IsSort(f)
  BY <1>1, <1>6, <1>7
<1>9. IsSort(g)
  BY <1>8
<1> HIDE DEF g
<1>10. g[0] = <<>> /\ \A k \in 1..n : g[k] = Cats!Inserted(g[k - 1], rules[k])
  BY <1>1, <1>9
<1>11. \A k \in 1..n : g[k - 1] \in Ordered => g[k] \in Ordered /\ Elements(g[k]) = Elements(g[k - 1]) \cup {rules[k]}
  BY <1>1, <1>10, InsertedIs
<1>12. \A k \in 0..n : g[k] \in Ordered
  BY <1>1, <1>2, <1>10, <1>11, IteratedTyped
<1>13. \A k \in 0..n : Elements(g[k]) = {rules[i] : i \in 1..k}
  <2> DEFINE Taken(k) == {rules[i] : i \in 1..k}
             S == {k \in Nat : k <= n => Elements(g[k]) = Taken(k)}
  <2>1. 0 \in S
    BY <1>2, <1>10
  <2> HIDE DEF Taken
  <2>2. \A k \in Nat : k \in S => k + 1 \in S
    <3> SUFFICES ASSUME NEW k \in Nat, k + 1 <= n, Elements(g[k]) = Taken(k)
                 PROVE  Elements(g[k + 1]) = Taken(k + 1)
      BY <1>1
    <3>1. k + 1 \in 1..n /\ k \in 0..n /\ (k + 1) - 1 = k
      BY <1>1
    <3>2. Elements(g[k + 1]) = Elements(g[k]) \cup {rules[k + 1]}
      BY <1>11, <1>12, <3>1
    <3>3. 1..(k + 1) = (1..k) \cup {k + 1}
      OBVIOUS
    <3>4. \A x : (\E i \in (1..k) \cup {k + 1} : x = rules[i]) <=> ((\E i \in 1..k : x = rules[i]) \/ x = rules[k + 1])
      OBVIOUS
    <3>5. {rules[i] : i \in (1..k) \cup {k + 1}} = {rules[i] : i \in 1..k} \cup {rules[k + 1]}
      BY <3>4
    <3> QED
      BY <3>2, <3>3, <3>5 DEF Taken
  <2> HIDE DEF S
  <2>3. Nat \subseteq S
    BY <2>1, <2>2, Induction
  <2> QED
    BY <1>1, <2>3 DEF S, Taken
<1>14. g[n] \in Ordered /\ Elements(g[n]) = {rules[i] : i \in 1..n}
  <2>1. n \in 0..n
    BY <1>1
  <2>2. g[n] \in Ordered
    BY <1>12, <2>1
  <2>3. Elements(g[n]) = {rules[i] : i \in 1..n}
    BY <1>13, <2>1
  <2> QED
    BY <2>2, <2>3
<1> QED
  BY <1>4, <1>14 DEF Elements, n

\* A key consists of tokens.
LEMMA KeysAreTexts == Cats!Keys \subseteq Seq(Cats!Token)
<1>1. ASSUME NEW text \in Seq(Cats!Token) PROVE Cats!normalizeTokens(text) \in Seq(Cats!Token)
  <2> DEFINE n == Len(text)
             T == [tokens : Seq(Cats!Token), previousWasNoise : BOOLEAN]
             empty == [tokens |-> Cats!Nothing, previousWasNoise |-> FALSE]
             Read(kept, w) ==
               IF w \in Noise THEN [kept EXCEPT !.previousWasNoise = TRUE]
               ELSE IF kept.previousWasNoise /\ w \in Digits THEN kept
               ELSE [tokens |-> Append(kept.tokens, w), previousWasNoise |-> FALSE]
             step == [k \in 1..n |-> [x \in T |-> Read(x, text[k])]]
             IsRead(f) == f = [k \in 0..n |-> IF k = 0 THEN empty ELSE Read(f[k - 1], text[k])]
             g == CHOOSE f : IsRead(f)
  <2>1. n \in Nat /\ \A k \in 1..n : text[k] \in Cats!Token
    OBVIOUS
  <2>2. empty \in T
    BY DEF Cats!Nothing
  <2>3. \A x \in T, w \in Cats!Token : Read(x, w) \in T
    <3> SUFFICES ASSUME NEW x \in T, NEW w \in Cats!Token PROVE Read(x, w) \in T
      OBVIOUS
    <3>1. [x EXCEPT !.previousWasNoise = TRUE] \in T
      OBVIOUS
    <3>2. Append(x.tokens, w) \in Seq(Cats!Token)
      BY AppendProperties
    <3>3. [tokens |-> Append(x.tokens, w), previousWasNoise |-> FALSE] \in T
      BY <3>2
    <3> HIDE DEF T
    <3> QED
      BY <3>1, <3>3
  <2>4. Cats!normalizeTokens(text) = g[n].tokens
    BY DEF Cats!normalizeTokens
  <2> HIDE DEF n, T, empty, Read
  <2>5. \A k \in 1..n : \A x \in T : step[k][x] = Read(x, text[k]) /\ step[k][x] \in T
    BY <2>1, <2>3
  <2> HIDE DEF step
  <2>6. Recursion(n, T, empty, step)
    BY <2>1, <2>2, <2>5, Iterated
  <2>7. PICK f \in [0..n -> T] : f[0] = empty /\ \A k \in 1..n : f[k] = step[k][f[k - 1]]
    BY <2>6 DEF Recursion
  <2>8. \A k \in 1..n : f[k] = Read(f[k - 1], text[k])
    <3> TAKE k \in 1..n
    <3>1. k - 1 \in 0..n
      BY <2>1
    <3> QED
      BY <2>5, <2>7, <3>1
  <2>9. IsRead(f)
    BY <2>1, <2>7, <2>8
  <2>10. IsRead(g)
    BY <2>9
  <2> HIDE DEF g
  <2>11. g[0] = empty /\ \A k \in 1..n : g[k] = Read(g[k - 1], text[k])
    BY <2>1, <2>10
  <2>12. \A k \in 1..n : g[k - 1] \in T => g[k] \in T
    BY <2>1, <2>3, <2>11
  <2>13. g[0] \in T
    BY <2>2, <2>11
  <2>14. \A k \in 0..n : g[k] \in T
    BY <2>1, <2>12, <2>13, IteratedTyped
  <2> QED
    BY <2>1, <2>4, <2>14 DEF T
<1>2. ASSUME NEW s \in Seq(Cats!Token), Len(s) > 1 PROVE Cats!Front(s) \in Seq(Cats!Token)
  <2>1. 1 \in Int /\ Len(s) - 1 \in Int /\ \A i \in 1..(Len(s) - 1) : s[i] \in Cats!Token
    OBVIOUS
  <2>2. SubSeq(s, 1, Len(s) - 1) \in Seq(Cats!Token)
    BY <2>1, SubSeqProperties
  <2> QED
    BY <2>2 DEF Cats!Front
<1>3. ASSUME NEW text \in Seq(Cats!Token) PROVE Cats!normalizeMerchant(text) \in Seq(Cats!Token)
  BY <1>1, <1>2 DEF Cats!normalizeMerchant
<1> QED
  BY <1>3, SizeAssumption DEF Cats!Keys

LEMMA LeastIndex ==
  ASSUME NEW I \in SUBSET Nat, I # {}
  PROVE  Cats!Min(I) \in I /\ \A i \in I : Cats!Min(I) <= i
<1>1. \E m \in I : \A i \in I : m <= i
  BY LeastNumber
<1> QED
  BY <1>1 DEF Cats!Min

\* The rule matches the merchant, and has a category of the type.
Applies(categories, input, known) ==
  /\ Cats!matchesPhrase(Cats!normalizeMerchant(input.merchant), known.key)
  /\ Cats!usableById(categories, known.category, input.type) # {}

\* Of the rules that apply one that no other is ahead of is taken.
LEMMA FirstApplies ==
  ASSUME NEW categories, NEW input, NEW rules \in Seq(Known),
         NEW u \in Elements(rules), Applies(categories, input, u)
  PROVE  \E v \in Elements(rules) :
           /\ Applies(categories, input, v) /\ Ahead(v, u)
           /\ Cats!FromUserRules(categories, rules, input) = Cats!usableById(categories, v.category, input.type)
<1> DEFINE s == Cats!Sorted(rules)
           I == {i \in 1..Len(s) : Applies(categories, input, s[i])}
           first == IF I # {} THEN Cats!Min(I) ELSE 0
<1>1. s \in Seq(Known) /\ InOrder(s) /\ Elements(s) = Elements(rules)
  BY SortedIs DEF Ordered
<1>2. Cats!FromUserRules(categories, rules, input) =
        IF first = 0 THEN {} ELSE Cats!usableById(categories, s[first].category, input.type)
  BY Zenon DEF Cats!FromUserRules, Cats!SelectInSeq, Applies
<1> HIDE DEF s
<1>3. PICK j \in 1..Len(s) : s[j] = u
  BY <1>1 DEF Elements
<1>4. I \in SUBSET Nat /\ j \in I
  BY <1>1, <1>3
<1>5. first \in I /\ first <= j
  BY <1>4, LeastIndex
<1>6. first \in 1..Len(s) /\ Applies(categories, input, s[first]) /\ first # 0
  BY <1>1, <1>5
<1> HIDE DEF first, I
<1>7. s[first] \in Elements(rules)
  BY <1>1, <1>6 DEF Elements
<1>8. Ahead(s[first], u)
  <2>1. CASE first = j
    <3>1. u \in Known
      BY <1>1, <1>3
    <3> QED
      BY <1>3, <2>1, <3>1, AheadOrders
  <2>2. CASE first < j
    BY <1>1, <1>3, <1>6, <2>2 DEF InOrder
  <2> QED
    BY <1>1, <1>5, <1>6, <2>1, <2>2
<1> QED
  BY <1>2, <1>6, <1>7, <1>8

\* What the user has taught comes before everything but the user's own choice.
LEMMA TaughtComesFirst ==
  ASSUME NEW categories, NEW input, NEW rules, input.chosen = FALSE,
         Cats!FromUserRules(categories, rules, input) # {}
  PROVE  Cats!categorize(categories, rules, input) =
           Cats!Outcome((CHOOSE c \in Cats!FromUserRules(categories, rules, input) : TRUE).id, "USER_RULE")
<1> DEFINE chosen == IF input.chosen THEN Cats!usableById(categories, input.existing, input.type) ELSE {}
           taught == Cats!FromUserRules(categories, rules, input)
           named == Cats!FromTable(categories, MerchantRules, Cats!normalizeMerchant(input.merchant), input.type)
           paid == Cats!FromChannels(categories, input.channels, input.type)
           described == Cats!FromTable(categories, DescriptionRules, input.description, input.type)
           present == IF input.chosen THEN {} ELSE Cats!usableById(categories, input.existing, input.type)
           default == Cats!usableByName(categories, DefaultName[input.type], input.type)
           tiers == << <<"MANUAL", chosen>>, <<"USER_RULE", taught>>, <<"MERCHANT_RULE", named>>,
                       <<"PAYMENT_CHANNEL_RULE", paid>>, <<"DESCRIPTION_RULE", described>>,
                       <<"EXISTING_CATEGORY", present>>, <<"DEFAULT_CATEGORY", default>> >>
           hits == {i \in 1..Len(tiers) : tiers[i][2] # {}}
           first == IF hits # {} THEN Cats!Min(hits) ELSE 0
<1>1. Cats!categorize(categories, rules, input) =
        IF first = 0 THEN Cats!None_ ELSE Cats!Outcome((CHOOSE c \in tiers[first][2] : TRUE).id, tiers[first][1])
  BY Zenon DEF Cats!categorize, Cats!SelectInSeq
<1>2. chosen = {} /\ taught # {}
  OBVIOUS
<1> HIDE DEF chosen, taught, named, paid, described, present, default
<1>3. Len(tiers) = 7 /\ tiers[1][2] = chosen /\ tiers[2][2] = taught /\ tiers[2][1] = "USER_RULE"
  OBVIOUS
<1> HIDE DEF tiers
<1>4. hits \in SUBSET Nat /\ 2 \in hits /\ 1 \notin hits /\ 0 \notin hits
  BY <1>2, <1>3
<1> HIDE DEF hits
<1>5. Cats!Min(hits) \in hits /\ \A i \in hits : Cats!Min(hits) <= i
  BY <1>4, LeastIndex
<1>6. first = 2
  <2>1. Cats!Min(hits) \in Nat /\ Cats!Min(hits) <= 2 /\ Cats!Min(hits) # 0 /\ Cats!Min(hits) # 1
    BY <1>4, <1>5
  <2>2. Cats!Min(hits) = 2
    BY <2>1
  <2> QED
    BY <1>4, <2>2
<1> HIDE DEF first
<1> DEFINE One(T) == CHOOSE c \in T : TRUE
<1>7. Cats!categorize(categories, rules, input) = Cats!Outcome(One(tiers[2][2]).id, tiers[2][1])
  BY <1>1, <1>6
<1> HIDE DEF One
<1>8. Cats!categorize(categories, rules, input) = Cats!Outcome(One(taught).id, "USER_RULE")
  BY <1>3, <1>7
<1> QED
  BY <1>8 DEF taught, One

\* A merchant has one rule: the unique index, and the checks before every write.
OneRulePerKey == \A u, v \in Cats!Rules : rule[u].key = rule[v].key => u = v

LEMMA FewerRules ==
  ASSUME OneRulePerKey, \A v \in Cats!Rules' : v \in Cats!Rules /\ rule'[v].key = rule[v].key
  PROVE  OneRulePerKey'
BY DEF OneRulePerKey

LEMMA KeyIsFree ==
  ASSUME OneRulePerKey, CatTables, NEW u \in RuleIds, NEW row, rule' = [rule EXCEPT ![u] = row],
         Cats!RuleFor(row.key) \subseteq {u}
  PROVE  OneRulePerKey'
<1>1. rule'[u] = row /\ \A v \in RuleIds \ {u} : rule'[v] = rule[v]
  BY DEF CatTables
<1>2. \A v \in Cats!Rules' : v \in RuleIds /\ (v = u \/ (v \in Cats!Rules /\ rule'[v] = rule[v] /\ v # u))
  BY <1>1 DEF Cats!Rules, Cats!Row
<1>3. \A v \in Cats!Rules : rule[v].key = row.key => v = u
  BY DEF Cats!RuleFor
<1> QED
  BY <1>1, <1>2, <1>3 DEF OneRulePerKey

LEMMA OneRuleStep == ASSUME CatInv, OneRulePerKey, [Cats!Next]_(Cats!vars) PROVE OneRulePerKey'
<1>1. CASE UNCHANGED rule
  BY <1>1, FewerRules DEF Cats!Rules
<1>2. ASSUME NEW r \in Requests, Cats!Ask(r) PROVE UNCHANGED rule
  <2>1. ASSUME NEW statement, NEW request, Cats!Begin(r, statement, request) PROVE UNCHANGED rule
    BY <2>1 DEF Cats!Begin
  <2> QED
    BY <1>2, <2>1 DEF Cats!Ask, Cats!StartCategory, Cats!StartDeleteCategory, Cats!StartCreate, Cats!StartPatch,
       Cats!StartConvert, Cats!StartRecategorize, Cats!StartRule
<1>3. ASSUME NEW r \in Requests, Cats!InsertRule(r) PROVE OneRulePerKey'
  <2>1. CASE UNCHANGED rule
    BY <1>1, <2>1
  <2>2. ASSUME NEW u \in RuleIds, Cats!RuleFor(Cats!Key(r)) = {},
               rule' = [rule EXCEPT ![u] = [key |-> Cats!Key(r), category |-> catReq[r].category,
                                            priority |-> 0, active |-> TRUE]]
        PROVE  OneRulePerKey'
    <3> DEFINE row == [key |-> Cats!Key(r), category |-> catReq[r].category, priority |-> 0, active |-> TRUE]
    <3>1. row.key = Cats!Key(r) /\ rule' = [rule EXCEPT ![u] = row]
      BY <2>2
    <3> HIDE DEF row
    <3> QED
      BY <2>2, <3>1, KeyIsFree DEF CatInv
  <2> QED
    BY <1>3, <2>1, <2>2 DEF Cats!InsertRule
<1>4. ASSUME NEW r \in Requests, Cats!RepointRule(r) PROVE OneRulePerKey'
  <2>1. CASE UNCHANGED rule
    BY <1>1, <2>1
  <2>2. CASE /\ Cats!Row(rule[catReq[r].found])
             /\ rule' = [rule EXCEPT ![catReq[r].found].category = catReq[r].category,
                                     ![catReq[r].found].active = TRUE]
    <3> DEFINE u == catReq[r].found
    <3>1. u \in RuleIds
      BY <1>4 DEF CatInv, CatPending, Cats!RepointRule
    <3>2. u \in Cats!Rules /\ rule[u] \in Cats!RuleRow
      BY <2>2, <3>1 DEF CatInv, CatTables, Cats!Rules, Cats!Row
    <3>3. \A v \in RuleIds : v # u => rule'[v] = rule[v]
      BY <2>2, <3>1 DEF CatInv, CatTables
    <3>4. rule'[u].key = rule[u].key
      BY <2>2, <3>1, <3>2 DEF CatInv, CatTables, Cats!RuleRow
    <3>5. \A v \in Cats!Rules' : v \in Cats!Rules /\ rule'[v].key = rule[v].key
      BY <3>2, <3>3, <3>4 DEF Cats!Rules, Cats!Row
    <3> QED
      BY <3>5, FewerRules
  <2> QED
    BY <1>4, <2>1, <2>2 DEF Cats!RepointRule
<1>5. ASSUME NEW r \in Requests, Cats!WriteRule(r) PROVE OneRulePerKey'
  <2> DEFINE u    == catReq[r].id
             body == catReq[r].body
             row  == IF catReq[r].new THEN body ELSE Cats!With(rule[u], body)
  <2>1. /\ catPc[r] = "rule" /\ Cats!RuleFor(body.key) \subseteq {u}
        /\ IF catReq[r].new THEN rule[u] = None ELSE Cats!Row(rule[u])
        /\ rule' = [rule EXCEPT ![u] = IF catReq[r].new THEN body ELSE Cats!With(@, body)]
    BY <1>5 DEF Cats!WriteRule
  <2>2. u \in RuleIds /\ Edits(body)
    BY <2>1 DEF CatInv, CatPending
  <2>3. row.key = body.key
    <3>1. CASE catReq[r].new
      BY <3>1
    <3>2. CASE ~catReq[r].new
      <4>1. rule[u] \in Cats!RuleRow
        BY <2>1, <2>2, <3>2 DEF CatInv, CatTables, Cats!Row
      <4> QED
        BY <2>2, <3>2, <4>1 DEF Edits
    <3> QED
      BY <3>1, <3>2
  <2>4. rule' = [rule EXCEPT ![u] = row]
    BY <2>1
  <2> HIDE DEF row, body, u
  <2> QED
    BY <2>1, <2>2, <2>3, <2>4, KeyIsFree DEF CatInv
<1>6. ASSUME NEW r \in Requests, Cats!DeleteCategory(r) PROVE OneRulePerKey'
  <2>1. rule' = [u \in RuleIds |-> IF u \in {v \in Cats!Rules : rule[v].category = catReq[r].id} THEN Deleted ELSE rule[u]]
    BY <1>6 DEF Cats!DeleteCategory
  <2>2. \A v \in Cats!Rules' : v \in Cats!Rules /\ rule'[v].key = rule[v].key
    BY <2>1 DEF Cats!Rules, Cats!Row
  <2> QED
    BY <2>2, FewerRules
<1>7. ASSUME NEW u \in RuleIds, Cats!DeleteRule(u) PROVE OneRulePerKey'
  <2>1. rule' = [rule EXCEPT ![u] = Deleted]
    BY <1>7 DEF Cats!DeleteRule
  <2>2. \A v \in Cats!Rules' : v \in Cats!Rules /\ rule'[v].key = rule[v].key
    BY <2>1 DEF CatInv, CatTables, Cats!Rules, Cats!Row
  <2> QED
    BY <2>2, FewerRules
<1>8. ASSUME NEW r \in Requests,
             \/ Cats!WriteCategory(r) \/ Cats!Create(r) \/ Cats!Patch(r) \/ Cats!FindRule(r) \/ Cats!FindRaced(r)
             \/ Cats!Fail(r)
      PROVE  UNCHANGED rule
  BY <1>8 DEF Cats!WriteCategory, Cats!Create, Cats!Patch, Cats!FindRule, Cats!FindRaced, Cats!Fail
<1>9. ASSUME NEW t \in Transactions, Cats!DeleteTransaction(t) PROVE UNCHANGED rule
  BY <1>9 DEF Cats!DeleteTransaction
<1>10. CASE UNCHANGED Cats!vars
  BY <1>1, <1>10 DEF Cats!vars
<1> QED
  BY <1>1, <1>2, <1>3, <1>4, <1>5, <1>6, <1>7, <1>8, <1>9, <1>10 DEF Cats!Next

\* Every order in which the rules are read has each of them.
LEMMA OrderHasAll ==
  ASSUME CatTables, NEW order \in Cats!SetToSeqs(Cats!UserRules)
  PROVE  order \in Seq(Known) /\ Elements(order) = Cats!UserRules
<1> DEFINE U == Cats!UserRules
           n == Cardinality(U)
           Read(u) == [key |-> rule[u].key, category |-> rule[u].category, priority |-> rule[u].priority]
           A == {v \in Cats!Rules : rule[v].active}
<1>1. U = {Read(u) : u \in A}
  BY DEF Cats!UserRules
<1>2. IsFiniteSet(U)
  <2>1. A \in SUBSET RuleIds
    BY DEF Cats!Rules
  <2>2. IsFiniteSet(A)
    BY <2>1, RuleIdsAssumption, FS_Subset
  <2> DEFINE f == [u \in A |-> Read(u)]
  <2>3. U = {f[u] : u \in A}
    BY <1>1
  <2>4. f \in Surjection(A, U)
    BY <2>3 DEF Surjection
  <2> HIDE DEF A, U, f
  <2> QED
    BY <2>2, <2>4, FS_Surjection
<1>3. U \subseteq Known
  <2> SUFFICES ASSUME NEW u \in A PROVE Read(u) \in Known
    BY <1>1
  <2>1. rule[u] \in Cats!RuleRow
    BY DEF CatTables, Cats!Rules, Cats!Row
  <2>2. rule[u].key \in Seq(Cats!Token) /\ rule[u].category \in Cats!EveryId /\ rule[u].priority \in Int
    BY <2>1, KeysAreTexts DEF Cats!RuleRow
  <2> QED
    BY <2>2 DEF Known
<1>4. order \in [1..n -> U] /\ \A i, j \in 1..n : i # j => order[i] # order[j]
  BY SameCount DEF Cats!SetToSeqs
<1> HIDE DEF U, n
<1>5. n \in Nat /\ n = Cardinality(U)
  BY <1>2, FS_CardinalityType DEF n
<1>6. order \in Injection(1..n, U)
  BY <1>4 DEF Injection, IsInjective
<1>7. Cardinality(1..n) = n
  <2>1. 1 \in Int /\ n \in Int /\ (1 > n => n = 0) /\ n - 1 + 1 = n
    BY <1>5
  <2> QED
    BY <2>1, FS_Interval
<1>8. order \in Surjection(1..n, U)
  BY <1>2, <1>5, <1>6, <1>7, FS_Injection
<1>9. order \in Seq(Known) /\ Len(order) = n
  BY <1>3, <1>4, <1>5
<1>10. Elements(order) = U
  BY <1>4, <1>8, <1>9 DEF Surjection, Elements
<1> QED
  BY <1>9, <1>10 DEF U

\* A category that is there is usable, for its type and for no other.
LEMMA UsableByItsType ==
  ASSUME CatTables, NEW id, NEW type
  PROVE  /\ id \in Cats!CategoryIds => Cats!usableById(Cats!Usable, id, Cats!TypeOf(id)) # {}
         /\ Cats!usableById(Cats!Usable, id, type) # {} => Cats!TypeOf(id) = type
<1>1. ASSUME id \in Cats!CategoryIds PROVE \E c \in Cats!Usable : c.id = id /\ c.type = Cats!TypeOf(id)
  <2>1. CASE id \in Cats!Created
    <3> DEFINE c == [id |-> id, name |-> category[id].name, type |-> category[id].type, own |-> TRUE]
    <3>1. c \in Cats!Usable /\ c.id = id /\ c.type = category[id].type
      BY <2>1 DEF Cats!Usable
    <3> QED
      BY <2>1, <3>1 DEF Cats!Created, Cats!TypeOf
  <2>2. CASE id \notin Cats!Created
    <3>1. \E c \in System : c.id = id
      BY <1>1, <2>2 DEF Cats!CategoryIds
    <3>2. id \notin Own
      BY <3>1, CategoryAssumption
    <3> QED
      BY <3>1, <3>2 DEF Cats!Usable, Cats!TypeOf
  <2> QED
    BY <2>1, <2>2
<1>2. ASSUME NEW c \in Cats!Usable, c.id = id, c.type = type PROVE Cats!TypeOf(id) = type
  BY <1>2, UsableIsSettled DEF Settled
<1> QED
  BY <1>1, <1>2 DEF Cats!usableById

LEMMA RuleDecides == ASSUME CatInv, OneRulePerKey PROVE Cats!LearnedRuleDecides
<1> SUFFICES ASSUME NEW u \in Cats!Rules, rule[u].active, NEW text \in Texts,
                    Cats!normalizeMerchant(text) = rule[u].key, NEW order \in Cats!SetToSeqs(Cats!UserRules)
             PROVE  LET type == Cats!TypeOf(rule[u].category)
                        f == Cats!categorize(Cats!Usable, order,
                               [Cats!Input(CHOOSE t \in Transactions : TRUE, type) EXCEPT !.merchant = text])
                    IN  \/ f = Cats!Outcome(rule[u].category, "USER_RULE")
                        \/ \E v \in Cats!Rules : /\ rule[v].active /\ rule[v].priority > rule[u].priority
                                                 /\ Cats!TypeOf(rule[v].category) = type
                                                 /\ f = Cats!Outcome(rule[v].category, "USER_RULE")
  BY DEF Cats!LearnedRuleDecides
<1> DEFINE type == Cats!TypeOf(rule[u].category)
           input == [Cats!Input(CHOOSE t \in Transactions : TRUE, type) EXCEPT !.merchant = text]
           f == Cats!categorize(Cats!Usable, order, input)
           Read(w) == [key |-> rule[w].key, category |-> rule[w].category, priority |-> rule[w].priority]
<1>1. input.merchant = text /\ input.type = type /\ input.chosen = FALSE
  BY DEF Cats!Input
<1> HIDE DEF input
<1>2. order \in Seq(Known) /\ Elements(order) = Cats!UserRules
  BY OrderHasAll DEF CatInv
<1>3. Cats!UserRules = {Read(w) : w \in {v \in Cats!Rules : rule[v].active}}
  BY DEF Cats!UserRules
<1>4. \A w \in Cats!Rules : rule[w] \in Cats!RuleRow /\ rule[w].key \in Seq(Cats!Token) /\ rule[w].priority \in Int
  <2>1. \A w \in Cats!Rules : rule[w] \in Cats!RuleRow
    BY DEF CatInv, CatTables, Cats!Rules, Cats!Row
  <2> QED
    BY <2>1, KeysAreTexts DEF Cats!RuleRow
<1>5. Applies(Cats!Usable, input, Read(u))
  <2>1. Cats!matchesPhrase(rule[u].key, rule[u].key)
    <3> DEFINE key == rule[u].key
    <3>1. key \in Seq(Cats!Token) /\ key # Cats!Nothing
      BY <1>4 DEF CatInv, References
    <3> HIDE DEF key
    <3>2. SubSeq(key, 1, Len(key)) = key /\ Len(key) \in Nat
      BY <3>1, SubSeqFull
    <3>3. 0 \in 0..(Len(key) - Len(key)) /\ 0 + 1 = 1 /\ 0 + Len(key) = Len(key)
      BY <3>2
    <3>4. SubSeq(key, 0 + 1, 0 + Len(key)) = key
      BY <3>2, <3>3
    <3>5. Cats!matchesPhrase(key, key)
      BY <3>1, <3>3, <3>4 DEF Cats!matchesPhrase
    <3> QED
      BY <3>5 DEF key
  <2>2. Cats!usableById(Cats!Usable, rule[u].category, type) # {}
    BY UsableByItsType DEF CatInv, References
  <2> QED
    BY <1>1, <2>1, <2>2 DEF Applies
<1>6. Read(u) \in Elements(order)
  BY <1>2, <1>3
<1>7. PICK k \in Elements(order) :
        /\ Applies(Cats!Usable, input, k) /\ Ahead(k, Read(u))
        /\ Cats!FromUserRules(Cats!Usable, order, input) = Cats!usableById(Cats!Usable, k.category, input.type)
  BY <1>2, <1>5, <1>6, FirstApplies
<1>8. PICK v \in Cats!Rules : rule[v].active /\ k = Read(v)
  BY <1>2, <1>3
<1>9. Cats!TypeOf(rule[v].category) = type
  BY <1>1, <1>7, <1>8, UsableByItsType DEF Applies, CatInv
<1>10. f = Cats!Outcome(rule[v].category, "USER_RULE")
  <2> DEFINE usable == Cats!FromUserRules(Cats!Usable, order, input)
  <2>1. usable # {} /\ \A c \in usable : c.id = rule[v].category
    BY <1>7, <1>8 DEF Applies, Cats!usableById
  <2>2. f = Cats!Outcome((CHOOSE c \in usable : TRUE).id, "USER_RULE")
    BY <1>1, <2>1, TaughtComesFirst
  <2>3. (CHOOSE c \in usable : TRUE) \in usable
    BY <2>1
  <2> QED
    BY <2>1, <2>2, <2>3
<1>11. CASE rule[v].priority > rule[u].priority
  BY <1>8, <1>9, <1>10, <1>11 DEF input
<1>12. CASE ~(rule[v].priority > rule[u].priority)
  <2>1. Cats!Length(rule[v].key) >= Cats!Length(rule[u].key)
    BY <1>7, <1>8, <1>12 DEF Ahead
  <2>2. Cats!matchesPhrase(rule[u].key, rule[v].key)
    BY <1>1, <1>7, <1>8 DEF Applies
  <2>3. Cats!Length(rule[v].key) < Cats!Length(rule[u].key) \/ rule[v].key = rule[u].key
    BY <1>4, <2>2, PhraseFits
  <2>4. Cats!Length(rule[v].key) \in Int /\ Cats!Length(rule[u].key) \in Int
    BY <1>4, LengthType
  <2>5. v = u
    BY <2>1, <2>3, <2>4 DEF OneRulePerKey
  <2> QED
    BY <1>10, <2>5 DEF input
<1> QED
  BY <1>11, <1>12

LEMMA OneRuleInit == Cats!Init => OneRulePerKey
BY DEF Cats!Init, OneRulePerKey

-----------------------------------------------------------------------------
(* Recurring rules.                                                        *)

\* The calendar of the rules is that of Calendar.
LEMMA SameCalendar ==
  /\ \A d, a, f : Rules!nextOccurrenceAfter(d, a, f) = nextOccurrenceAfter(d, a, f)
  /\ \A d, c, a, f : Rules!Follows(d, c, a, f) = Follows(d, c, a, f)
  /\ Rules!Frequency = Frequency
BY DEF Rules!nextOccurrenceAfter, nextOccurrenceAfter, Rules!Follows, Follows, Rules!Frequency, Frequency,
  Rules!Clamped, Clamped, Rules!AnchorMonth, AnchorMonth, Rules!YearOf, YearOf, Rules!MonthOfYear, MonthOfYear,
  Rules!Month, Month, Rules!DayOfMonth, DayOfMonth, Rules!FirstOf, FirstOf, Rules!FallsOn, FallsOn

\* The types of a rule, with the bounds that a guard keeps.
RuleTypes ==
  /\ Rules!TypeOK
  /\ today \in Rules!Days /\ start \in Rules!Days /\ end \in Nat /\ cursor \in Nat \ {0} /\ since \in Nat \ {0}

\* The last day that a generation looks at.
Limit(s, h) == IF s.end # Rules!Open /\ s.end < h THEN s.end ELSE h

\* A rule that a generation may have read, and the day it did.
Readable(s, h) ==
  /\ s.start \in Rules!Days /\ s.end \in Nat /\ s.frequency \in Frequency /\ s.cursor \in Nat \ {0}
  /\ h \in Rules!Days

\* A generation has read something that is due.
Reading == \A r \in Requests : rulePc[r] # "idle" =>
  Readable(snap[r], horizon[r]) /\ snap[r].cursor <= Limit(snap[r], horizon[r])

RuleInv == RuleTypes /\ Reading /\ Rules!NoOccurrenceSkipped /\ Rules!CursorOnSchedule

Coming(s, d) == Rules!nextOccurrenceAfter(d, s.start, s.frequency)
On(s, e, d) == Follows(e, d, s.start, s.frequency)

\* What is due from a day on, without the recursion.
DueFrom(s, h, d) ==
  IF d > Limit(s, h) THEN {} ELSE {d} \cup {e \in 1..Limit(s, h) : On(s, e, d)}

Collects(f, s, h) ==
  f = [d \in Nat \ {0} |-> IF d > h \/ (s.end # Rules!Open /\ d > s.end) THEN {}
                           ELSE {d} \cup f[Coming(s, d)]]

LEMMA LimitIs ==
  ASSUME NEW s, NEW h, Readable(s, h)
  PROVE  /\ Limit(s, h) \in Nat /\ Limit(s, h) <= MaxRuleDay /\ MaxRuleDay \in Nat
         /\ \A d \in Nat : d > Limit(s, h) <=> d > h \/ (s.end # Rules!Open /\ d > s.end)
         /\ \A d \in 1..Limit(s, h) : d \in 1..MaxRuleDay /\ d \in Dates
<1>1. MaxRuleDay \in Nat /\ h \in 1..MaxRuleDay /\ s.end \in Nat
  BY ScheduleAssumption DEF Readable, Covers, Rules!Days
<1>2. Limit(s, h) \in Nat /\ Limit(s, h) <= MaxRuleDay
  BY <1>1 DEF Limit
<1>3. \A d \in Nat : d > Limit(s, h) <=> d > h \/ (s.end # Rules!Open /\ d > s.end)
  BY <1>1 DEF Limit
<1>4. \A d \in 1..Limit(s, h) : d \in 1..MaxRuleDay
  BY <1>1, <1>2
<1> QED
  BY <1>1, <1>2, <1>3, <1>4, ScheduleAssumption, CoveredDay

\* One occurrence after another: the one that is next, and what follows that one.
LEMMA StepIs ==
  ASSUME NEW s, NEW h, Readable(s, h), NEW d \in 1..Limit(s, h)
  PROVE  /\ Coming(s, d) \in Nat \ {0} /\ Coming(s, d) > d /\ On(s, Coming(s, d), d)
         /\ Counted(s.frequency) => Coming(s, d) \in Dates
         /\ \A e \in Nat : (Counted(s.frequency) => e \in Dates)
              => (On(s, e, d) <=> e = Coming(s, d) \/ On(s, e, Coming(s, d)))
<1> DEFINE n == Coming(s, d)
<1>1. d \in 1..MaxRuleDay /\ d \in Dates /\ d \in Nat /\ d > 0 /\ s.start \in 1..MaxRuleDay /\ s.frequency \in Frequency
  BY LimitIs DEF Readable, Rules!Days
<1>2. /\ n \in Nat /\ On(s, n, d) /\ (Counted(s.frequency) => n \in Dates)
      /\ \A e \in Nat : (Counted(s.frequency) => e \in Dates) /\ On(s, e, d) => e = n \/ On(s, e, n)
  <2>1. n = nextOccurrenceAfter(d, s.start, s.frequency)
    BY SameCalendar DEF Coming
  <2> HIDE DEF n
  <2> QED
    BY <1>1, <2>1, NextOccurrence, ScheduleAssumption DEF On
<1> HIDE DEF n
<1>3. n > d
  BY <1>2 DEF On, Follows
<1>4. ASSUME NEW e \in Nat, Counted(s.frequency) => e \in Dates, On(s, e, n)
      PROVE  On(s, e, d)
  BY <1>1, <1>2, <1>4, FollowsOn DEF On
<1>5. n \in Nat \ {0}
  BY <1>1, <1>2, <1>3
<1> QED
  BY <1>2, <1>3, <1>4, <1>5 DEF n

LEMMA DueFromCollects ==
  ASSUME NEW s, NEW h, Readable(s, h)
  PROVE  Collects([d \in Nat \ {0} |-> DueFrom(s, h, d)], s, h)
<1> DEFINE g == [d \in Nat \ {0} |-> DueFrom(s, h, d)]
<1>1. ASSUME NEW d \in Nat \ {0}, d <= Limit(s, h)
      PROVE  DueFrom(s, h, d) = {d} \cup DueFrom(s, h, Coming(s, d))
  <2> DEFINE n == Coming(s, d)
             L == Limit(s, h)
  <2>1. d \in 1..L /\ L \in Nat
    BY <1>1, LimitIs
  <2>2. /\ n \in Nat \ {0} /\ n > d /\ On(s, n, d)
        /\ \A e \in 1..L : On(s, e, d) <=> e = n \/ On(s, e, n)
    <3>1. \A e \in 1..L : e \in Nat /\ e \in Dates
      BY LimitIs
    <3> QED
      BY <2>1, <3>1, StepIs
  <2> HIDE DEF n, L
  <2>3. CASE n > L
    <3>1. \A e \in 1..L : ~On(s, e, d)
      BY <2>1, <2>2, <2>3 DEF On, Follows
    <3> QED
      BY <1>1, <2>1, <2>3, <3>1 DEF DueFrom, n, L
  <2>4. CASE n <= L
    <3>1. {e \in 1..L : On(s, e, d)} = {n} \cup {e \in 1..L : On(s, e, n)}
      BY <2>1, <2>2, <2>4
    <3>2. DueFrom(s, h, d) = {d} \cup {e \in 1..L : On(s, e, d)}
      BY <2>1 DEF DueFrom, L
    <3>3. DueFrom(s, h, n) = {n} \cup {e \in 1..L : On(s, e, n)}
      BY <2>1, <2>2, <2>4 DEF DueFrom, L
    <3> QED
      BY <3>1, <3>2, <3>3 DEF n
  <2> QED
    BY <2>1, <2>2, <2>3, <2>4
<1>2. \A d \in Nat \ {0} : d <= Limit(s, h) => Coming(s, d) \in Nat \ {0}
  BY StepIs, LimitIs
<1>3. \A d \in Nat \ {0} : g[d] = IF d > h \/ (s.end # Rules!Open /\ d > s.end) THEN {}
                                  ELSE {d} \cup g[Coming(s, d)]
  <2> SUFFICES ASSUME NEW d \in Nat \ {0}
               PROVE  g[d] = IF d > h \/ (s.end # Rules!Open /\ d > s.end) THEN {} ELSE {d} \cup g[Coming(s, d)]
    OBVIOUS
  <2>1. d > Limit(s, h) <=> d > h \/ (s.end # Rules!Open /\ d > s.end)
    BY LimitIs
  <2>2. CASE d > Limit(s, h)
    BY <2>1, <2>2 DEF DueFrom
  <2>3. CASE d <= Limit(s, h)
    <3>1. g[Coming(s, d)] = DueFrom(s, h, Coming(s, d))
      BY <1>2, <2>3
    <3> QED
      BY <1>1, <2>1, <2>3, <3>1, LimitIs
  <2> QED
    BY <2>2, <2>3, LimitIs
<1> HIDE DEF g
<1>4. g = [d \in Nat \ {0} |-> g[d]]
  BY DEF g
<1>5. g = [d \in Nat \ {0} |-> IF d > h \/ (s.end # Rules!Open /\ d > s.end) THEN {}
                               ELSE {d} \cup g[Coming(s, d)]]
  BY <1>3, <1>4
<1> QED
  BY <1>5 DEF Collects, g

LEMMA CollectsOnce ==
  ASSUME NEW s, NEW h, Readable(s, h), NEW f, NEW g, Collects(f, s, h), Collects(g, s, h)
  PROVE  \A d \in Nat \ {0} : f[d] = g[d]
<1> DEFINE L == Limit(s, h)
           S == {k \in Nat : \A d \in Nat \ {0} : d + k > L => f[d] = g[d]}
<1>0. L \in Nat /\ \A d \in Nat : d > L <=> d > h \/ (s.end # Rules!Open /\ d > s.end)
  BY LimitIs
<1>1. \A d \in Nat \ {0} : /\ f[d] = IF d > L THEN {} ELSE {d} \cup f[Coming(s, d)]
                           /\ g[d] = IF d > L THEN {} ELSE {d} \cup g[Coming(s, d)]
  <2> SUFFICES ASSUME NEW d \in Nat \ {0}
               PROVE  /\ f[d] = IF d > L THEN {} ELSE {d} \cup f[Coming(s, d)]
                      /\ g[d] = IF d > L THEN {} ELSE {d} \cup g[Coming(s, d)]
    OBVIOUS
  <2>1. /\ f[d] = IF d > h \/ (s.end # Rules!Open /\ d > s.end) THEN {} ELSE {d} \cup f[Coming(s, d)]
        /\ g[d] = IF d > h \/ (s.end # Rules!Open /\ d > s.end) THEN {} ELSE {d} \cup g[Coming(s, d)]
    BY DEF Collects
  <2> QED
    BY <1>0, <2>1
<1>2. \A d \in Nat \ {0} : d <= L => Coming(s, d) \in Nat \ {0} /\ Coming(s, d) > d
  BY <1>0, StepIs
<1> HIDE DEF L
<1>3. 0 \in S
  <2>1. \A d \in Nat \ {0} : d + 0 = d
    OBVIOUS
  <2> QED
    BY <1>1, <2>1
<1>4. \A k \in Nat : k \in S => k + 1 \in S
  <2> SUFFICES ASSUME NEW k \in Nat, k \in S, NEW d \in Nat \ {0}, d + (k + 1) > L PROVE f[d] = g[d]
    BY <1>0
  <2>1. CASE d > L
    BY <1>1, <2>1
  <2>2. CASE d <= L
    <3>1. Coming(s, d) \in Nat \ {0} /\ Coming(s, d) + k > L
      BY <1>0, <1>2, <2>2
    <3>2. f[Coming(s, d)] = g[Coming(s, d)]
      BY <3>1
    <3> QED
      BY <1>0, <1>1, <2>2, <3>2
  <2> QED
    BY <1>0, <2>1, <2>2
<1> HIDE DEF S
<1>5. Nat \subseteq S
  BY <1>3, <1>4, Induction
<1> SUFFICES ASSUME NEW d \in Nat \ {0} PROVE f[d] = g[d]
  OBVIOUS
<1>6. d + L > L
  BY <1>0
<1> QED
  BY <1>0, <1>5, <1>6 DEF S

\* collectDueOccurrences: the cursor, if it is due, and what follows it up to the limit.
LEMMA DueIs ==
  ASSUME NEW s, NEW h, Readable(s, h)
  PROVE  Rules!Due(s, h) = DueFrom(s, h, s.cursor)
<1> DEFINE g == [d \in Nat \ {0} |-> DueFrom(s, h, d)]
           f == CHOOSE f : Collects(f, s, h)
<1>1. Collects(g, s, h)
  BY DueFromCollects
<1>2. Collects(f, s, h)
  BY <1>1
<1>3. s.cursor \in Nat \ {0}
  BY DEF Readable
<1> HIDE DEF f
<1>4. f[s.cursor] = g[s.cursor]
  BY <1>1, <1>2, <1>3, CollectsOnce
<1>5. Rules!Due(s, h) = f[s.cursor]
  BY DEF Rules!Due, f, Collects, Coming
<1> QED
  BY <1>3, <1>4, <1>5

\* The new cursor is the first occurrence that is not due: it follows the old one, and
\* what the schedule has in between is due.
LEMMA CursorMoves ==
  ASSUME NEW s, NEW h, Readable(s, h), s.cursor <= Limit(s, h)
  PROVE  LET n == Rules!NextCursor(s, h)
         IN  /\ n \in Nat \ {0} /\ n > s.cursor /\ On(s, n, s.cursor)
             /\ s.cursor \in Dates /\ (Counted(s.frequency) => n \in Dates)
             /\ \A d \in s.cursor..(n - 1) : d = s.cursor \/ On(s, d, s.cursor) => d \in Rules!Due(s, h)
<1> DEFINE c == s.cursor
           L == Limit(s, h)
           Latest(d) == d \in Rules!Due(s, h) /\ \A e \in Rules!Due(s, h) : e <= d
           M == CHOOSE d \in Rules!Due(s, h) : \A e \in Rules!Due(s, h) : e <= d
           n == Rules!NextCursor(s, h)
<1>1. c \in 1..L /\ L \in Nat /\ s.start \in Dates
  <2>1. s.start \in Dates
    BY CoveredDay, ScheduleAssumption DEF Readable, Rules!Days
  <2> QED
    BY <2>1, LimitIs DEF Readable
<1>2. Rules!Due(s, h) = {c} \cup {e \in 1..L : On(s, e, c)}
  BY <1>1, DueIs DEF DueFrom
<1>3. \A e \in 1..L : e \in Dates /\ e \in Nat
  BY LimitIs
<1> HIDE DEF c, L
<1>4. \E d : Latest(d)
  <2> DEFINE T == {k \in Nat : L - k \in Rules!Due(s, h)}
  <2>1. L - c \in T
    BY <1>1, <1>2
  <2>2. PICK k \in T : \A j \in T : k <= j
    BY <2>1, LeastNumber
  <2>3. \A e \in Rules!Due(s, h) : e \in 1..L /\ L - e \in T
    BY <1>1, <1>2
  <2> HIDE DEF T
  <2>4. \A e \in Rules!Due(s, h) : e <= L - k
    <3> SUFFICES ASSUME NEW e \in Rules!Due(s, h) PROVE e <= L - k
      OBVIOUS
    <3>1. L - e \in T /\ e \in 1..L /\ k <= L - e
      BY <2>2, <2>3
    <3>2. k \in Nat
      BY <2>2 DEF T
    <3> QED
      BY <1>1, <3>1, <3>2
  <2>5. L - k \in Rules!Due(s, h)
    BY <2>2 DEF T
  <2> QED
    BY <2>4, <2>5
<1>5. Latest(M)
  BY <1>4
<1>6. n = Coming(s, M)
  BY DEF Rules!NextCursor, Coming
<1> HIDE DEF M, n
<1>7. M \in 1..L /\ (M = c \/ On(s, M, c)) /\ M >= c
  <2>1. M \in 1..L /\ (M = c \/ On(s, M, c))
    BY <1>1, <1>2, <1>5
  <2> QED
    BY <1>1, <2>1 DEF On, Follows
<1>8. /\ n \in Nat \ {0} /\ n > M /\ On(s, n, M) /\ (Counted(s.frequency) => n \in Dates)
      /\ \A e \in Nat : (Counted(s.frequency) => e \in Dates) /\ On(s, e, M) => e = n \/ On(s, e, n)
  BY <1>6, <1>7, StepIs DEF L
<1>9. On(s, n, c)
  BY <1>1, <1>3, <1>7, <1>8, FollowsOn DEF On
<1>10. ASSUME NEW d \in c..(n - 1), d = c \/ On(s, d, c)
       PROVE  d \in Rules!Due(s, h)
  <2>1. CASE d <= L
    BY <1>1, <1>2, <1>8, <1>10, <2>1
  <2>2. CASE d > L
    <3>1. d \in Nat /\ M < d /\ d < n /\ On(s, d, c) /\ d > 0
      BY <1>1, <1>7, <1>8, <1>10, <2>2
    <3>2. Counted(s.frequency) => d \in Dates
      BY <1>8, <3>1, FirstOfType, LastMonthIs DEF Dates
    <3>3. On(s, d, M)
      BY <1>1, <1>3, <1>7, <3>1, <3>2, FollowsApart DEF On
    <3>4. On(s, d, n)
      BY <1>8, <3>1, <3>2, <3>3
    <3> QED
      BY <1>8, <3>1, <3>4 DEF On, Follows
  <2> QED
    BY <1>1, <1>8, <2>1, <2>2
<1> QED
  BY <1>1, <1>3, <1>7, <1>8, <1>9, <1>10 DEF c, n

LEMMA RuleInit == Rules!Init => RuleInv
<1> SUFFICES ASSUME Rules!Init PROVE RuleInv
  OBVIOUS
<1>1. MaxRuleDay \in Nat /\ start \in 1..MaxRuleDay
  BY ScheduleAssumption DEF Covers, Rules!Init, Rules!Days
<1>2. RuleTypes
  <2>1. /\ today \in Rules!Days /\ start \in Rules!Days /\ end \in Nat /\ cursor \in Nat \ {0} /\ since \in Nat \ {0}
        /\ edits \in 0..1 /\ today \in Int /\ start \in Int /\ end \in Int /\ cursor \in Int /\ since \in Int
    BY <1>1 DEF Rules!Init, Rules!Days, Rules!Open
  <2>2. exists \in BOOLEAN /\ active \in BOOLEAN /\ mistaken \in BOOLEAN
    BY DEF Rules!Init
  <2>3. frequency \in Rules!Frequency
    BY ScheduleAssumption, SameCalendar DEF Rules!Init
  <2>4. /\ rulePc \in [Requests -> {"idle", "insert", "cursor"}] /\ snap \in [Requests -> Rules!Snapshot \cup {None}]
        /\ horizon \in [Requests -> Int] /\ rows \subseteq Int /\ \A r \in Requests : rulePc[r] = "idle"
    BY DEF Rules!Init
  <2> QED
    BY <2>1, <2>2, <2>3, <2>4 DEF RuleTypes, Rules!TypeOK
<1>3. Reading
  BY DEF Rules!Init, Reading
<1>4. Rules!NoOccurrenceSkipped
  BY <1>1 DEF Rules!Init, Rules!NoOccurrenceSkipped
<1>5. Rules!CursorOnSchedule
  BY DEF Rules!Init, Rules!CursorOnSchedule, Rules!Scheduled
<1> QED
  BY <1>2, <1>3, <1>4, <1>5 DEF RuleInv

\* A step that leaves the schedule and the rows as they are.
SameSchedule ==
  UNCHANGED <<start, frequency, cursor, rows, since, mistaken>> /\ (exists' => exists)

LEMMA ScheduleKept ==
  ASSUME RuleInv, SameSchedule
  PROVE  Rules!NoOccurrenceSkipped' /\ Rules!CursorOnSchedule'
BY DEF RuleInv, SameSchedule, Rules!NoOccurrenceSkipped, Rules!CursorOnSchedule, Rules!Scheduled,
   Rules!Follows, Rules!FallsOn, Rules!Month, Rules!DayOfMonth, Rules!YearOf, Rules!MonthOfYear, Rules!FirstOf

\* A commit keeps the schedule, whether it moves the cursor or not.
LEMMA CommitKeepsSchedule ==
  ASSUME RuleInv, NEW r \in Requests, Rules!MoveCursor(r)
  PROVE  /\ Rules!NoOccurrenceSkipped' /\ Rules!CursorOnSchedule'
         /\ cursor' \in Nat \ {0} /\ cursor' >= cursor
<1> DEFINE s == snap[r]
           h == horizon[r]
           n == Rules!NextCursor(s, h)
           hit == cursor = s.cursor
           changed == s.start # start \/ s.frequency # frequency
<1>1. Readable(s, h) /\ s.cursor <= Limit(s, h) /\ cursor \in Nat \ {0} /\ since \in Nat \ {0}
  BY DEF RuleInv, RuleTypes, Reading, Rules!MoveCursor
<1>2. /\ n \in Nat \ {0} /\ n > s.cursor /\ On(s, n, s.cursor) /\ s.cursor \in Dates
      /\ (Counted(s.frequency) => n \in Dates)
      /\ \A d \in s.cursor..(n - 1) : d = s.cursor \/ On(s, d, s.cursor) => d \in Rules!Due(s, h)
  BY <1>1, CursorMoves
<1>3. /\ rows' = rows \cup Rules!Due(s, h) /\ cursor' = IF hit THEN n ELSE cursor
      /\ mistaken' = (mistaken \/ (hit /\ changed))
      /\ UNCHANGED <<exists, start, frequency, since>>
  BY DEF Rules!MoveCursor
<1>4. \A d : Rules!Scheduled(d) <=> d = since \/ Follows(d, since, start, frequency)
  BY SameCalendar DEF Rules!Scheduled
<1>5. \A d : Rules!Scheduled(d)' <=> Rules!Scheduled(d)
  BY <1>3 DEF Rules!Scheduled,
     Rules!Follows, Rules!FallsOn, Rules!Month, Rules!DayOfMonth, Rules!YearOf, Rules!MonthOfYear, Rules!FirstOf
<1> HIDE DEF n, s, h
<1>6. cursor' \in Nat \ {0} /\ cursor' >= cursor
  BY <1>1, <1>2, <1>3
<1>7. CASE ~hit
  <2>1. cursor' = cursor
    BY <1>3, <1>7
  <2>2. Rules!NoOccurrenceSkipped'
    BY <1>3, <1>5, <1>7, <2>1 DEF RuleInv, Rules!NoOccurrenceSkipped
  <2>3. Rules!CursorOnSchedule'
    BY <1>3, <1>5, <1>7, <2>1 DEF RuleInv, Rules!CursorOnSchedule
  <2> QED
    BY <1>6, <2>2, <2>3
<1>8. CASE hit /\ (changed \/ mistaken)
  BY <1>3, <1>6, <1>8 DEF Rules!NoOccurrenceSkipped, Rules!CursorOnSchedule
<1>9. CASE hit /\ ~changed /\ ~mistaken
  <2>1. s.cursor = cursor /\ s.start = start /\ s.frequency = frequency /\ cursor' = n
    BY <1>3, <1>9
  <2>2. start \in Dates
    BY <1>1, <2>1, CoveredDay, ScheduleAssumption DEF Readable, Rules!Days
  <2>3. cursor = since \/ (Follows(cursor, since, start, frequency) /\ cursor > since)
    BY <1>4, <1>9 DEF RuleInv, Rules!CursorOnSchedule, Follows
  <2>4. cursor \in Dates /\ cursor \in Nat /\ since \in Nat /\ since > 0 /\ since <= cursor
    BY <1>1, <1>2, <2>1, <2>3
  <2>5. \A d \in Nat : d > 0 /\ d <= cursor => d \in Dates
    BY <2>4, FirstOfType, LastMonthIs DEF Dates
  <2>6. Rules!Scheduled(n)
    <3>1. Follows(n, cursor, start, frequency) /\ (Counted(frequency) => n \in Dates)
      BY <1>2, <2>1 DEF On
    <3>2. cursor # since => Follows(n, since, start, frequency)
      BY <1>2, <2>3, <2>4, <2>5, <3>1, FollowsOn
    <3> QED
      BY <1>4, <3>1, <3>2
  <2>7. ASSUME NEW d \in since..(n - 1), Rules!Scheduled(d), exists
        PROVE  d \in rows'
    <3>1. CASE d < cursor
      <4>1. d \in rows
        BY <1>9, <2>4, <2>7, <3>1 DEF RuleInv, Rules!NoOccurrenceSkipped
      <4> QED
        BY <1>3, <4>1
    <3>2. CASE d >= cursor
      <4>1. d \in Nat /\ d > 0 /\ d < n /\ (Counted(frequency) => d \in Dates)
        BY <1>2, <2>1, <2>4, <2>7, <3>2, FirstOfType, LastMonthIs DEF Dates
      <4>2. d = cursor \/ Follows(d, cursor, start, frequency)
        <5> SUFFICES ASSUME d > cursor PROVE Follows(d, cursor, start, frequency)
          BY <2>4, <3>2, <4>1
        <5>1. Follows(d, since, start, frequency)
          BY <1>4, <2>4, <2>7, <4>1
        <5>2. CASE cursor = since
          BY <5>1, <5>2
        <5>3. CASE cursor # since
          BY <2>2, <2>3, <2>4, <2>5, <4>1, <5>1, <5>3, FollowsApart
        <5> QED
          BY <5>2, <5>3
      <4>3. d \in Rules!Due(s, h)
        BY <1>2, <2>1, <2>4, <3>2, <4>1, <4>2 DEF On
      <4> QED
        BY <1>3, <4>3
    <3> QED
      BY <2>4, <3>1, <3>2
  <2>8. Rules!NoOccurrenceSkipped'
    BY <1>3, <1>5, <2>1, <2>7 DEF Rules!NoOccurrenceSkipped
  <2>9. Rules!CursorOnSchedule'
    BY <1>5, <2>1, <2>6 DEF Rules!CursorOnSchedule
  <2> QED
    BY <1>6, <2>8, <2>9
<1> QED
  BY <1>7, <1>8, <1>9

\* A request that ends leaves the others as they are.
LEMMA AnswerKeeps ==
  ASSUME RuleTypes, Reading, NEW r \in Requests, Rules!Answer(r)
  PROVE  /\ Reading' /\ rulePc' \in [Requests -> {"idle", "insert", "cursor"}]
         /\ snap' \in [Requests -> Rules!Snapshot \cup {None}] /\ horizon' \in [Requests -> Int]
         /\ \A q \in Requests : rulePc'[q] # "idle" => snap'[q] # None
<1>1. /\ rulePc \in [Requests -> {"idle", "insert", "cursor"}]
      /\ snap \in [Requests -> Rules!Snapshot \cup {None}] /\ horizon \in [Requests -> Int]
      /\ \A q \in Requests : rulePc[q] # "idle" => snap[q] # None
  BY DEF RuleTypes, Rules!TypeOK
<1>2. \A q \in Requests : rulePc'[q] # "idle" => rulePc[q] # "idle" /\ snap'[q] = snap[q] /\ horizon'[q] = horizon[q]
  BY <1>1 DEF Rules!Answer
<1>3. Reading'
  BY <1>2 DEF Reading, Readable, Limit
<1> QED
  BY <1>1, <1>2, <1>3 DEF Rules!Answer

LEMMA RuleReads ==
  ASSUME RuleInv, NEW r \in Requests, Rules!Read(r)
  PROVE  RuleInv'
<1> DEFINE s == Rules!Rule
<1>1. /\ rulePc \in [Requests -> {"idle", "insert", "cursor"}]
      /\ snap \in [Requests -> Rules!Snapshot \cup {None}] /\ horizon \in [Requests -> Int]
      /\ \A q \in Requests : rulePc[q] # "idle" => snap[q] # None
      /\ today \in Rules!Days /\ today \in Int
  BY DEF RuleInv, RuleTypes, Rules!TypeOK
<1>2. Readable(s, today)
  BY SameCalendar DEF RuleInv, RuleTypes, Rules!TypeOK, Readable, Rules!Rule
<1>3. s.cursor <= Limit(s, today)
  <2>1. Rules!Due(s, today) # {}
    BY DEF Rules!Read
  <2>2. Limit(s, today) \in Nat /\ s.cursor \in Nat
    BY <1>2, LimitIs DEF Readable
  <2> HIDE DEF s
  <2> QED
    BY <1>2, <2>1, <2>2, DueIs DEF DueFrom
<1>4. s \in Rules!Snapshot
  BY DEF RuleInv, RuleTypes, Rules!TypeOK, Rules!Rule, Rules!Snapshot
<1>5. /\ rulePc' = [rulePc EXCEPT ![r] = "insert"] /\ snap' = [snap EXCEPT ![r] = s]
      /\ horizon' = [horizon EXCEPT ![r] = today]
      /\ UNCHANGED <<today, exists, start, end, frequency, active, cursor, rows, edits, since, mistaken>>
  BY DEF Rules!Read, Rules!rule, Rules!history
<1> HIDE DEF s
<1>6. s # None
  BY <1>4, ScheduleAssumption
<1>7. \A q \in Requests : q # r => rulePc'[q] = rulePc[q] /\ snap'[q] = snap[q] /\ horizon'[q] = horizon[q]
  BY <1>1, <1>5
<1>8. rulePc'[r] = "insert" /\ snap'[r] = s /\ horizon'[r] = today
  BY <1>1, <1>5
<1>9. Reading'
  BY <1>2, <1>3, <1>7, <1>8 DEF RuleInv, Reading, Readable, Limit
<1>10. /\ rulePc' \in [Requests -> {"idle", "insert", "cursor"}]
       /\ snap' \in [Requests -> Rules!Snapshot \cup {None}] /\ horizon' \in [Requests -> Int]
       /\ \A q \in Requests : rulePc'[q] # "idle" => snap'[q] # None
  BY <1>1, <1>4, <1>5, <1>6, <1>7, <1>8
<1>11. RuleTypes'
  BY <1>5, <1>10 DEF RuleInv, RuleTypes, Rules!TypeOK
<1>12. SameSchedule
  BY <1>5 DEF SameSchedule
<1> QED
  BY <1>9, <1>11, <1>12, ScheduleKept DEF RuleInv

LEMMA RuleCommits ==
  ASSUME RuleInv, NEW r \in Requests, Rules!MoveCursor(r)
  PROVE  RuleInv' /\ cursor' >= cursor
<1>1. Rules!Answer(r) /\ UNCHANGED <<today, exists, start, end, frequency, active, edits, since>>
  BY DEF Rules!MoveCursor
<1>2. Rules!NoOccurrenceSkipped' /\ Rules!CursorOnSchedule' /\ cursor' \in Nat \ {0} /\ cursor' >= cursor
  BY CommitKeepsSchedule
<1>3. RuleTypes /\ Reading
  BY DEF RuleInv
<1>4. /\ Reading' /\ rulePc' \in [Requests -> {"idle", "insert", "cursor"}]
      /\ snap' \in [Requests -> Rules!Snapshot \cup {None}] /\ horizon' \in [Requests -> Int]
      /\ \A q \in Requests : rulePc'[q] # "idle" => snap'[q] # None
  BY <1>1, <1>3, AnswerKeeps
<1>5. rows' \subseteq Int
  <2>1. Readable(snap[r], horizon[r])
    BY DEF RuleInv, Reading, Rules!MoveCursor
  <2>2. Rules!Due(snap[r], horizon[r]) \subseteq Int
    BY <2>1, DueIs, LimitIs DEF DueFrom, Readable
  <2> QED
    BY <1>3, <2>2 DEF Rules!MoveCursor, RuleTypes, Rules!TypeOK
<1>6. mistaken' \in BOOLEAN
  BY <1>3 DEF Rules!MoveCursor, RuleTypes, Rules!TypeOK
<1>7. RuleTypes'
  BY <1>1, <1>2, <1>3, <1>4, <1>5, <1>6 DEF RuleTypes, Rules!TypeOK
<1> QED
  BY <1>2, <1>4, <1>7 DEF RuleInv

\* An edit leaves the requests as they are; one that changes the schedule begins it anew
\* at the cursor.
LEMMA RuleEdited ==
  ASSUME RuleInv, Rules!Edit,
         \/ SameSchedule
         \/ since' = cursor' /\ mistaken' = FALSE,
         start' \in Rules!Days, end' \in Nat, frequency' \in Frequency, active' \in BOOLEAN, mistaken' \in BOOLEAN,
         cursor' \in Nat \ {0}, since' \in Nat \ {0}
  PROVE  RuleInv'
<1>1. UNCHANGED <<today, exists, rows, rulePc, snap, horizon>> /\ edits' = edits + 1 /\ edits < 1 /\ edits \in 0..1
  BY DEF Rules!Edit, RuleInv, RuleTypes, Rules!TypeOK
<1>2. Reading'
  BY <1>1 DEF RuleInv, Reading, Readable, Limit
<1>3. edits' \in 0..1 /\ start' \in Int
  BY <1>1, ScheduleAssumption DEF Rules!Days, Covers
<1>4. RuleTypes'
  BY <1>1, <1>3, SameCalendar DEF RuleInv, RuleTypes, Rules!TypeOK
<1>5. Rules!NoOccurrenceSkipped' /\ Rules!CursorOnSchedule'
  <2>1. CASE SameSchedule
    BY <2>1, ScheduleKept
  <2>2. CASE since' = cursor'
    <3>0. \A c \in Nat : c..(c - 1) = {}
      OBVIOUS
    <3>1. since'..(cursor' - 1) = {}
      BY <2>2, <3>0
    <3>2. Rules!NoOccurrenceSkipped'
      BY <3>1 DEF Rules!NoOccurrenceSkipped
    <3>3. Rules!CursorOnSchedule'
      BY <2>2 DEF Rules!CursorOnSchedule, Rules!Scheduled
    <3> QED
      BY <3>2, <3>3
  <2> QED
    BY <2>1, <2>2
<1> QED
  BY <1>2, <1>4, <1>5 DEF RuleInv

LEMMA RuleStep ==
  RuleInv /\ [Rules!Next]_Rules!vars => RuleInv' /\ (cursor' >= cursor \/ cursor' = start')
<1> SUFFICES ASSUME RuleInv, [Rules!Next]_Rules!vars
             PROVE  RuleInv' /\ (cursor' >= cursor \/ cursor' = start')
  OBVIOUS
<1>0. /\ RuleTypes /\ Reading /\ cursor \in Nat \ {0} /\ frequency \in Frequency /\ active \in BOOLEAN
      /\ start \in Rules!Days /\ end \in Nat /\ since \in Nat \ {0} /\ mistaken \in BOOLEAN
      /\ \A d \in Rules!Days : d \in Nat \ {0}
  BY SameCalendar DEF RuleInv, RuleTypes, Rules!TypeOK, Rules!Days
<1>1. ASSUME NEW r \in Requests, Rules!Read(r) PROVE RuleInv' /\ cursor' >= cursor
  <2>1. cursor' = cursor
    BY <1>1 DEF Rules!Read, Rules!rule
  <2>2. RuleInv'
    BY <1>1, RuleReads
  <2> QED
    BY <1>0, <2>1, <2>2
<1>2. ASSUME NEW r \in Requests, Rules!InsertRows(r) PROVE RuleInv' /\ cursor' >= cursor
  <2>1. /\ rulePc' = [rulePc EXCEPT ![r] = "cursor"] /\ rulePc[r] # "idle"
        /\ UNCHANGED <<today, exists, start, end, frequency, active, cursor, rows, edits, snap, horizon, since, mistaken>>
    BY <1>2 DEF Rules!InsertRows, Rules!rule, Rules!history
  <2>2. rulePc \in [Requests -> {"idle", "insert", "cursor"}]
    BY <1>0 DEF RuleTypes, Rules!TypeOK
  <2>3. \A q \in Requests : rulePc'[q] # "idle" => rulePc[q] # "idle"
    BY <2>1, <2>2
  <2>4. RuleTypes'
    BY <1>0, <2>1, <2>2, <2>3 DEF RuleTypes, Rules!TypeOK
  <2>5. Reading'
    BY <1>0, <2>1, <2>3 DEF Reading, Readable, Limit
  <2> QED
    BY <1>0, <2>1, <2>4, <2>5, ScheduleKept DEF SameSchedule, RuleInv
<1>3. ASSUME NEW r \in Requests, Rules!MoveCursor(r) PROVE RuleInv' /\ cursor' >= cursor
  BY <1>3, RuleCommits
<1>4. ASSUME NEW r \in Requests, Rules!Abort(r) PROVE RuleInv' /\ cursor' >= cursor
  <2>1. Rules!Answer(r) /\ UNCHANGED <<today, exists, start, end, frequency, active, cursor, rows, edits, since, mistaken>>
    BY <1>4 DEF Rules!Abort, Rules!rule, Rules!history
  <2>2. /\ Reading' /\ rulePc' \in [Requests -> {"idle", "insert", "cursor"}]
        /\ snap' \in [Requests -> Rules!Snapshot \cup {None}] /\ horizon' \in [Requests -> Int]
        /\ \A q \in Requests : rulePc'[q] # "idle" => snap'[q] # None
    BY <1>0, <2>1, AnswerKeeps
  <2>3. RuleTypes'
    BY <1>0, <2>1, <2>2 DEF RuleTypes, Rules!TypeOK
  <2> QED
    BY <1>0, <2>1, <2>2, <2>3, ScheduleKept DEF SameSchedule, RuleInv
<1>5. ASSUME NEW d \in Rules!Days, Rules!EditStart(d) PROVE RuleInv' /\ cursor' = start'
  BY <1>0, <1>5, RuleEdited DEF Rules!EditStart
<1>6. ASSUME NEW d \in Rules!Days \cup {Rules!Open}, Rules!EditEnd(d) PROVE RuleInv' /\ cursor' >= cursor
  <2>1. SameSchedule /\ UNCHANGED <<start, frequency, active, cursor, since, mistaken>> /\ end' = d /\ Rules!Edit
    BY <1>6 DEF Rules!EditEnd, Rules!Edit, SameSchedule, Rules!history
  <2>2. d \in Nat
    BY <1>0 DEF Rules!Open
  <2> QED
    BY <1>0, <2>1, <2>2, RuleEdited
<1>7. ASSUME NEW f \in RuleFrequencies, Rules!EditFrequency(f) PROVE RuleInv' /\ cursor' >= cursor
  <2>1. /\ Rules!Edit /\ frequency' = f /\ since' = cursor /\ mistaken' = FALSE
        /\ UNCHANGED <<start, end, active, cursor>> /\ f \in Frequency
    BY <1>7, ScheduleAssumption DEF Rules!EditFrequency
  <2>2. /\ start' \in Rules!Days /\ end' \in Nat /\ frequency' \in Frequency
        /\ cursor' \in Nat \ {0} /\ since' \in Nat \ {0} /\ since' = cursor'
    BY <1>0, <2>1
  <2>3. active' \in BOOLEAN /\ mistaken' \in BOOLEAN /\ mistaken' = FALSE
    BY <1>0, <2>1
  <2>4. RuleInv'
    BY <2>1, <2>2, <2>3, RuleEdited
  <2> QED
    BY <1>0, <2>1, <2>4
<1>8. CASE Rules!Switch
  <2>1. /\ Rules!Edit /\ SameSchedule /\ active' \in BOOLEAN
        /\ UNCHANGED <<start, end, frequency, cursor, since, mistaken>>
    BY <1>8 DEF Rules!Switch, Rules!Edit, SameSchedule, Rules!history
  <2>2. RuleInv'
    BY <1>0, <2>1, RuleEdited
  <2> QED
    BY <1>0, <2>1, <2>2
<1>9. CASE Rules!DeleteRule \/ Rules!NextDay \/ UNCHANGED Rules!vars
  <2>1. /\ UNCHANGED <<start, end, frequency, active, cursor, rows, edits, rulePc, snap, horizon, since, mistaken>>
        /\ exists' = exists \/ exists' = FALSE
        /\ today' = today \/ Rules!NextDay
    BY <1>9 DEF Rules!DeleteRule, Rules!NextDay, Rules!vars, Rules!rule, Rules!history
  <2>2. today' \in Rules!Days /\ today' \in Int
    BY <1>0, <2>1, ScheduleAssumption DEF Rules!NextDay, RuleTypes, Rules!Days, Covers
  <2>3. exists' \in BOOLEAN /\ (exists' => exists)
    <3>1. exists \in BOOLEAN
      BY <1>0 DEF RuleTypes, Rules!TypeOK
    <3>2. exists' = exists \/ exists' = FALSE
      BY <2>1
    <3>3. CASE exists' = exists
      BY <3>1, <3>3
    <3>4. CASE exists' = FALSE
      BY <3>4
    <3> QED
      BY <3>2, <3>3, <3>4
  <2>4. frequency' \in Rules!Frequency /\ mistaken' \in BOOLEAN /\ active' \in BOOLEAN
    BY <1>0, <2>1, SameCalendar
  <2>5. RuleTypes'
    BY <1>0, <2>1, <2>2, <2>3, <2>4 DEF RuleTypes, Rules!TypeOK
  <2>6. Reading'
    BY <1>0, <2>1 DEF Reading, Readable, Limit
  <2>7. Rules!NoOccurrenceSkipped' /\ Rules!CursorOnSchedule'
    BY <2>1, <2>3, ScheduleKept DEF SameSchedule
  <2>8. RuleInv'
    BY <2>5, <2>6, <2>7 DEF RuleInv
  <2> QED
    BY <1>0, <2>1, <2>8
<1> QED
  BY <1>1, <1>2, <1>3, <1>4, <1>5, <1>6, <1>7, <1>8, <1>9 DEF Rules!Next

-----------------------------------------------------------------------------
(* Bills and subscriptions.                                                *)

\* The calendar of bills and subscriptions is the same.
LEMMA SameAdvances ==
  /\ \A a, c, f : Items!advanceObligation(a, c, f) = advanceObligation(a, c, f)
  /\ \A d, a, f : Items!OnSchedule(d, a, f) = OnSchedule(d, a, f)
  /\ Items!Frequency = Frequency
BY DEF Items!advanceObligation, advanceObligation, Items!Months, Months, Items!OnSchedule, OnSchedule,
  Items!Follows, Follows, Items!Frequency, Frequency,
  Items!Clamped, Clamped, Items!YearOf, YearOf, Items!MonthOfYear, MonthOfYear,
  Items!Month, Month, Items!DayOfMonth, DayOfMonth, Items!FirstOf, FirstOf, Items!FallsOn, FallsOn

\* The due date after a date, by the schedule of a row.
After(row, date) == Items!advanceObligation(row.anchor, date, row.frequency)

\* Advancing reaches the first date of the schedule after the one that was due.
LEMMA AfterIsNext ==
  ASSUME NEW row \in Items!Row, NEW date \in Items!Days
  PROVE  /\ After(row, date) \in Nat \ {0} /\ After(row, date) > date
         /\ Items!OnSchedule(After(row, date), row.anchor, row.frequency)
         /\ \A d \in (date + 1)..(After(row, date) - 1) : ~Items!OnSchedule(d, row.anchor, row.frequency)
<1>1. /\ Covers(MaxRuleDay) /\ row.anchor \in 1..MaxRuleDay /\ date \in 1..MaxRuleDay /\ row.frequency \in Frequency
      /\ date \in Nat
  BY ScheduleAssumption, SameAdvances DEF Items!Row, Items!Days, Covers
<1>2. After(row, date) = advanceObligation(row.anchor, date, row.frequency)
  BY SameAdvances DEF After
<1>3. LET n == advanceObligation(row.anchor, date, row.frequency)
      IN  /\ n \in Nat /\ n > date /\ OnSchedule(n, row.anchor, row.frequency)
          /\ \A d \in (date + 1)..(n - 1) : ~OnSchedule(d, row.anchor, row.frequency)
  BY <1>1, AdvanceReachesNext
<1> HIDE DEF After
<1>4. After(row, date) \in Nat \ {0} /\ After(row, date) > date
  BY <1>1, <1>2, <1>3
<1> QED
  BY <1>2, <1>3, <1>4, SameAdvances


LEMMA WithIsRow ==
  ASSUME NEW row \in Items!Row, NEW c,
         DOMAIN c \subseteq {"status", "anchor", "next", "frequency"},
         "status" \in DOMAIN c => c.status \in Items!BillStatus \cup Items!SubscriptionStatus,
         "anchor" \in DOMAIN c => c.anchor \in Items!Days,
         "next" \in DOMAIN c => c.next \in Nat \ {0},
         "frequency" \in DOMAIN c => c.frequency \in Items!Frequency
  PROVE  LET new == Items!With(row, c)
         IN  /\ new \in Items!Row
             /\ new.status = IF "status" \in DOMAIN c THEN c.status ELSE row.status
             /\ new.anchor = IF "anchor" \in DOMAIN c THEN c.anchor ELSE row.anchor
             /\ new.next = IF "next" \in DOMAIN c THEN c.next ELSE row.next
             /\ new.frequency = IF "frequency" \in DOMAIN c THEN c.frequency ELSE row.frequency
<1> DEFINE new == Items!With(row, c)
<1>1. DOMAIN row = {"anchor", "next", "frequency", "status"}
  BY DEF Items!Row
<1>2. new = [f \in {"anchor", "next", "frequency", "status"} |-> IF f \in DOMAIN c THEN c[f] ELSE row[f]]
  BY <1>1 DEF Items!With
<1> HIDE DEF new
<1>3. /\ new.status = IF "status" \in DOMAIN c THEN c.status ELSE row.status
      /\ new.anchor = IF "anchor" \in DOMAIN c THEN c.anchor ELSE row.anchor
      /\ new.next = IF "next" \in DOMAIN c THEN c.next ELSE row.next
      /\ new.frequency = IF "frequency" \in DOMAIN c THEN c.frequency ELSE row.frequency
  BY <1>2
<1>4. new = [anchor |-> new.anchor, next |-> new.next, frequency |-> new.frequency, status |-> new.status]
  BY <1>2
<1>5. /\ new.anchor \in Items!Days /\ new.next \in Nat \ {0} /\ new.frequency \in Items!Frequency
      /\ new.status \in Items!BillStatus \cup Items!SubscriptionStatus
  BY <1>3 DEF Items!Row
<1>6. new \in Items!Row
  BY <1>4, <1>5 DEF Items!Row
<1> QED
  BY <1>3, <1>6 DEF new

\* What a request writes: fields of a row; a change of the status alone leaves the schedule,
\* and comes with the date after the one that was read only when a bill is paid that was not.
LEMMA BodyIs ==
  ASSUME NEW row \in Items!Row, row.next \in Items!Days, NEW c \in Changes,
         "status" \in DOMAIN c => c.status \in Items!Statuses
  PROVE  LET written == Items!Body(row, c)
             pays    == kind # "subscription" /\ c.status = "PAID" /\ row.status # "PAID"
         IN  /\ DOMAIN written \subseteq {"status", "anchor", "next", "frequency"}
             /\ "status" \in DOMAIN written <=> "status" \in DOMAIN c
             /\ "status" \in DOMAIN c => written.status = c.status
             /\ "anchor" \in DOMAIN written => written.anchor \in Items!Days
             /\ "next" \in DOMAIN written => written.next \in Nat \ {0}
             /\ "frequency" \in DOMAIN written => written.frequency \in Items!Frequency
             /\ DOMAIN c = {"status"} => /\ "anchor" \notin DOMAIN written /\ "frequency" \notin DOMAIN written
                                         /\ "next" \in DOMAIN written <=> pays
                                         /\ pays => written.next = After(row, row.next)
<1> DEFINE new == Items!With(row, c)
           written == Items!Body(row, c)
           Fields == {"status", "anchor", "next", "frequency"}
<1>1. /\ DOMAIN c \subseteq Fields
      /\ "status" \in DOMAIN c => c.status \in Items!BillStatus \cup Items!SubscriptionStatus
      /\ "anchor" \in DOMAIN c => c.anchor \in Items!Days
      /\ "next" \in DOMAIN c => c.next \in Nat \ {0}
      /\ "frequency" \in DOMAIN c => c.frequency \in Items!Frequency
  BY ChangeAssumption, SameAdvances DEF Items!Statuses
<1>2. /\ new \in Items!Row
      /\ new.anchor = IF "anchor" \in DOMAIN c THEN c.anchor ELSE row.anchor
      /\ new.next = IF "next" \in DOMAIN c THEN c.next ELSE row.next
      /\ new.frequency = IF "frequency" \in DOMAIN c THEN c.frequency ELSE row.frequency
  BY <1>1, WithIsRow
<1>3. Items!Advanced(new) = After(new, new.next)
  BY DEF Items!Advanced, After
<1>4. "next" \notin DOMAIN c => Items!Advanced(new) \in Nat \ {0}
  BY <1>2, <1>3, AfterIsNext
<1>5. DOMAIN c = {"status"} => Items!Advanced(new) = After(row, row.next)
  BY <1>2, <1>3 DEF After
<1> HIDE DEF new
<1>6. \A d : /\ DOMAIN Items!Also(c, d) = DOMAIN c \cup {"next"} /\ Items!Also(c, d).next = d
             /\ \A f \in DOMAIN c \ {"next"} : Items!Also(c, d)[f] = c[f]
  BY DEF Items!Also
<1>7. \A d : /\ "status" \in DOMAIN c => Items!Also(c, d).status = c.status
             /\ "anchor" \in DOMAIN c => Items!Also(c, d).anchor = c.anchor
             /\ "frequency" \in DOMAIN c => Items!Also(c, d).frequency = c.frequency
  BY <1>6
<1>8. CASE kind = "subscription" \/ "next" \in DOMAIN c
  <2>1. written = c
    BY <1>8 DEF Items!Body
  <2> QED
    BY <1>1, <1>8, <2>1
<1>9. CASE ~(kind = "subscription" \/ "next" \in DOMAIN c)
           /\ "status" \in DOMAIN c /\ c.status = "PAID" /\ row.status # "PAID"
  <2>1. written = Items!Also(c, Items!Advanced(new))
    BY <1>9 DEF Items!Body, new
  <2> HIDE DEF written
  <2> QED
    BY <1>1, <1>4, <1>5, <1>6, <1>7, <1>9, <2>1 DEF written
<1>10. CASE ~(kind = "subscription" \/ "next" \in DOMAIN c)
            /\ ~("status" \in DOMAIN c /\ c.status = "PAID" /\ row.status # "PAID")
  <2>1. written = IF "anchor" \in DOMAIN c THEN Items!Also(c, c.anchor) ELSE c
    BY <1>10 DEF Items!Body
  <2>2. \A d \in Items!Days : d \in Nat \ {0}
    BY ScheduleAssumption DEF Items!Days, Covers
  <2> HIDE DEF written
  <2>3. CASE "anchor" \in DOMAIN c
    BY <1>1, <1>6, <1>7, <1>10, <2>1, <2>2, <2>3 DEF written
  <2>4. CASE "anchor" \notin DOMAIN c
    BY <1>1, <1>10, <2>1, <2>4 DEF written
  <2> QED
    BY <2>3, <2>4
<1> QED
  BY <1>8, <1>9, <1>10

\* Every date that payments account for is the one after the date before it.
PaymentsAdvance ==
  \A i \in 1..(Len(reach) - 1) : reach[i] \in Items!Days /\ reach[i + 1] = After(item, reach[i])

\* The date of a row is one that payments account for, and one before the last of them if
\* the row is that of a bill that was not paid and has been since.
Reached(row) ==
  \E i \in DOMAIN reach :
    row.next = reach[i] /\ (kind = "bill" /\ row.status # "PAID" => i < Len(reach) \/ item.status # "PAID")

\* What requests have read, before the schedule was last changed or after.
ReadBefore == \A r \in Requests : itemPc[r] # "idle" =>
  LET s == itemSnap[r]
  IN  /\ s.row \in Items!Row /\ s.row.next \in Items!Days /\ s.edition \in Nat /\ s.edition <= edition
      /\ s.edition = edition => /\ s.row.anchor = item.anchor /\ s.row.frequency = item.frequency
                                /\ lost \/ Reached(s.row)

ItemInv ==
  /\ Items!TypeOK /\ Len(reach) > 0
  /\ PaymentsAdvance /\ ReadBefore /\ Items!NeverAheadOfPayments

LEMMA ItemsInitially == Items!Init => ItemInv
<1> SUFFICES ASSUME Items!Init PROVE ItemInv
  OBVIOUS
<1>1. PICK anchor \in Items!Days, next \in Items!Days, f \in Items!Frequency :
        item = [anchor |-> anchor, next |-> next, frequency |-> f,
                status |-> IF kind = "bill" THEN "PENDING" ELSE "ACTIVE"]
  BY DEF Items!Init
<1>2. \A d \in Items!Days : d \in Nat \ {0}
  BY ScheduleAssumption DEF Items!Days, Covers
<1>3. /\ kind \in {"bill", "subscription"} /\ itemExists = TRUE
      /\ itemPc = [r \in Requests |-> "idle"] /\ itemSnap = [r \in Requests |-> None]
      /\ reach = <<item.next>> /\ edition = 0 /\ lost = FALSE
  BY DEF Items!Init
<1>4. item \in Items!Row /\ item.status \in Items!Statuses /\ item.next \in Nat \ {0}
  BY <1>1, <1>2, <1>3 DEF Items!Row, Items!Statuses, Items!BillStatus, Items!SubscriptionStatus
<1>5. reach \in Seq(Nat \ {0}) /\ Len(reach) = 1 /\ reach[1] = item.next /\ 1 \in DOMAIN reach
  BY <1>3, <1>4
<1>6. Items!TypeOK
  <2>1. itemExists \in BOOLEAN /\ lost \in BOOLEAN
    BY <1>3
  <2>2. /\ itemPc \in [Requests -> {"idle", "update", "renew"}]
        /\ itemSnap \in [Requests -> Items!Snapshot \cup {None}]
        /\ \A r \in Requests : itemPc[r] = "idle" <=> itemSnap[r] = None
    BY <1>3
  <2> QED
    BY <1>3, <1>4, <1>5, <2>1, <2>2 DEF Items!TypeOK
<1>7. PaymentsAdvance
  BY <1>5 DEF PaymentsAdvance
<1>8. ReadBefore
  BY <1>3 DEF ReadBefore
<1>9. Items!NeverAheadOfPayments
  BY <1>5 DEF Items!NeverAheadOfPayments
<1> QED
  BY <1>5, <1>6, <1>7, <1>8, <1>9 DEF ItemInv

\* The part of the invariant that is about the row and the dates it was given.
RowInv ==
  /\ item \in Items!Row /\ item.status \in Items!Statuses
  /\ reach \in Seq(Nat \ {0}) /\ Len(reach) > 0 /\ edition \in 0..1 /\ lost \in BOOLEAN
  /\ PaymentsAdvance /\ Items!NeverAheadOfPayments

LEMMA PaymentsStay ==
  ASSUME PaymentsAdvance, reach' = reach, item'.anchor = item.anchor, item'.frequency = item.frequency
  PROVE  PaymentsAdvance'
<1> SUFFICES ASSUME NEW i \in 1..(Len(reach') - 1)
             PROVE  reach'[i] \in Items!Days /\ reach'[i + 1] = After(item', reach'[i])
  BY DEF PaymentsAdvance, After, Items!advanceObligation, Items!Months, Items!Clamped, Items!YearOf,
    Items!MonthOfYear, Items!Month, Items!DayOfMonth, Items!FirstOf
<1>1. reach[i] \in Items!Days /\ reach[i + 1] = After(item, reach[i])
  BY DEF PaymentsAdvance
<1> QED
  BY <1>1 DEF After

\* A payment accounts for the date after the last one.
LEMMA Pays ==
  ASSUME RowInv, Items!Account,
         item'.anchor = item.anchor, item'.frequency = item.frequency
  PROVE  /\ reach' \in Seq(Nat \ {0}) /\ Len(reach') = Len(reach) + 1
         /\ \A i \in DOMAIN reach : i \in DOMAIN reach' /\ reach'[i] = reach[i]
         /\ \A i \in DOMAIN reach : i + 1 \in DOMAIN reach' /\ reach'[i + 1] = After(item, reach[i])
         /\ PaymentsAdvance'
<1> DEFINE last == reach[Len(reach)]
           new == Items!Advanced([item EXCEPT !.next = last])
<1>1. last \in Items!Days /\ Len(reach) \in Nat /\ Len(reach) \in DOMAIN reach
  BY ScheduleAssumption DEF RowInv, Items!Account, Items!Days, Covers
<1>2. new = After(item, last)
  BY DEF Items!Advanced, After, RowInv, Items!Row
<1>3. new \in Nat \ {0}
  BY <1>1, <1>2, AfterIsNext DEF RowInv
<1>4. reach' = Append(reach, new)
  BY DEF Items!Account
<1> HIDE DEF new
<1>5. /\ reach' \in Seq(Nat \ {0}) /\ Len(reach') = Len(reach) + 1
      /\ \A i \in DOMAIN reach : i \in DOMAIN reach' /\ reach'[i] = reach[i]
      /\ Len(reach) + 1 \in DOMAIN reach' /\ reach'[Len(reach) + 1] = new
  BY <1>1, <1>3, <1>4 DEF RowInv
<1>6. \A i \in DOMAIN reach : i \in 1..(Len(reach) - 1) \/ i = Len(reach)
  BY <1>1 DEF RowInv
<1>7. \A i \in DOMAIN reach : i + 1 \in DOMAIN reach' /\ reach'[i + 1] = After(item, reach[i]) /\ reach[i] \in Items!Days
  <2> SUFFICES ASSUME NEW i \in DOMAIN reach
               PROVE  i + 1 \in DOMAIN reach' /\ reach'[i + 1] = After(item, reach[i]) /\ reach[i] \in Items!Days
    OBVIOUS
  <2>1. CASE i = Len(reach)
    BY <1>1, <1>2, <1>5, <2>1
  <2>2. CASE i \in 1..(Len(reach) - 1)
    <3>1. i + 1 \in DOMAIN reach
      BY <1>1, <2>2 DEF RowInv
    <3>2. reach[i] \in Items!Days /\ reach[i + 1] = After(item, reach[i])
      BY <2>2 DEF RowInv, PaymentsAdvance
    <3> QED
      BY <1>5, <3>1, <3>2
  <2> QED
    BY <1>6, <2>1, <2>2
<1>8. \A d : After(item', d) = After(item, d)
  BY DEF After
<1>9. PaymentsAdvance'
  <2> SUFFICES ASSUME NEW i \in 1..(Len(reach') - 1)
               PROVE  reach'[i] \in Items!Days /\ reach'[i + 1] = After(item', reach'[i])
    BY DEF PaymentsAdvance, After, Items!advanceObligation, Items!Months, Items!Clamped, Items!YearOf,
      Items!MonthOfYear, Items!Month, Items!DayOfMonth, Items!FirstOf
  <2>1. i \in DOMAIN reach
    BY <1>1, <1>5 DEF RowInv
  <2>2. reach'[i] = reach[i]
    BY <1>5, <2>1
  <2> QED
    BY <1>7, <1>8, <2>1, <2>2
<1> QED
  BY <1>5, <1>7, <1>9

\* A request keeps what it has read while others write.
LEMMA ReadsKept ==
  ASSUME ReadBefore, edition \in Nat, edition' \in Nat, edition' >= edition,
         \A q \in Requests : itemPc'[q] # "idle" => itemPc[q] # "idle" /\ itemSnap'[q] = itemSnap[q],
         edition' = edition => /\ item'.anchor = item.anchor /\ item'.frequency = item.frequency
                               /\ lost => lost'
                               /\ \A row : Reached(row) => lost' \/ Reached(row)'
  PROVE  ReadBefore'
<1> SUFFICES ASSUME NEW q \in Requests, itemPc'[q] # "idle", NEW s, s = itemSnap'[q]
             PROVE  /\ s.row \in Items!Row /\ s.row.next \in Items!Days /\ s.edition \in Nat /\ s.edition <= edition'
                    /\ s.edition = edition' => /\ s.row.anchor = item'.anchor /\ s.row.frequency = item'.frequency
                                               /\ lost' \/ Reached(s.row)'
  BY DEF ReadBefore, Reached
<1>1. /\ s.row \in Items!Row /\ s.row.next \in Items!Days /\ s.edition \in Nat /\ s.edition <= edition
      /\ s.edition = edition => /\ s.row.anchor = item.anchor /\ s.row.frequency = item.frequency
                                /\ lost \/ Reached(s.row)
  BY DEF ReadBefore
<1>2. s.edition <= edition' /\ (s.edition = edition' => edition' = edition)
  BY <1>1
<1>3. s.edition = edition' => lost' \/ Reached(s.row)'
  BY <1>1, <1>2
<1> QED
  BY <1>1, <1>2, <1>3

LEMMA ItemAnswers ==
  ASSUME Items!TypeOK, NEW r \in Requests, Items!Answer(r)
  PROVE  /\ itemPc' \in [Requests -> {"idle", "update", "renew"}]
         /\ itemSnap' \in [Requests -> Items!Snapshot \cup {None}]
         /\ \A q \in Requests : itemPc'[q] = "idle" <=> itemSnap'[q] = None
         /\ \A q \in Requests : itemPc'[q] # "idle" => itemPc[q] # "idle" /\ itemSnap'[q] = itemSnap[q]
BY DEF Items!TypeOK, Items!Answer

LEMMA ItemRenews ==
  ASSUME ItemInv, NEW r \in Requests, Items!Renew(r)
  PROVE  ItemInv'
<1> DEFINE s == itemSnap[r]
<1>1. /\ itemPc[r] = "renew" /\ item' = [item EXCEPT !.next = Items!Advanced(s.row)] /\ Items!Account
      /\ lost' = (lost \/ s.edition # edition) /\ Items!Answer(r) /\ UNCHANGED <<kind, itemExists, edition>>
  BY DEF Items!Renew
<1>2. /\ s.row \in Items!Row /\ s.row.next \in Items!Days
      /\ s.edition = edition => /\ s.row.anchor = item.anchor /\ s.row.frequency = item.frequency
                                /\ lost \/ Reached(s.row)
  BY <1>1 DEF ItemInv, ReadBefore
<1>3. Items!Advanced(s.row) = After(s.row, s.row.next) /\ Items!Advanced(s.row) \in Nat \ {0}
  BY <1>2, AfterIsNext DEF Items!Advanced, After
<1> HIDE DEF s
<1>4. /\ item' \in Items!Row /\ item'.anchor = item.anchor /\ item'.frequency = item.frequency
      /\ item'.status = item.status /\ item'.next = After(s.row, s.row.next)
  BY <1>1, <1>3 DEF ItemInv, Items!TypeOK, Items!Row
<1>5. RowInv /\ edition \in Nat
  BY DEF ItemInv, RowInv, Items!TypeOK
<1>6. /\ reach' \in Seq(Nat \ {0}) /\ Len(reach') = Len(reach) + 1
      /\ \A i \in DOMAIN reach : i \in DOMAIN reach' /\ reach'[i] = reach[i]
      /\ \A i \in DOMAIN reach : i + 1 \in DOMAIN reach' /\ reach'[i + 1] = After(item, reach[i])
      /\ PaymentsAdvance'
  BY <1>1, <1>4, <1>5, Pays
<1>7. ReadBefore'
  <2>1. \A row : Reached(row) => Reached(row)'
    BY <1>1, <1>4, <1>6 DEF Reached
  <2>2. \A q \in Requests : itemPc'[q] # "idle" => itemPc[q] # "idle" /\ itemSnap'[q] = itemSnap[q]
    BY <1>1, ItemAnswers DEF ItemInv
  <2>3. edition' = edition /\ (lost => lost') /\ ReadBefore
    BY <1>1 DEF ItemInv
  <2> QED
    BY <1>4, <1>5, <2>1, <2>2, <2>3, ReadsKept
<1>8. Items!NeverAheadOfPayments'
  <2>1. CASE lost'
    BY <2>1 DEF Items!NeverAheadOfPayments
  <2>2. CASE ~lost'
    <3>1. Reached(s.row) /\ s.row.anchor = item.anchor /\ s.row.frequency = item.frequency
      BY <1>1, <1>2, <2>2
    <3>2. PICK i \in DOMAIN reach : s.row.next = reach[i]
      BY <3>1 DEF Reached
    <3>3. item'.next = reach'[i + 1] /\ i + 1 \in DOMAIN reach'
      BY <1>4, <1>6, <3>1, <3>2 DEF After
    <3> QED
      BY <3>3 DEF Items!NeverAheadOfPayments
  <2> QED
    BY <2>1, <2>2
<1>9. Items!TypeOK'
  <2>1. lost' \in BOOLEAN
    BY <1>1, <1>5 DEF RowInv
  <2>2. item'.status \in Items!Statuses'
    BY <1>1, <1>4 DEF ItemInv, Items!TypeOK, Items!Statuses
  <2>3. Items!TypeOK
    BY DEF ItemInv
  <2>4. /\ itemPc' \in [Requests -> {"idle", "update", "renew"}]
        /\ itemSnap' \in [Requests -> Items!Snapshot \cup {None}]
        /\ \A q \in Requests : itemPc'[q] = "idle" <=> itemSnap'[q] = None
    BY <1>1, <2>3, ItemAnswers
  <2> QED
    BY <1>1, <1>4, <1>6, <2>1, <2>2, <2>3, <2>4 DEF Items!TypeOK
<1> QED
  BY <1>5, <1>6, <1>7, <1>8, <1>9 DEF ItemInv, RowInv

\* An update that changes the schedule begins anew with the date it leaves.
LEMMA ItemReset ==
  ASSUME ItemInv, NEW r \in Requests, Items!Answer(r), edition < 1, edition' = edition + 1,
         item' \in Items!Row, item'.status \in Items!Statuses', reach' = <<item'.next>>, lost' = FALSE,
         UNCHANGED <<kind, itemExists>>
  PROVE  ItemInv'
<1>1. Items!TypeOK /\ ReadBefore /\ edition \in 0..1
  BY DEF ItemInv, Items!TypeOK
<1>2. edition' \in 0..1 /\ edition' # edition /\ edition' >= edition /\ edition \in Nat /\ edition' \in Nat
  BY <1>1
<1>3. item'.next \in Nat \ {0}
  BY DEF Items!Row
<1>4. reach' \in Seq(Nat \ {0}) /\ Len(reach') = 1 /\ reach'[1] = item'.next /\ 1 \in DOMAIN reach'
  BY <1>3
<1>5. /\ itemPc' \in [Requests -> {"idle", "update", "renew"}]
      /\ itemSnap' \in [Requests -> Items!Snapshot \cup {None}]
      /\ \A q \in Requests : itemPc'[q] = "idle" <=> itemSnap'[q] = None
      /\ \A q \in Requests : itemPc'[q] # "idle" => itemPc[q] # "idle" /\ itemSnap'[q] = itemSnap[q]
  BY <1>1, ItemAnswers
<1>6. Items!TypeOK'
  <2>1. itemExists' \in BOOLEAN /\ lost' \in BOOLEAN /\ kind' \in {"bill", "subscription"}
    BY <1>1 DEF Items!TypeOK
  <2> QED
    BY <1>2, <1>4, <1>5, <2>1 DEF Items!TypeOK
<1>7. ReadBefore'
  BY <1>1, <1>2, <1>5, ReadsKept
<1>8. PaymentsAdvance' /\ Items!NeverAheadOfPayments'
  BY <1>4 DEF PaymentsAdvance, Items!NeverAheadOfPayments
<1> QED
  BY <1>4, <1>6, <1>7, <1>8 DEF ItemInv

\* An update of the status alone.
LEMMA ItemStatusSet ==
  ASSUME ItemInv, NEW r \in Requests, NEW c \in Changes, Items!Update(r, c), DOMAIN c = {"status"}
  PROVE  ItemInv'
<1> DEFINE s == itemSnap[r]
           written == Items!Body(s.row, c)
           pays    == kind # "subscription" /\ c.status = "PAID" /\ s.row.status # "PAID"
           payment == kind = "bill" /\ c.status = "PAID" /\ item.status # "PAID"
<1>1. /\ itemPc[r] = "update" /\ item' = Items!With(item, written) /\ c.status \in Items!Statuses
      /\ payment => Items!Account
      /\ ~payment => reach' = reach
      /\ lost' = (lost \/ ("next" \in DOMAIN written /\ s.edition # edition))
      /\ Items!Answer(r) /\ UNCHANGED <<kind, itemExists, edition>>
  BY DEF Items!Update
<1>2. /\ s.row \in Items!Row /\ s.row.next \in Items!Days
      /\ s.edition = edition => /\ s.row.anchor = item.anchor /\ s.row.frequency = item.frequency
                                /\ lost \/ Reached(s.row)
  BY <1>1 DEF ItemInv, ReadBefore
<1>3. RowInv /\ edition \in Nat /\ kind \in {"bill", "subscription"}
  BY DEF ItemInv, RowInv, Items!TypeOK
<1>4. /\ DOMAIN written \subseteq {"status", "anchor", "next", "frequency"}
      /\ "status" \in DOMAIN written /\ written.status = c.status
      /\ "next" \in DOMAIN written => written.next \in Nat \ {0}
      /\ "anchor" \notin DOMAIN written /\ "frequency" \notin DOMAIN written
      /\ "next" \in DOMAIN written <=> pays
      /\ pays => written.next = After(s.row, s.row.next)
  BY <1>1, <1>2, BodyIs
<1> HIDE DEF written, s
<1>5. /\ item' \in Items!Row /\ item'.status = c.status /\ item'.anchor = item.anchor
      /\ item'.frequency = item.frequency
      /\ item'.next = IF pays THEN After(s.row, s.row.next) ELSE item.next
  BY <1>1, <1>3, <1>4, WithIsRow DEF Items!Statuses, RowInv
<1>6. payment => /\ reach' \in Seq(Nat \ {0}) /\ Len(reach') = Len(reach) + 1
                 /\ \A i \in DOMAIN reach : i \in DOMAIN reach' /\ reach'[i] = reach[i]
                 /\ \A i \in DOMAIN reach : i + 1 \in DOMAIN reach' /\ reach'[i + 1] = After(item, reach[i])
                 /\ PaymentsAdvance'
  BY <1>1, <1>3, <1>5, Pays
<1>7. PaymentsAdvance' /\ reach' \in Seq(Nat \ {0}) /\ Len(reach') >= Len(reach) /\ Len(reach) \in Nat
  <2>1. CASE payment
    BY <1>3, <1>6, <2>1 DEF RowInv
  <2>2. CASE ~payment
    <3>1. PaymentsAdvance'
      BY <1>1, <1>3, <1>5, <2>2, PaymentsStay DEF RowInv
    <3> QED
      BY <1>1, <1>3, <2>2, <3>1 DEF RowInv
  <2> QED
    BY <2>1, <2>2
<1>8. \A row : Reached(row) => Reached(row)'
  <2> SUFFICES ASSUME NEW row, Reached(row)
               PROVE  Reached(row)'
    OBVIOUS
  <2>1. PICK i \in DOMAIN reach :
          row.next = reach[i] /\ (kind = "bill" /\ row.status # "PAID" => i < Len(reach) \/ item.status # "PAID")
    BY DEF Reached
  <2>2. CASE payment
    <3>1. i \in DOMAIN reach' /\ reach'[i] = reach[i] /\ i < Len(reach')
      BY <1>3, <1>6, <2>2 DEF RowInv
    <3> QED
      BY <2>1, <3>1 DEF Reached
  <2>3. CASE ~payment
    BY <1>1, <1>5, <2>1, <2>3 DEF Reached
  <2> QED
    BY <2>2, <2>3
<1>9. ReadBefore'
  <2>1. \A q \in Requests : itemPc'[q] # "idle" => itemPc[q] # "idle" /\ itemSnap'[q] = itemSnap[q]
    BY <1>1, ItemAnswers DEF ItemInv
  <2>2. edition' = edition /\ (lost => lost') /\ ReadBefore
    BY <1>1 DEF ItemInv
  <2> QED
    BY <1>3, <1>5, <1>8, <2>1, <2>2, ReadsKept
<1>10. Items!NeverAheadOfPayments'
  <2>1. CASE lost'
    BY <2>1 DEF Items!NeverAheadOfPayments
  <2>2. CASE ~lost' /\ pays
    <3>1. Reached(s.row) /\ s.row.anchor = item.anchor /\ s.row.frequency = item.frequency
      BY <1>1, <1>2, <1>4, <2>2 DEF s
    <3>2. PICK i \in DOMAIN reach : s.row.next = reach[i] /\ (i < Len(reach) \/ item.status # "PAID")
      BY <1>3, <2>2, <3>1 DEF Reached
    <3>3. item'.next = After(item, reach[i])
      BY <1>5, <2>2, <3>1, <3>2 DEF After
    <3>4. CASE payment
      BY <1>6, <3>3, <3>4 DEF Items!NeverAheadOfPayments
    <3>5. CASE ~payment
      <4>1. i \in 1..(Len(reach) - 1) /\ i + 1 \in DOMAIN reach
        BY <1>3, <2>2, <3>2, <3>5 DEF RowInv
      <4>2. reach[i + 1] = After(item, reach[i]) /\ reach' = reach
        BY <1>1, <1>3, <3>5, <4>1 DEF RowInv, PaymentsAdvance
      <4> QED
        BY <3>3, <4>1, <4>2 DEF Items!NeverAheadOfPayments
    <3> QED
      BY <3>4, <3>5
  <2>3. CASE ~lost' /\ ~pays
    <3>1. PICK i \in DOMAIN reach : item.next = reach[i]
      BY <1>1, <2>3 DEF ItemInv, Items!NeverAheadOfPayments
    <3>2. i \in DOMAIN reach' /\ reach'[i] = reach[i]
      BY <1>1, <1>6
    <3> QED
      BY <1>5, <2>3, <3>1, <3>2 DEF Items!NeverAheadOfPayments
  <2> QED
    BY <2>1, <2>2, <2>3
<1>11. Items!TypeOK'
  <2>1. Items!TypeOK
    BY DEF ItemInv
  <2>2. lost' \in BOOLEAN
    BY <1>1, <2>1 DEF Items!TypeOK
  <2>3. item'.status \in Items!Statuses'
    BY <1>1, <1>5 DEF Items!Statuses
  <2>4. /\ itemPc' \in [Requests -> {"idle", "update", "renew"}]
        /\ itemSnap' \in [Requests -> Items!Snapshot \cup {None}]
        /\ \A q \in Requests : itemPc'[q] = "idle" <=> itemSnap'[q] = None
    BY <1>1, <2>1, ItemAnswers
  <2> QED
    BY <1>1, <1>5, <1>7, <2>1, <2>2, <2>3, <2>4 DEF Items!TypeOK
<1> QED
  BY <1>3, <1>7, <1>9, <1>10, <1>11 DEF ItemInv, RowInv

LEMMA ItemUpdates ==
  ASSUME ItemInv, NEW r \in Requests, NEW c \in Changes, Items!Update(r, c)
  PROVE  ItemInv'
<1> DEFINE s == itemSnap[r]
           written == Items!Body(s.row, c)
<1>1. CASE DOMAIN c = {"status"}
  BY <1>1, ItemStatusSet
<1>2. CASE DOMAIN c # {"status"}
  <2>1. /\ itemPc[r] = "update" /\ item' = Items!With(item, written) /\ Items!Answer(r)
        /\ "status" \in DOMAIN c => c.status \in Items!Statuses
        /\ edition < 1 /\ edition' = edition + 1 /\ reach' = <<item'.next>> /\ lost' = FALSE
        /\ UNCHANGED <<kind, itemExists>>
    BY <1>2 DEF Items!Update
  <2>2. s.row \in Items!Row /\ s.row.next \in Items!Days
    BY <2>1 DEF ItemInv, ReadBefore
  <2>3. /\ DOMAIN written \subseteq {"status", "anchor", "next", "frequency"}
        /\ "status" \in DOMAIN written <=> "status" \in DOMAIN c
        /\ "status" \in DOMAIN c => written.status = c.status
        /\ "anchor" \in DOMAIN written => written.anchor \in Items!Days
        /\ "next" \in DOMAIN written => written.next \in Nat \ {0}
        /\ "frequency" \in DOMAIN written => written.frequency \in Items!Frequency
    BY <2>1, <2>2, BodyIs
  <2> HIDE DEF written
  <2>4. item \in Items!Row /\ item.status \in Items!Statuses
    BY DEF ItemInv, Items!TypeOK
  <2>5. item' \in Items!Row /\ item'.status = IF "status" \in DOMAIN c THEN c.status ELSE item.status
    BY <2>1, <2>3, <2>4, WithIsRow DEF Items!Statuses
  <2>6. item'.status \in Items!Statuses'
    BY <2>1, <2>4, <2>5 DEF Items!Statuses
  <2> QED
    BY <2>1, <2>5, <2>6, ItemReset
<1> QED
  BY <1>1, <1>2

LEMMA ItemReads ==
  ASSUME ItemInv, NEW r \in Requests, NEW operation \in {"update", "renew"}, Items!Read(r, operation)
  PROVE  ItemInv'
<1> DEFINE s == [row |-> item, edition |-> edition]
<1>1. /\ itemPc[r] = "idle" /\ item.next <= MaxRuleDay
      /\ itemPc' = [itemPc EXCEPT ![r] = operation] /\ itemSnap' = [itemSnap EXCEPT ![r] = s]
      /\ UNCHANGED <<kind, itemExists, item, reach, edition, lost>>
  BY DEF Items!Read, Items!history
<1>2. Items!TypeOK /\ ReadBefore /\ PaymentsAdvance /\ Items!NeverAheadOfPayments /\ Len(reach) > 0
  BY DEF ItemInv
<1>3. item \in Items!Row /\ edition \in 0..1 /\ item.next \in Items!Days /\ reach \in Seq(Nat \ {0})
  BY <1>1, <1>2, ScheduleAssumption DEF Items!TypeOK, Items!Row, Items!Days, Covers
<1>4. s \in Items!Snapshot /\ s # None /\ s.row = item /\ s.edition = edition
  BY <1>3, ScheduleAssumption DEF Items!Snapshot
<1> HIDE DEF s
<1>5. /\ itemPc'[r] = operation /\ itemSnap'[r] = s
      /\ \A q \in Requests : q # r => itemPc'[q] = itemPc[q] /\ itemSnap'[q] = itemSnap[q]
  BY <1>1, <1>2 DEF Items!TypeOK
<1>6. Items!TypeOK'
  <2>1. /\ itemPc' \in [Requests -> {"idle", "update", "renew"}]
        /\ itemSnap' \in [Requests -> Items!Snapshot \cup {None}]
        /\ \A q \in Requests : itemPc'[q] = "idle" <=> itemSnap'[q] = None
    BY <1>1, <1>2, <1>4, <1>5 DEF Items!TypeOK
  <2> QED
    BY <1>1, <1>2, <2>1 DEF Items!TypeOK, Items!Statuses
<1>7. lost \/ Reached(item)
  <2>1. CASE ~lost
    <3>1. PICK i \in DOMAIN reach : item.next = reach[i]
      BY <1>2, <2>1 DEF Items!NeverAheadOfPayments
    <3> QED
      BY <3>1 DEF Reached
  <2> QED
    BY <2>1
<1>8. ReadBefore'
  <2> SUFFICES ASSUME NEW q \in Requests, itemPc'[q] # "idle", NEW t, t = itemSnap'[q]
               PROVE  /\ t.row \in Items!Row /\ t.row.next \in Items!Days /\ t.edition \in Nat /\ t.edition <= edition
                      /\ t.edition = edition => /\ t.row.anchor = item.anchor /\ t.row.frequency = item.frequency
                                                /\ lost \/ Reached(t.row)
    BY <1>1 DEF ReadBefore, Reached
  <2>1. CASE q = r
    BY <1>3, <1>4, <1>5, <1>7, <2>1
  <2>2. CASE q # r
    BY <1>2, <1>5, <2>2 DEF ReadBefore
  <2> QED
    BY <2>1, <2>2
<1>9. PaymentsAdvance' /\ Items!NeverAheadOfPayments'
  BY <1>1, <1>2, PaymentsStay DEF Items!NeverAheadOfPayments
<1> QED
  BY <1>1, <1>2, <1>6, <1>8, <1>9 DEF ItemInv

\* A step that leaves the row and its dates as they are, and perhaps ends a request.
LEMMA ItemStays ==
  ASSUME ItemInv, UNCHANGED <<kind, item, reach, edition, lost>>, itemExists' \in BOOLEAN,
         \/ UNCHANGED <<itemPc, itemSnap>>
         \/ \E r \in Requests : Items!Answer(r)
  PROVE  ItemInv'
<1>1. Items!TypeOK /\ ReadBefore /\ PaymentsAdvance /\ Items!NeverAheadOfPayments /\ Len(reach) > 0 /\ edition \in Nat
  BY DEF ItemInv, Items!TypeOK
<1>2. /\ itemPc' \in [Requests -> {"idle", "update", "renew"}]
      /\ itemSnap' \in [Requests -> Items!Snapshot \cup {None}]
      /\ \A q \in Requests : itemPc'[q] = "idle" <=> itemSnap'[q] = None
      /\ \A q \in Requests : itemPc'[q] # "idle" => itemPc[q] # "idle" /\ itemSnap'[q] = itemSnap[q]
  <2>1. CASE UNCHANGED <<itemPc, itemSnap>>
    BY <1>1, <2>1 DEF Items!TypeOK
  <2>2. CASE \E r \in Requests : Items!Answer(r)
    BY <1>1, <2>2, ItemAnswers
  <2> QED
    BY <2>1, <2>2
<1>3. Items!TypeOK'
  BY <1>1, <1>2 DEF Items!TypeOK, Items!Statuses
<1>4. \A row : Reached(row) => Reached(row)'
  BY DEF Reached
<1>5. ReadBefore'
  BY <1>1, <1>2, <1>4, ReadsKept
<1>6. PaymentsAdvance' /\ Items!NeverAheadOfPayments'
  BY <1>1, PaymentsStay DEF Items!NeverAheadOfPayments
<1> QED
  BY <1>1, <1>3, <1>5, <1>6 DEF ItemInv

LEMMA ItemStep == ItemInv /\ [Items!Next]_Items!vars => ItemInv'
<1> SUFFICES ASSUME ItemInv, [Items!Next]_Items!vars
             PROVE  ItemInv'
  OBVIOUS
<1>1. itemExists \in BOOLEAN
  BY DEF ItemInv, Items!TypeOK
<1>2. ASSUME NEW r \in Requests, NEW operation \in {"update", "renew"}, Items!Read(r, operation) PROVE ItemInv'
  BY <1>2, ItemReads
<1>3. ASSUME NEW r \in Requests, NEW c \in Changes, Items!Update(r, c) PROVE ItemInv'
  BY <1>3, ItemUpdates
<1>4. ASSUME NEW r \in Requests, Items!Renew(r) PROVE ItemInv'
  BY <1>4, ItemRenews
<1>5. ASSUME NEW r \in Requests, Items!Fail(r) PROVE ItemInv'
  <2>1. Items!Answer(r) /\ UNCHANGED <<kind, itemExists, item, reach, edition, lost>>
    BY <1>5 DEF Items!Fail, Items!history
  <2> QED
    BY <1>1, <2>1, ItemStays
<1>6. CASE Items!DeleteItem
  <2>1. itemExists' = FALSE /\ UNCHANGED <<kind, item, itemPc, itemSnap, reach, edition, lost>>
    BY <1>6 DEF Items!DeleteItem, Items!history
  <2>2. itemExists' \in BOOLEAN
    BY <2>1
  <2> QED
    BY <2>1, <2>2, ItemStays
<1>7. CASE UNCHANGED Items!vars
  <2>1. UNCHANGED <<kind, itemExists, item, itemPc, itemSnap, reach, edition, lost>>
    BY <1>7 DEF Items!vars, Items!history
  <2> QED
    BY <1>1, <2>1, ItemStays
<1> QED
  BY <1>2, <1>3, <1>4, <1>5, <1>6, <1>7 DEF Items!Next

LEMMA DatesFollow == ItemInv => Items!NeverAheadOfPayments /\ Items!AdvancesByOneOccurrence
<1> SUFFICES ASSUME ItemInv PROVE Items!AdvancesByOneOccurrence
  BY DEF ItemInv
<1>1. item \in Items!Row /\ reach \in Seq(Nat \ {0}) /\ PaymentsAdvance
  BY DEF ItemInv, Items!TypeOK
<1> SUFFICES ASSUME NEW i \in DOMAIN reach \ {1}
             PROVE  /\ reach[i] > reach[i - 1] /\ Items!OnSchedule(reach[i], item.anchor, item.frequency)
                    /\ \A d \in (reach[i - 1] + 1)..(reach[i] - 1) : ~Items!OnSchedule(d, item.anchor, item.frequency)
  BY DEF Items!AdvancesByOneOccurrence
<1>2. i - 1 \in 1..(Len(reach) - 1) /\ (i - 1) + 1 = i
  BY <1>1
<1>3. reach[i - 1] \in Items!Days /\ reach[i] = After(item, reach[i - 1])
  BY <1>1, <1>2 DEF PaymentsAdvance
<1> QED
  BY <1>1, <1>3, AfterIsNext

-----------------------------------------------------------------------------
(* Habits and challenges.                                                  *)

LEMMA HabitDays ==
  /\ MaxDay \in Nat /\ 0 \in Habits!Days /\ \A d \in Habits!Days : d \in Nat /\ d <= MaxDay
  /\ \A f \in Frequencies : f \in Nat \ {0}
  /\ \A f \in Frequencies, d \in Habits!Days : Habits!Anchor(f, d) \in Habits!Days
<1>1. MaxDay \in Nat /\ \A d \in Habits!Days : d \in Nat /\ d <= MaxDay
  BY MaxDayAssumption DEF Habits!Days
<1>2. \A f \in Frequencies : f \in Nat \ {0}
  BY FrequencyAssumption
<1>3. \A f \in Frequencies, d \in Habits!Days : Habits!Anchor(f, d) \in Habits!Days
  <2>1. \A f \in Frequencies, d \in Habits!Days : Habits!Anchor(f, d) = Anchor(f, d) /\ Anchor(f, d) \in 0..d
    BY <1>1, <1>2, AnchorIs DEF Habits!Anchor, Anchor
  <2> QED
    BY <1>1, <2>1 DEF Habits!Days
<1> QED
  BY <1>1, <1>2, <1>3 DEF Habits!Days

Habit     == [exists : BOOLEAN, active : BOOLEAN, frequency : Frequencies, start : Habits!Days,
              end : Habits!Days \cup {Habits!NoEnd}]
Challenge == [exists : BOOLEAN, active : BOOLEAN, frequency : Frequencies, start : Habits!Days, end : Habits!Days]

LEMMA HabitInit == Habits!Init => Habits!TypeOK
<1> SUFFICES ASSUME Habits!Init PROVE Habits!TypeOK
  OBVIOUS
<1>1. habit \in Habit /\ challenge \in Challenge
  BY HabitDays DEF Habits!Init, Habit, Challenge
<1>2. /\ habitPc \in [HabitRequests -> {"idle", "complete", "uncomplete"}]
      /\ slot \in [HabitRequests -> Habits!Days] /\ day \in Habits!Days
  BY HabitDays DEF Habits!Init
<1>3. joined \in BOOLEAN /\ mapped \in BOOLEAN
  BY DEF Habits!Init
<1>4. done \subseteq [date : Habits!Days, at : Habits!Days] /\ habitEdits \in 0..1
  BY DEF Habits!Init
<1> QED
  BY <1>1, <1>2, <1>3, <1>4 DEF Habits!TypeOK, Habit, Challenge

LEMMA HabitRequestStep ==
  ASSUME Habits!TypeOK, NEW r \in HabitRequests,
         \/ Habits!ReadForComplete(r) \/ Habits!ReadForUncomplete(r)
         \/ Habits!InsertCompletion(r) \/ Habits!DeleteCompletion(r) \/ Habits!Abort(r)
  PROVE  Habits!TypeOK'
<1>1. /\ habit.frequency \in Frequencies /\ day \in Habits!Days /\ done \subseteq [date : Habits!Days, at : Habits!Days]
      /\ slot \in [HabitRequests -> Habits!Days]
      /\ habitPc \in [HabitRequests -> {"idle", "complete", "uncomplete"}]
  BY DEF Habits!TypeOK
<1>2. Habits!Anchor(habit.frequency, day) \in Habits!Days /\ 0 \in Habits!Days
  BY <1>1, HabitDays
<1>3. UNCHANGED <<day, habit, challenge, joined, mapped, habitEdits>>
  BY DEF Habits!ReadForComplete, Habits!ReadForUncomplete, Habits!InsertCompletion, Habits!DeleteCompletion,
    Habits!Abort, Habits!Tables
<1>4. /\ habitPc' \in [HabitRequests -> {"idle", "complete", "uncomplete"}]
      /\ slot' \in [HabitRequests -> Habits!Days]
  BY <1>1, <1>2 DEF Habits!ReadForComplete, Habits!ReadForUncomplete, Habits!InsertCompletion,
    Habits!DeleteCompletion, Habits!Abort, Habits!Answer
<1>5. done' \subseteq [date : Habits!Days, at : Habits!Days]
  <2>1. [date |-> slot[r], at |-> day] \in [date : Habits!Days, at : Habits!Days]
    BY <1>1
  <2>2. \/ done' = done \cup {[date |-> slot[r], at |-> day]} \/ done' \subseteq done
    BY DEF Habits!ReadForComplete, Habits!ReadForUncomplete, Habits!InsertCompletion, Habits!DeleteCompletion,
      Habits!Abort, Habits!Tables
  <2> QED
    BY <1>1, <2>1, <2>2
<1> QED
  BY <1>3, <1>4, <1>5 DEF Habits!TypeOK

LEMMA HabitStep == Habits!TypeOK /\ [Habits!Next]_Habits!vars => Habits!TypeOK'
<1> SUFFICES ASSUME Habits!TypeOK, [Habits!Next]_Habits!vars
             PROVE  Habits!TypeOK'
  OBVIOUS
<1>1. /\ day \in Habits!Days /\ habit \in Habit /\ challenge \in Challenge
      /\ done \subseteq [date : Habits!Days, at : Habits!Days] /\ joined \in BOOLEAN /\ mapped \in BOOLEAN
      /\ habitEdits \in 0..1
      /\ habitPc \in [HabitRequests -> {"idle", "complete", "uncomplete"}] /\ slot \in [HabitRequests -> Habits!Days]
  BY DEF Habits!TypeOK, Habit, Challenge
<1>2. ASSUME NEW r \in HabitRequests,
             \/ Habits!ReadForComplete(r) \/ Habits!ReadForUncomplete(r)
             \/ Habits!InsertCompletion(r) \/ Habits!DeleteCompletion(r) \/ Habits!Abort(r)
      PROVE  Habits!TypeOK'
  BY <1>2, HabitRequestStep
<1>3. ASSUME NEW h \in Habits!HabitEdits, Habits!EditHabit(h)
      PROVE  Habits!TypeOK'
  <2>1. /\ habit' = h /\ habitEdits < 1 /\ habitEdits' = habitEdits + 1
        /\ UNCHANGED <<day, done, challenge, joined, mapped, habitPc, slot>>
    BY <1>3 DEF Habits!EditHabit, Habits!locals
  <2>2. h \in Habit
    <3>1. \A f \in Frequencies : [habit EXCEPT !.frequency = f] \in Habit
      BY <1>1 DEF Habit
    <3>2. \A d \in Habits!Days : [habit EXCEPT !.start = d] \in Habit
      BY <1>1 DEF Habit
    <3>3. \A e \in Habits!Days \cup {Habits!NoEnd} : [habit EXCEPT !.end = e] \in Habit
      BY <1>1 DEF Habit
    <3>4. [habit EXCEPT !.active = ~habit.active] \in Habit
      BY <1>1 DEF Habit
    <3> QED
      BY <1>3, <3>1, <3>2, <3>3, <3>4 DEF Habits!HabitEdits
  <2>3. habitEdits' \in 0..1
    BY <1>1, <2>1
  <2> QED
    BY <1>1, <2>1, <2>2, <2>3 DEF Habits!TypeOK, Habit, Challenge
<1>4. ASSUME NEW c \in Habits!ChallengeEdits, Habits!EditChallenge(c)
      PROVE  Habits!TypeOK'
  <2>1. /\ challenge' = c /\ habitEdits < 1 /\ habitEdits' = habitEdits + 1
        /\ UNCHANGED <<day, habit, done, joined, mapped, habitPc, slot>>
    BY <1>4 DEF Habits!EditChallenge, Habits!locals
  <2>2. c \in Challenge
    <3>1. \A d \in Habits!Days : [challenge EXCEPT !.start = d] \in Challenge
      BY <1>1 DEF Challenge
    <3>2. \A d \in Habits!Days : [challenge EXCEPT !.end = d] \in Challenge
      BY <1>1 DEF Challenge
    <3>3. [challenge EXCEPT !.active = ~challenge.active] \in Challenge
      BY <1>1 DEF Challenge
    <3> QED
      BY <1>4, <3>1, <3>2, <3>3 DEF Habits!ChallengeEdits
  <2>3. habitEdits' \in 0..1
    BY <1>1, <2>1
  <2> QED
    BY <1>1, <2>1, <2>2, <2>3 DEF Habits!TypeOK, Habit, Challenge
<1>5. CASE Habits!DeleteHabit \/ Habits!DeleteChallenge
  <2>1. habit' \in Habit /\ challenge' \in Challenge
    BY <1>1, <1>5 DEF Habits!DeleteHabit, Habits!DeleteChallenge, Habit, Challenge
  <2>2. joined' \in BOOLEAN /\ mapped' \in BOOLEAN
    BY <1>1, <1>5 DEF Habits!DeleteHabit, Habits!DeleteChallenge
  <2>3. done' \subseteq [date : Habits!Days, at : Habits!Days] /\ UNCHANGED <<day, habitEdits, habitPc, slot>>
    BY <1>1, <1>5 DEF Habits!DeleteHabit, Habits!DeleteChallenge, Habits!locals
  <2> QED
    BY <1>1, <2>1, <2>2, <2>3 DEF Habits!TypeOK, Habit, Challenge
<1>6. CASE Habits!Join \/ Habits!Leave \/ Habits!MapHabit
  <2>1. joined' \in BOOLEAN /\ mapped' \in BOOLEAN
    BY <1>1, <1>6 DEF Habits!Join, Habits!Leave, Habits!MapHabit
  <2>2. UNCHANGED <<day, habit, done, challenge, habitEdits, habitPc, slot>>
    BY <1>6 DEF Habits!Join, Habits!Leave, Habits!MapHabit, Habits!locals
  <2> QED
    BY <1>1, <2>1, <2>2 DEF Habits!TypeOK, Habit, Challenge
<1>7. CASE Habits!NextDay
  <2>1. day' \in Habits!Days
    BY <1>1, <1>7, HabitDays DEF Habits!NextDay, Habits!Days
  <2>2. UNCHANGED <<habit, done, challenge, joined, mapped, habitEdits, habitPc, slot>>
    BY <1>7 DEF Habits!NextDay, Habits!locals
  <2> QED
    BY <1>1, <2>1, <2>2 DEF Habits!TypeOK, Habit, Challenge
<1>8. CASE UNCHANGED Habits!vars
  BY <1>8 DEF Habits!TypeOK, Habits!vars, Habits!locals
<1> QED
  BY <1>2, <1>3, <1>4, <1>5, <1>6, <1>7, <1>8 DEF Habits!Next

\* The days that count for a requirement are days that have been.
LEMMA WindowIs ==
  ASSUME Habits!TypeOK
  PROVE  Habits!Window.from \in Nat /\ Habits!Window.to \in Nat /\ Habits!Window.to <= day /\ day \in Nat
<1>1. /\ day \in Nat /\ challenge.start \in Nat /\ challenge.end \in Nat /\ habit.start \in Nat
      /\ habit.end # Habits!NoEnd => habit.end \in Nat
  <2>1. habit \in Habit /\ challenge \in Challenge /\ day \in Habits!Days
    BY DEF Habits!TypeOK, Habit, Challenge
  <2> QED
    BY <2>1, HabitDays DEF Habit, Challenge
<1>2. \A x, y \in Nat : /\ Habits!Max({x, y}) \in Nat
                        /\ Habits!Min({x, y}) \in Nat /\ Habits!Min({x, y}) <= x /\ Habits!Min({x, y}) <= y
  <2> SUFFICES ASSUME NEW x \in Nat, NEW y \in Nat
               PROVE  /\ Habits!Max({x, y}) \in Nat
                      /\ Habits!Min({x, y}) \in Nat /\ Habits!Min({x, y}) <= x /\ Habits!Min({x, y}) <= y
    OBVIOUS
  <2>1. Habits!Max({x, y}) \in {x, y}
    <3>1. \E m \in {x, y} : \A n \in {x, y} : m >= n
      OBVIOUS
    <3> QED
      BY <3>1 DEF Habits!Max
  <2>2. Habits!Min({x, y}) \in {x, y} /\ \A n \in {x, y} : Habits!Min({x, y}) <= n
    <3>1. \E m \in {x, y} : \A n \in {x, y} : m <= n
      OBVIOUS
    <3> QED
      BY <3>1 DEF Habits!Min
  <2> QED
    BY <2>1, <2>2
<1> DEFINE last == Habits!Min({challenge.end, day})
<1>3. last \in Nat /\ last <= day
  BY <1>1, <1>2
<1> HIDE DEF last
<1>4. Habits!Window = [from |-> IF mapped THEN Habits!Max({challenge.start, habit.start}) ELSE challenge.start,
                       to   |-> IF mapped /\ habit.end # Habits!NoEnd THEN Habits!Min({last, habit.end}) ELSE last]
  BY DEF Habits!Window, last
<1>5. Habits!Window.from \in Nat
  BY <1>1, <1>2, <1>4
<1>6. Habits!Window.to \in Nat /\ Habits!Window.to <= day
  <2>1. CASE mapped /\ habit.end # Habits!NoEnd
    <3>1. Habits!Min({last, habit.end}) \in Nat /\ Habits!Min({last, habit.end}) <= last
      BY <1>1, <1>2, <1>3, <2>1
    <3> QED
      BY <1>1, <1>3, <1>4, <2>1, <3>1
  <2>2. CASE ~(mapped /\ habit.end # Habits!NoEnd)
    BY <1>3, <1>4, <2>2
  <2> QED
    BY <2>1, <2>2
<1> QED
  BY <1>1, <1>5, <1>6

\* As many periods are eligible as begin between the first and the last one.
LEMMA EligibleAre ==
  ASSUME NEW f \in Nat \ {0}, NEW from \in Nat, NEW to \in Nat, NEW now \in Nat, from <= to, to <= now
  PROVE  Habits!EligibleCount(f, from, to, now) = (to \div f) - (from \div f) + 1
<1> DEFINE p == from \div f
           q == to \div f
<1>1. /\ p \in Nat /\ q \in Nat /\ Anchor(f, from) = f * p /\ Anchor(f, to) = f * q
      /\ p <= q /\ Anchor(f, from) <= Anchor(f, to) /\ f * p \in Int /\ f * q \in Int
  <2>1. /\ p \in Nat /\ Anchor(f, from) \in 0..from /\ Anchor(f, from) = f * p
        /\ q \in Nat /\ Anchor(f, to) \in 0..to /\ Anchor(f, to) = f * q
    BY AnchorIs
  <2>2. p <= q /\ Anchor(f, from) <= Anchor(f, to)
    BY AnchorsGrow
  <2> QED
    BY <2>1, <2>2
<1>2. Habits!LastDay(to, now) = to
  BY DEF Habits!LastDay, Habits!NoEnd
<1>3. Habits!Bounds(f, from, to, now) = [from |-> f * p, to |-> f * q]
  BY <1>1, <1>2 DEF Habits!Bounds, Habits!Anchor, Anchor
<1> HIDE DEF p, q
<1>4. f * q - f * p = f * (q - p) + 0
  BY <1>1
<1>5. (f * q - f * p) \div f = q - p
  <2>1. q - p \in Int /\ 0 \in 0..(f - 1)
    BY <1>1
  <2>2. (f * (q - p) + 0) \div f = q - p
    BY <2>1, DivisionUnique
  <2> QED
    BY <1>4, <2>2
<1> QED
  BY <1>1, <1>3, <1>5 DEF Habits!EligibleCount, p, q

\* The periods that a requirement earns are among those.
LEMMA EarnedAre ==
  ASSUME Habits!TypeOK, NEW e \in Habits!Earned
  PROVE  LET f == challenge.frequency
         IN  /\ Habits!Window.from <= Habits!Window.to
             /\ \E k \in (Habits!Window.from \div f)..(Habits!Window.to \div f) : e = f * k
<1> DEFINE f == challenge.frequency
           from == Habits!Window.from
           to == Habits!Window.to
<1>1. f \in Nat \ {0} /\ from \in Nat /\ to \in Nat
  <2>1. challenge \in Challenge
    BY DEF Habits!TypeOK, Challenge
  <2> QED
    BY <2>1, HabitDays, WindowIs DEF Challenge
<1>2. PICK d \in Habits!Dates : Habits!InWindow(d) /\ e = Habits!Anchor(f, d)
  BY DEF Habits!Earned
<1>3. d \in Nat /\ from <= d /\ d <= to
  BY <1>2, HabitDays DEF Habits!Dates, Habits!TypeOK, Habits!InWindow
<1>4. e = Anchor(f, d)
  BY <1>2 DEF Habits!Anchor, Anchor
<1> HIDE DEF f, from, to
<1>5. e = f * (d \div f) /\ d \div f \in (from \div f)..(to \div f)
  <2>1. e = f * (d \div f) /\ d \div f \in Nat /\ from \div f \in Nat /\ to \div f \in Nat
    BY <1>1, <1>3, <1>4, AnchorIs
  <2>2. from \div f <= d \div f /\ d \div f <= to \div f
    BY <1>1, <1>3, AnchorsGrow
  <2> QED
    BY <2>1, <2>2
<1> QED
  BY <1>1, <1>3, <1>5 DEF f, from, to

LEMMA SameCardinality == \A S : Habits!Cardinality(S) = Cardinality(S)
BY DEF Habits!Cardinality, Cardinality, IsFiniteSet, Habits!IsFiniteSet

\* The cap on the progress of a requirement is never reached.
LEMMA CapHolds == Habits!TypeOK => Habits!CapNeverBites
<1> SUFFICES ASSUME Habits!TypeOK PROVE Habits!CapNeverBites
  OBVIOUS
<1> DEFINE f == challenge.frequency
           from == Habits!Window.from
           to == Habits!Window.to
           E == Habits!Earned
           K == (from \div f)..(to \div f)
<1>1. f \in Nat \ {0} /\ from \in Nat /\ to \in Nat /\ to <= day /\ day \in Nat
  <2>1. challenge \in Challenge
    BY DEF Habits!TypeOK, Challenge
  <2> QED
    BY <2>1, HabitDays, WindowIs DEF Challenge
<1>2. \A e \in E : from <= to /\ \E k \in K : e = f * k
  BY EarnedAre
<1>3. Habits!EligiblePeriods = IF from > to THEN 0 ELSE Habits!EligibleCount(f, from, to, day)
  BY DEF Habits!EligiblePeriods
<1> HIDE DEF f, from, to, E
<1>4. ASSUME from > to PROVE Cardinality(E) <= Habits!EligiblePeriods
  <2>1. E = {}
    BY <1>1, <1>2, <1>4
  <2> QED
    BY <1>3, <1>4, <2>1, FS_EmptySet
<1>5. ASSUME from <= to PROVE Cardinality(E) <= Habits!EligiblePeriods
  <2>1. /\ from \div f \in Nat /\ to \div f \in Nat /\ from \div f <= to \div f
    BY <1>1, <1>5, AnchorIs, AnchorsGrow
  <2>2. Habits!EligiblePeriods = (to \div f) - (from \div f) + 1
    BY <1>1, <1>3, <1>5, EligibleAre
  <2>3. IsFiniteSet(K) /\ Cardinality(K) = (to \div f) - (from \div f) + 1
    BY <2>1, FS_Interval
  <2>4. \A k \in K : (f * k) \div f = k
    <3> SUFFICES ASSUME NEW k \in K PROVE (f * k) \div f = k
      OBVIOUS
    <3>1. k \in Int /\ f * k + 0 = f * k
      BY <1>1, <2>1
    <3> QED
      BY <1>1, <3>1, DivisionUnique
  <2> HIDE DEF K
  <2> DEFINE g == [e \in E |-> e \div f]
  <2>5. g \in Injection(E, K)
    <3>1. \A e \in E : e \div f \in K /\ e = f * (e \div f)
      BY <1>2, <2>4
    <3> QED
      BY <3>1 DEF Injection, IsInjective
  <2>6. Cardinality(E) <= Cardinality(K)
    BY <2>3, <2>5, FS_Injection
  <2> QED
    BY <2>2, <2>3, <2>6
<1>6. Cardinality(Habits!Earned) <= Habits!EligiblePeriods
  BY <1>1, <1>4, <1>5 DEF E
<1> QED
  BY <1>6, SameCardinality DEF Habits!CapNeverBites

\* What the instance derives from the rows is what the lemmas about periods are about.
LEMMA SamePeriods ==
  /\ \A f, b, e, t, dates : Habits!InRange(f, b, e, t, dates) = InRange(f, b, e, t, dates)
  /\ \A f, b, e, t, dates : Habits!CompletedPeriods(f, b, e, t, dates) = CompletedPeriods(f, b, e, t, dates)
  /\ \A f, b, e, t : /\ Habits!EligibleCount(f, b, e, t) = EligibleCount(f, b, e, t)
                     /\ Habits!Periods(f, b, e, t) = Periods(f, b, e, t)
  /\ \A f, s : /\ Habits!longestStreak(f, s) = longestStreak(f, s)
               /\ Habits!currentStreak(f, s) = currentStreak(f, s)
  /\ \A S : Habits!Max(S) = Max(S) /\ Habits!Cardinality(S) = Cardinality(S)
  /\ Habits!NoEnd = NoEnd
<1>1. \A S : Habits!Cardinality(S) = Cardinality(S)
  BY SameCardinality
<1>2. \A S : Habits!Max(S) = Max(S)
  BY DEF Habits!Max, Max
<1>3. \A S : Habits!Ascending(S) = Ascending(S)
  BY DEF Habits!Ascending, Ascending, Habits!Cardinality, Cardinality
<1>4. \A f, s : Habits!Runs(f, s) = Runs(f, s)
  BY DEF Habits!Runs, Runs
<1>5. \A f, s : /\ Habits!longestStreak(f, s) = longestStreak(f, s)
                /\ Habits!currentStreak(f, s) = currentStreak(f, s)
  BY <1>2, <1>4 DEF Habits!longestStreak, longestStreak, Habits!currentStreak, currentStreak
<1>6. \A f, b, e, t : Habits!Bounds(f, b, e, t) = Bounds(f, b, e, t)
  BY DEF Habits!Bounds, Bounds, Habits!Anchor, Anchor, Habits!LastDay, LastDay, Habits!NoEnd, NoEnd
<1>7. \A f, b, e, t, dates : Habits!InRange(f, b, e, t, dates) = InRange(f, b, e, t, dates)
  BY <1>3, <1>6 DEF Habits!InRange, InRange, Habits!Anchor, Anchor
<1>8. \A f, b, e, t : /\ Habits!EligibleCount(f, b, e, t) = EligibleCount(f, b, e, t)
                      /\ Habits!Periods(f, b, e, t) = Periods(f, b, e, t)
  BY <1>6 DEF Habits!EligibleCount, EligibleCount, Habits!Periods, Periods
<1>9. \A f, b, e, t, dates : Habits!CompletedPeriods(f, b, e, t, dates) = CompletedPeriods(f, b, e, t, dates)
  BY <1>8 DEF Habits!CompletedPeriods, CompletedPeriods, Habits!Anchor, Anchor
<1> QED
  BY <1>1, <1>2, <1>5, <1>7, <1>8, <1>9 DEF Habits!NoEnd, NoEnd

\* The streaks and the number of periods, which are computed, are those of the history.
LEMMA StreaksHold == Habits!TypeOK => Habits!StreaksAgreeWithHistory
<1> SUFFICES ASSUME Habits!TypeOK PROVE Habits!StreaksAgreeWithHistory
  OBVIOUS
<1> DEFINE f == habit.frequency
           first == habit.start
           final == habit.end
           dates == Habits!Dates
           S == CompletedPeriods(f, first, final, day, dates)
           s == InRange(f, first, final, day, dates)
           n == Cardinality(S)
<1>1. /\ f \in Nat \ {0} /\ first \in Nat /\ final \in Nat \cup {NoEnd} /\ day \in Nat /\ dates \in SUBSET Nat
  <2>1. habit \in Habit /\ day \in Habits!Days /\ \A c \in done : c.date \in Habits!Days
    BY DEF Habits!TypeOK, Habit
  <2> QED
    BY <2>1, HabitDays, SamePeriods DEF Habit, Habits!Dates
<1> HIDE DEF f, first, final, dates
<1>2. longestStreak(f, s) = LongestRow(S, f, n, S) /\ currentStreak(f, s) = LongestRow(S, f, n, LastOf(S))
  <2>1. History(f, first, final, day, dates)
    BY <1>1 DEF History
  <2> QED
    BY <2>1, StreaksAreHistory
<1>3. EligibleCount(f, first, final, day) = Cardinality(Periods(f, first, final, day))
  BY <1>1, CountIs
<1>4. /\ Habits!Streakable = s
      /\ Habits!CompletedPeriods(habit.frequency, habit.start, habit.end, day, Habits!Dates) = S
  BY SamePeriods DEF Habits!Streakable, f, first, final, dates
<1>5. Habits!Of(Habits!EligibleCount) = Habits!Cardinality(Habits!Of(Habits!Periods))
  BY <1>3, SamePeriods DEF Habits!Of, f, first, final
<1> HIDE DEF s, S, n
<1>6. Habits!longestStreak(f, s) = LongestRow(S, f, n, S) /\ Habits!currentStreak(f, s) = LongestRow(S, f, n, LastOf(S))
  BY <1>2, SamePeriods
<1>7. n = Habits!Cardinality(S)
  BY SamePeriods DEF n
<1> QED
  BY <1>4, <1>5, <1>6, <1>7, SamePeriods DEF Habits!StreaksAgreeWithHistory, LongestRow, LastOf, Row, f

-----------------------------------------------------------------------------
(* Types.  Those of goals, reminders and requests about categories need    *)
(* more than the invariants above say of them.                             *)

\* A sum over finitely many contributions is a number: it is computed by recursion on the
\* sets, which is one on their sizes.
LEMMA SumIsNatural ==
  ASSUME NEW C, IsFiniteSet(C), NEW f \in [C -> Nat]
  PROVE  Goals!SumFunction(f) \in Nat
<1> DEFINE choose(s) == CHOOSE x \in s : TRUE
           Add(g, s) == IF s = {} THEN 0 ELSE f[choose(s)] + g[s \ {choose(s)}]
           Sums(g)   == [s \in SUBSET C |-> Add(g, s)]
           iter      == CHOOSE g : g = Sums(g)
           n         == Cardinality(C)
           T         == [SUBSET C -> Nat]
           step      == [k \in 1..n |-> [g \in T |-> Sums(g)]]
           zero      == [s \in SUBSET C |-> 0]
<1>1. Goals!SumFunction(f) = iter[C]
  BY DEF Goals!SumFunction, Goals!SumFunctionOnSet, Goals!FoldFunctionOnSet, Goals!MapThenFoldSet
<1>2. \A s \in SUBSET C : s # {} => choose(s) \in s /\ s \ {choose(s)} \in SUBSET C
  OBVIOUS
<1>3. n \in Nat
  BY FS_CardinalityType
<1>4. \A g \in T : Sums(g) \in T
  BY <1>2
<1>5. \A s \in SUBSET C : /\ Cardinality(s) \in 0..n /\ (Cardinality(s) = 0 <=> s = {})
                          /\ s # {} => Cardinality(s \ {choose(s)}) = Cardinality(s) - 1
  <2> SUFFICES ASSUME NEW s \in SUBSET C
               PROVE  /\ Cardinality(s) \in 0..n /\ (Cardinality(s) = 0 <=> s = {})
                      /\ s # {} => Cardinality(s \ {choose(s)}) = Cardinality(s) - 1
    OBVIOUS
  <2>1. IsFiniteSet(s) /\ Cardinality(s) <= n
    BY FS_Subset
  <2>2. Cardinality(s) \in Nat /\ (Cardinality(s) = 0 <=> s = {})
    BY <2>1, FS_CardinalityType, FS_EmptySet
  <2>3. ASSUME s # {} PROVE Cardinality(s \ {choose(s)}) = Cardinality(s) - 1
    BY <1>2, <2>1, <2>3, FS_RemoveElement
  <2> QED
    BY <1>3, <2>1, <2>2, <2>3
<1>6. zero \in T /\ \A k \in 1..n : \A g \in T : step[k][g] = Sums(g)
  OBVIOUS
<1>6a. \A k \in 1..n : \A g \in T : step[k][g] \in T
  BY <1>4, <1>6
<1> HIDE DEF n, step, zero, choose, T
<1>7. PICK h \in [0..n -> T] : h[0] = zero /\ \A k \in 1..n : h[k] = step[k][h[k - 1]]
  <2>1. Recursion(n, T, zero, step)
    BY <1>3, <1>6, <1>6a, Iterated
  <2> QED
    BY <2>1 DEF Recursion
<1> DEFINE F == [s \in SUBSET C |-> h[Cardinality(s)][s]]
<1>8. F = Sums(F)
  <2> SUFFICES ASSUME NEW s \in SUBSET C PROVE h[Cardinality(s)][s] = Add(F, s)
    OBVIOUS
  <2>1. CASE s = {}
    <3>1. Cardinality(s) = 0 /\ h[0][s] = 0
      BY <1>5, <1>7, <2>1 DEF zero
    <3> QED
      BY <2>1, <3>1
  <2>2. CASE s # {}
    <3> DEFINE k == Cardinality(s)
               less == s \ {choose(s)}
    <3>1. /\ k \in 0..n /\ k # 0 /\ k - 1 \in 0..n /\ k \in 1..n
          /\ Cardinality(less) = k - 1 /\ less \in SUBSET C
      <4>1. k \in 0..n /\ k # 0 /\ Cardinality(less) = k - 1
        BY <1>5, <2>2
      <4> HIDE DEF k
      <4>2. k - 1 \in 0..n /\ k \in 1..n
        BY <1>3, <4>1
      <4> QED
        BY <4>1, <4>2
    <3> HIDE DEF k
    <3>2. h[k - 1] \in T
      BY <1>7, <3>1
    <3>3. h[k] = Sums(h[k - 1])
      <4> HIDE DEF Sums
      <4>1. h[k] = step[k][h[k - 1]] /\ step[k][h[k - 1]] = Sums(h[k - 1])
        BY <1>6, <1>7, <3>1, <3>2
      <4> QED
        BY <4>1
    <3>4. h[k][s] = f[choose(s)] + h[k - 1][less]
      BY <2>2, <3>3
    <3>5. F[less] = h[k - 1][less]
      BY <3>1
    <3> QED
      BY <2>2, <3>4, <3>5 DEF k
  <2> QED
    BY <2>1, <2>2
<1> HIDE DEF F
<1>9. iter = Sums(iter)
  BY <1>8
<1> HIDE DEF iter
<1> DEFINE S == {k \in Nat : \A s \in SUBSET C : Cardinality(s) = k => iter[s] \in Nat}
<1>10. 0 \in S
  <2>1. iter[{}] = 0
    BY <1>9
  <2>2. \A s \in SUBSET C : Cardinality(s) = 0 => s = {}
    BY <1>5
  <2>3. ASSUME NEW s \in SUBSET C, Cardinality(s) = 0 PROVE iter[s] \in Nat
    <3>1. s = {}
      BY <2>2, <2>3
    <3> QED
      BY <2>1, <3>1
  <2> QED
    BY <2>3
<1>11. \A k \in Nat : k \in S => k + 1 \in S
  <2> SUFFICES ASSUME NEW k \in Nat, k \in S PROVE \A s \in SUBSET C : Cardinality(s) = k + 1 => iter[s] \in Nat
    OBVIOUS
  <2> TAKE s \in SUBSET C
  <2> HAVE Cardinality(s) = k + 1
  <2>1. s # {}
    <3>1. Cardinality(s) # 0
      OBVIOUS
    <3> QED
      BY <1>5, <3>1
  <2>2. choose(s) \in C /\ s \ {choose(s)} \in SUBSET C /\ Cardinality(s \ {choose(s)}) = k
    <3>1. choose(s) \in s /\ s \ {choose(s)} \in SUBSET C
      BY <1>2, <2>1
    <3>2. Cardinality(s \ {choose(s)}) = Cardinality(s) - 1
      BY <1>5, <2>1
    <3>3. (k + 1) - 1 = k
      OBVIOUS
    <3> QED
      BY <3>1, <3>2, <3>3
  <2>3. iter[s \ {choose(s)}] \in Nat
    BY <2>2
  <2>4. iter[s] = f[choose(s)] + iter[s \ {choose(s)}]
    BY <1>9, <2>1
  <2> QED
    BY <2>2, <2>3, <2>4
<1> HIDE DEF S
<1>12. Nat \subseteq S
  BY <1>10, <1>11, Induction
<1>13. iter[C] \in Nat
  BY <1>3, <1>12 DEF S, n
<1> QED
  BY <1>1, <1>13

\* A request about a goal that has begun has a change to make.
GoalInv == Goals!TypeOK /\ \A r \in Requests : goalPc[r] # "idle" => change[r] \in Goals!Changes

LEMMA SeenIsTyped ==
  ASSUME GoalInv, NEW r \in Requests, goalPc[r] # "idle"
  PROVE  /\ Goals!Seen(r) \in [Contributions -> Amounts \cup {0}]
         /\ Goals!SumFunction(Goals!Seen(r)) \in Nat
<1>1. Goals!Seen(r) \in [Contributions -> Amounts \cup {0}]
  BY DEF GoalInv, Goals!TypeOK, Goals!Changes, Goals!Seen
<1>2. Goals!Seen(r) \in [Contributions -> Nat]
  <2>1. Amounts \cup {0} \subseteq Nat
    BY ContributionAssumption
  <2> HIDE DEF Goals!Seen
  <2> QED
    BY <1>1, <2>1
<1> QED
  BY <1>1, <1>2, ContributionAssumption, SumIsNatural

LEMMA StatusIsTyped ==
  ASSUME NEW intent, NEW sum, NEW t
  PROVE  Goals!deriveGoalStatus(intent, sum, t) \in Goals!Status
BY DEF Goals!deriveGoalStatus, Goals!Status

LEMMA GoalInit == Goals!Init => GoalInv
BY StatusIsTyped DEF Goals!Init, GoalInv, Goals!TypeOK

LEMMA GoalEnds ==
  ASSUME GoalInv, NEW r \in Requests, Goals!End(r),
         goalExists' \in BOOLEAN, goalStatus' \in Goals!Status, goalTarget' \in Amounts,
         amount' \in [Contributions -> Amounts \cup {0}]
  PROVE  GoalInv'
BY DEF GoalInv, Goals!TypeOK, Goals!End

LEMMA GoalStep == GoalInv /\ [Goals!Next]_Goals!vars => GoalInv'
<1> SUFFICES ASSUME GoalInv, [Goals!Next]_Goals!vars PROVE GoalInv'
  OBVIOUS
<1>1. ASSUME NEW r \in Requests, NEW c \in Goals!Changes, Goals!Submit(r, c) PROVE GoalInv'
  BY <1>1 DEF GoalInv, Goals!TypeOK, Goals!Submit, Goals!goal
<1>2. ASSUME NEW r \in Requests, Goals!LockGoal(r) PROVE GoalInv'
  BY <1>2 DEF GoalInv, Goals!TypeOK, Goals!LockGoal, Goals!goal
<1>3. ASSUME NEW r \in Requests, Goals!SumContributions(r) PROVE GoalInv'
  <2>1. Goals!SumFunction(Goals!Seen(r)) \in Nat
    BY <1>3, SeenIsTyped DEF Goals!SumContributions
  <2> QED
    BY <1>3, <2>1 DEF GoalInv, Goals!TypeOK, Goals!SumContributions, Goals!goal
<1>4. ASSUME NEW r \in Requests, Goals!Commit(r) PROVE GoalInv'
  <2>1. Goals!End(r) /\ goalStatus' \in Goals!Status /\ goalExists' \in BOOLEAN
    BY <1>4, StatusIsTyped DEF Goals!Commit, GoalInv, Goals!TypeOK
  <2>2. amount' \in [Contributions -> Amounts \cup {0}]
    BY <1>4, SeenIsTyped DEF Goals!Commit
  <2>3. goalTarget' \in Amounts
    BY <1>4 DEF Goals!Commit, Goals!NewTarget, GoalInv, Goals!TypeOK, Goals!Changes
  <2> QED
    BY <2>1, <2>2, <2>3, GoalEnds
<1>5. ASSUME NEW r \in Requests, Goals!Abort(r) PROVE GoalInv'
  BY <1>5, GoalEnds DEF Goals!Abort, GoalInv, Goals!TypeOK, Goals!goal
<1>6. CASE Goals!DeleteGoal
  BY <1>6 DEF GoalInv, Goals!TypeOK, Goals!DeleteGoal
<1>7. CASE UNCHANGED Goals!vars
  BY <1>7 DEF GoalInv, Goals!TypeOK, Goals!vars, Goals!goal
<1> QED
  BY <1>1, <1>2, <1>3, <1>4, <1>5, <1>6, <1>7 DEF Goals!Next

\* Reminders: what is found is of the keys there are, whatever the row.
NoticeShape ==
  /\ thingChanges \in 0..MaxNoticeChanges
  /\ thing.status \in Notices!StatusOf[noticeKind] /\ thing.done \subseteq Notices!Day
  /\ DOMAIN notices \subseteq Notices!Key /\ \A k \in DOMAIN notices : notices[k] \in {"read", "unread"}
  /\ \A r \in NoticeRequests : found[r] \subseteq Notices!Key

LEMMA KeysAreKeys ==
  ASSUME NoticeTypes, NoticeShape, NEW d \in Notices!Day
  PROVE  Notices!Keys(thing, d) \subseteq Notices!Key /\ Notices!HabitKeys([thing EXCEPT !.status = "ACTIVE"], d) \subseteq Notices!Key
<1>1. \A e \in Notices!Day, said \in {"upcoming", "overdue", "reminder", "pct80", "pct100"} : <<e, said>> \in Notices!Key
  BY DEF Notices!Key
<1>2. thing.date \in Notices!Day /\ 0 \in Notices!Day
  BY MaxDayAssumption DEF NoticeTypes, Notices!Day
<1>3. Notices!BillKeys(thing, d) \subseteq Notices!Key
  BY <1>1, <1>2 DEF Notices!BillKeys
<1>4. \A window : Notices!UpcomingKeys(thing, d, window) \subseteq Notices!Key
  BY <1>1, <1>2 DEF Notices!UpcomingKeys
<1>5. \A t : Notices!HabitKeys(t, d) \subseteq Notices!Key
  BY <1>1 DEF Notices!HabitKeys
<1>6. ASSUME noticeKind = "budget" PROVE Notices!BudgetKeys(thing) \subseteq Notices!Key
  <2>1. thing.status \in {"under", "pct80", "pct100"}
    BY <1>6 DEF NoticeShape, Notices!StatusOf
  <2> QED
    BY <1>1, <1>2, <2>1 DEF Notices!BudgetKeys
<1>7. noticeKind \in {"bill", "subscription", "recurring", "habit", "budget"}
  BY DEF NoticeTypes, Notices!Kind, Notices!StatusOf
<1>8. Notices!Keys(thing, d) \subseteq Notices!Key
  BY <1>3, <1>4, <1>5, <1>6, <1>7 DEF Notices!Keys
<1> QED
  BY <1>5, <1>8

LEMMA NoticeShapeInit == Notices!Init => NoticeShape
<1> SUFFICES ASSUME Notices!Init PROVE NoticeShape
  OBVIOUS
<1>1. thingChanges \in 0..MaxNoticeChanges
  BY NoticeAssumption DEF Notices!Init
<1>2. thing.status \in Notices!StatusOf[noticeKind] /\ thing.done = {}
  BY DEF Notices!Init
<1>3. notices = << >> /\ \A r \in NoticeRequests : found[r] = {}
  BY DEF Notices!Init
<1> QED
  BY <1>1, <1>2, <1>3 DEF NoticeShape

LEMMA NoticeShapeStep ==
  ASSUME NoticeTypes, NoticeShape, [Notices!Next]_Notices!vars
  PROVE  NoticeShape'
<1> USE DEF NoticeShape, Notices!rows
<1>1. ASSUME NEW next \in [date : IF noticeKind \in {"habit", "budget"} THEN {0} ELSE Notices!Day,
                           status : Notices!StatusOf[noticeKind],
                           done : {thing.done} \cup (IF noticeKind = "habit"
                                    THEN {thing.done \cup {noticeToday}, thing.done \ {noticeToday}} ELSE {})],
             Notices!ChangeThing(next)
      PROVE  NoticeShape'
  <2>1. noticeToday \in Notices!Day
    BY DEF NoticeTypes
  <2>2. next.status \in Notices!StatusOf[noticeKind] /\ next.done \subseteq Notices!Day
    BY <2>1
  <2>3. thingChanges' \in 0..MaxNoticeChanges
    BY <1>1, NoticeAssumption DEF Notices!ChangeThing
  <2> QED
    BY <1>1, <2>2, <2>3 DEF Notices!ChangeThing
<1>2. ASSUME NEW r \in NoticeRequests,
             Notices!FindCompletions(r) \/ Notices!Collect(r) \/ Notices!End(r)
      PROVE  NoticeShape'
  <2>1. noticeDay[r] \in Notices!Day
    BY DEF NoticeTypes
  <2>2. found' \in [NoticeRequests -> SUBSET Notices!Key]
    <3>1. found \in [NoticeRequests -> SUBSET Notices!Key]
      BY DEF NoticeTypes
    <3>2. \E keys \in SUBSET Notices!Key : found' = [found EXCEPT ![r] = keys]
      BY <1>2, <2>1, KeysAreKeys DEF Notices!FindCompletions, Notices!Collect, Notices!End
    <3> QED
      BY <3>1, <3>2
  <2>3. UNCHANGED <<thing, thingChanges, noticeKind, notices>>
    BY <1>2 DEF Notices!FindCompletions, Notices!Collect, Notices!End
  <2> QED
    BY <2>2, <2>3
<1>3. ASSUME NEW r \in NoticeRequests, Notices!InsertCandidates(r) PROVE NoticeShape'
  BY <1>3 DEF Notices!InsertCandidates
<1>4. ASSUME NEW k \in Notices!Key, Notices!MarkRead(k) \/ Notices!DeleteNotice(k) PROVE NoticeShape'
  BY <1>4 DEF Notices!MarkRead, Notices!DeleteNotice, Notices!Restrict
<1>5. CASE Notices!MarkAllRead
  BY <1>5 DEF Notices!MarkAllRead
<1>6. CASE UNCHANGED <<thing, thingChanges, noticeKind, notices, found>>
  BY <1>6
<1>7. Notices!Midnight \/ (\E r \in NoticeRequests : Notices!StartGenerate(r) \/ Notices!FindHabits(r)) =>
        UNCHANGED <<thing, thingChanges, noticeKind, notices, found>>
  BY DEF Notices!Midnight, Notices!StartGenerate, Notices!FindHabits
<1> QED
  BY <1>1, <1>2, <1>3, <1>4, <1>5, <1>6, <1>7 DEF Notices!Next, Notices!vars

\* Requests about categories: one that is idle keeps nothing, any other keeps what it does.
Idle == \A r \in Requests : catPc[r] = "idle" <=> catReq[r] = None

LEMMA IdleGoes ==
  ASSUME CatTables, Idle, NEW r \in Requests, NEW statement \in Statements, NEW request,
         statement = "idle" <=> request = None, Cats!Go(r, statement, request)
  PROVE  Idle'
<1>1. OnlyMoves(r) /\ catPc'[r] = statement /\ catReq'[r] = request
  BY Goes
<1> QED
  BY <1>1 DEF OnlyMoves, Idle

LEMMA IdleBegins ==
  ASSUME CatTables, Idle, NEW r \in Requests, NEW statement \in Statements, statement # "idle",
         NEW request \in Asked, Cats!Begin(r, statement, request)
  PROVE  Idle'
BY AskedAssumption, IdleGoes DEF Cats!Begin

LEMMA IdleAnswers ==
  ASSUME CatTables, Idle, NEW r \in Requests, Cats!Go(r, "idle", None)
  PROVE  Idle'
BY IdleGoes DEF Statements

LEMMA IdleAsks ==
  ASSUME CatInv, Idle, NEW r \in Requests, Cats!Ask(r)
  PROVE  Idle'
<1>1. CatTables /\ {"category", "deleteCategory", "create", "patch", "rule"} \subseteq Statements
  BY DEF CatInv, Statements
<1>2. Cats!CategoryIds \subseteq Cats!EveryId
  BY DEF Cats!CategoryIds, Cats!EveryId, Cats!Created
<1>3. \A t \in Cats!Rows : tx[t] \in Cats!TransactionRow
  BY DEF CatInv, CatTables, Cats!Rows, Cats!Row
<1>4. \A t \in Cats!Rows : [u \in {t} |-> tx[u]] \in Reads
  <2> SUFFICES ASSUME NEW t \in Cats!Rows PROVE [u \in {t} |-> tx[u]] \in Reads
    OBVIOUS
  <2>1. [u \in {t} |-> tx[u]] \in [{t} -> Cats!TransactionRow]
    BY <1>3
  <2>2. {t} \in SUBSET Transactions
    BY DEF Cats!Rows
  <2> QED
    BY <2>1, <2>2 DEF Reads
<1>5. ASSUME NEW o \in Own, NEW name \in Names, NEW type \in Cats!Type, Cats!StartCategory(r, o, name, type)
      PROVE  Idle'
  <2>1. [id |-> o, row |-> [name |-> name, type |-> type], new |-> category[o] = None] \in Asked
    BY DEF Asked, Cats!CategoryRow
  <2> QED
    BY <1>1, <1>5, <2>1, IdleBegins DEF Cats!StartCategory
<1>6. ASSUME NEW o \in Own, Cats!StartDeleteCategory(r, o) PROVE Idle'
  <2>1. [id |-> o] \in Asked
    BY DEF Asked
  <2> QED
    BY <1>1, <1>6, <2>1, IdleBegins DEF Cats!StartDeleteCategory
<1>7. ASSUME NEW t \in Transactions, NEW type \in Cats!Type, NEW id \in Cats!CategoryIds,
             NEW source \in {"MANUAL", "IMPORTED"}, Cats!StartCreate(r, t, type, id, source)
      PROVE  Idle'
  <2>1. [tx |-> t, category |-> id, row |-> [type |-> type, category |-> id, source |-> source]] \in Asked
    BY <1>2 DEF Asked, Cats!TransactionRow
  <2> QED
    BY <1>1, <1>7, <2>1, IdleBegins DEF Cats!StartCreate
<1>8. ASSUME NEW t \in Transactions, NEW body \in Patches, Cats!StartPatch(r, t, body) PROVE Idle'
  <2> DEFINE id == Cats!With(tx[t], body).category
  <2>1. t \in Cats!Rows /\ id \in Cats!EveryId
    BY <1>2, <1>8 DEF Cats!StartPatch
  <2> HIDE DEF id
  <2>2. [ts |-> {t}, body |-> body, read |-> [u \in {t} |-> tx[u]], category |-> id] \in Asked
    BY <1>4, <2>1 DEF Asked
  <2>3. Cats!Begin(r, "patch", [ts |-> {t}, body |-> body, read |-> [u \in {t} |-> tx[u]], category |-> id])
    BY <1>8 DEF Cats!StartPatch, id
  <2> QED
    BY <1>1, <2>2, <2>3, IdleBegins
<1>9. ASSUME NEW t \in Transactions, Cats!StartConvert(r, t) PROVE Idle'
  <2>1. t \in Cats!Rows /\ tx[t].category \in Cats!EveryId
    BY <1>3, <1>9 DEF Cats!StartConvert, Cats!TransactionRow
  <2>2. [ts |-> {t}, body |-> [source |-> "MANUAL"], read |-> [u \in {t} |-> tx[u]], category |-> tx[t].category] \in Asked
    BY <1>4, <2>1 DEF Asked, Patches
  <2> QED
    BY <1>1, <1>9, <2>2, IdleBegins DEF Cats!StartConvert
<1>10. ASSUME NEW ts \in SUBSET Transactions, NEW id \in Cats!CategoryIds, NEW remember \in BOOLEAN,
              Cats!StartRecategorize(r, ts, id, remember)
       PROVE  Idle'
  <2> DEFINE keys == IF remember THEN {Cats!normalizeMerchant(MerchantOf[t]) : t \in ts} \ {Cats!Nothing} ELSE {}
             read == [t \in ts |-> tx[t]]
  <2>1. keys \subseteq Taught
    BY DEF Taught, Cats!Keys
  <2>2. read \in Reads
    BY <1>3, <1>10 DEF Reads, Cats!StartRecategorize
  <2>3. [category |-> id] \in Patches
    BY <1>2 DEF Patches
  <2> HIDE DEF keys, read
  <2>4. [ts |-> ts, body |-> [category |-> id], read |-> read, category |-> id, keys |-> keys, found |-> None] \in Choice
    BY <1>2, <2>1, <2>2, <2>3 DEF Choice
  <2>5. Cats!Begin(r, "patch", [ts |-> ts, body |-> [category |-> id], read |-> read, category |-> id,
                                keys |-> keys, found |-> None])
    BY <1>10 DEF Cats!StartRecategorize, keys, read
  <2> QED
    BY <1>1, <2>4, <2>5, IdleBegins DEF Asked
<1>11. ASSUME NEW u \in RuleIds, NEW body \in RuleBodies,
              NEW merchant \in Texts \cup (IF u \in Cats!Rules THEN {rule[u].key} ELSE {}),
              Cats!StartRule(r, u, merchant, body)
       PROVE  Idle'
  <2> DEFINE key    == Cats!normalizeMerchant(merchant)
             row    == Cats!With(IF u \in Cats!Rules THEN rule[u] ELSE [priority |-> 0, active |-> TRUE], body)
             fields == IF u \in Cats!Rules THEN body ELSE row
             given  == Cats!With(fields, [key |-> key])
  <2>1. key \in Cats!Keys
    <3>1. CASE merchant \in Texts
      BY <3>1 DEF Cats!Keys
    <3>2. CASE u \in Cats!Rules /\ merchant = rule[u].key
      <4>1. rule[u] \in Cats!RuleRow
        BY <3>2 DEF CatInv, CatTables, Cats!Rules, Cats!Row
      <4>2. rule[u].key \in Cats!Keys
        BY <4>1 DEF Cats!RuleRow
      <4> QED
        BY <3>2, <4>2, CategoryAssumption
    <3> QED
      BY <3>1, <3>2
  <2>2. row.category \in Cats!EveryId /\ Cats!Begin(r, "rule", [id |-> u, body |-> given, new |-> rule[u] = None, category |-> row.category])
    BY <1>2, <1>11 DEF Cats!StartRule
  <2>3. fields \in RuleBodies \cup {Cats!With([priority |-> 0, active |-> TRUE], b) : b \in RuleBodies}
    OBVIOUS
  <2> HIDE DEF key, fields
  <2>4. given \in RuleBody
    BY <2>1, <2>3 DEF RuleBody
  <2> HIDE DEF given, row
  <2>5. [id |-> u, body |-> given, new |-> rule[u] = None, category |-> row.category] \in Asked
    BY <2>2, <2>4 DEF Asked
  <2> QED
    BY <1>1, <2>2, <2>5, IdleBegins
<1>12. ASSUME NEW t \in Transactions, NEW type \in Cats!Type, Cats!StartPatch(r, t, [type |-> type]) PROVE Idle'
  BY <1>8, <1>12 DEF Patches
<1>13. ASSUME NEW t \in Transactions, NEW id \in Cats!CategoryIds,
              Cats!StartPatch(r, t, [category |-> id]) \/ Cats!StartPatch(r, t, [category |-> id, type |-> Cats!TypeOf(id)])
       PROVE  Idle'
  <2>1. Cats!TypeOf(id) \in Cats!Type
    BY CategoryAssumption
       DEF Cats!CategoryIds, Cats!Created, Cats!Row, Cats!TypeOf, CatInv, CatTables, Cats!CategoryRow
  <2>2. [category |-> id] \in Patches /\ [category |-> id, type |-> Cats!TypeOf(id)] \in Patches
    BY <1>2, <2>1 DEF Patches
  <2> QED
    BY <1>8, <1>13, <2>2
<1> QED
  BY <1>5, <1>6, <1>7, <1>9, <1>10, <1>11, <1>12, <1>13 DEF Cats!Ask

LEMMA IdleStep ==
  ASSUME CatInv, Idle, [Cats!Next]_(Cats!vars)
  PROVE  Idle'
<1>1. CatTables /\ Recalling \subseteq Statements
  BY DEF CatInv, Statements
<1>2. ASSUME NEW r \in Requests,
             \/ Cats!WriteCategory(r) \/ Cats!DeleteCategory(r) \/ Cats!Create(r) \/ Cats!WriteRule(r) \/ Cats!Fail(r)
      PROVE  Idle'
  BY <1>1, <1>2, IdleAnswers
     DEF Cats!WriteCategory, Cats!DeleteCategory, Cats!Create, Cats!WriteRule, Cats!Fail, Cats!Answer
<1>3. ASSUME NEW r \in Requests, catPc[r] # "idle", NEW statement \in Recalling, Cats!Go(r, statement, catReq[r])
      PROVE  Idle'
  <2>1. catReq[r] # None /\ statement # "idle"
    BY <1>3 DEF Idle, Recalling
  <2> QED
    BY <1>1, <1>3, <2>1, IdleGoes
<1>4. ASSUME NEW r \in Requests, catPc[r] \in Recalling, NEW statement \in Recalling, NEW request \in Choice,
             Cats!Go(r, statement, request)
      PROVE  Idle'
  <2>1. request # None /\ statement # "idle"
    BY AskedAssumption DEF Asked, Recalling
  <2> QED
    BY <1>1, <1>4, <2>1, IdleGoes
<1>5. ASSUME NEW r \in Requests, Cats!Patch(r) PROVE Idle'
  <2>1. CASE Cats!Go(r, "find", catReq[r])
    BY <1>3, <1>5, <2>1 DEF Cats!Patch, Recalling
  <2>2. CASE Cats!Answer(r)
    BY <1>1, <2>2, IdleAnswers DEF Cats!Answer
  <2> QED
    BY <1>5, <2>1, <2>2 DEF Cats!Patch
<1>6. ASSUME NEW r \in Requests, Cats!FindRule(r) \/ Cats!FindRaced(r) PROVE Idle'
  <2>1. catPc[r] \in Recalling /\ catPc[r] # "idle"
    BY <1>6 DEF Cats!FindRule, Cats!FindRaced, Recalling
  <2>2. ASSUME NEW u \in Cats!RuleFor(Cats!Key(r)), Cats!Go(r, "repoint", [catReq[r] EXCEPT !.found = u])
        PROVE  Idle'
    <3>1. u \in RuleIds
      BY DEF Cats!RuleFor, Cats!Rules
    <3>2. [catReq[r] EXCEPT !.found = u] \in Choice
      BY <2>1, <3>1, Keyed
    <3> QED
      BY <1>4, <2>1, <2>2, <3>2 DEF Recalling
  <2>3. ASSUME Cats!Go(r, "insert", catReq[r]) \/ Cats!Go(r, "error", catReq[r]) PROVE Idle'
    BY <1>3, <2>1, <2>3 DEF Recalling
  <2> QED
    BY <1>6, <2>2, <2>3 DEF Cats!FindRule, Cats!FindRaced
<1>7. ASSUME NEW r \in Requests, catPc[r] \in Recalling, Cats!Remembered(r) PROVE Idle'
  <2> DEFINE rest == catReq[r].keys \ {Cats!Key(r)}
             next == [catReq[r] EXCEPT !.keys = rest]
  <2>1. next \in Choice
    <3>1. catReq[r] \in Choice
      BY <1>7, Keyed
    <3> QED
      BY <3>1 DEF Choice
  <2>2. Cats!Answer(r) \/ Cats!Go(r, "find", next)
    BY <1>7 DEF Cats!Remembered
  <2> HIDE DEF next
  <2> QED
    BY <1>1, <1>4, <1>7, <2>1, <2>2, IdleAnswers DEF Cats!Answer, Recalling
<1>8. ASSUME NEW r \in Requests, Cats!InsertRule(r) \/ Cats!RepointRule(r) PROVE Idle'
  <2>1. catPc[r] \in Recalling /\ catPc[r] # "idle"
    BY <1>8 DEF Cats!InsertRule, Cats!RepointRule, Recalling
  <2>2. \/ Cats!Remembered(r) \/ Cats!Go(r, "refind", catReq[r]) \/ Cats!Go(r, "error", catReq[r])
    BY <1>8 DEF Cats!InsertRule, Cats!RepointRule
  <2> QED
    BY <1>3, <1>7, <2>1, <2>2 DEF Recalling
<1>9. CASE UNCHANGED <<catPc, catReq>>
  BY <1>9 DEF Idle
<1>10. (\E t \in Transactions : Cats!DeleteTransaction(t)) \/ (\E u \in RuleIds : Cats!DeleteRule(u)) \/ UNCHANGED Cats!vars =>
         UNCHANGED <<catPc, catReq>>
  BY DEF Cats!DeleteTransaction, Cats!DeleteRule, Cats!vars
<1> QED
  BY <1>2, <1>5, <1>6, <1>8, <1>9, <1>10, IdleAsks DEF Cats!Next

-----------------------------------------------------------------------------
(* The components side by side.                                            *)

\* A behaviour of MCRecords is one of every component, with steps that change nothing.
LEMMA ComponentsInit ==
  AnyInit => /\ Goals!Init /\ Bank!Init /\ Wealth!Init /\ Budget!Init /\ Notices!Init /\ Cats!Init
             /\ Rules!Init /\ Items!Init /\ Habits!Init
BY DEF AnyInit

LEMMA GoalsStep == [AnyNext]_anyVars => [Goals!Next]_Goals!vars
<1>1. AnyNext => [Goals!Next]_Goals!vars
  BY DEF AnyNext, Unless, goalVars, Goals!vars, Goals!goal
<1>2. UNCHANGED anyVars => UNCHANGED Goals!vars
  BY DEF anyVars, goalVars, Goals!vars, Goals!goal
<1> QED BY <1>1, <1>2

LEMMA BankStep == [AnyNext]_anyVars => [Bank!Next]_Bank!vars
<1>1. AnyNext => [Bank!Next]_Bank!vars
  BY DEF AnyNext, Unless, bankVars, Bank!vars, Bank!tables, Bank!locks, Bank!locals
<1>2. UNCHANGED anyVars => UNCHANGED Bank!vars
  BY DEF anyVars, bankVars, Bank!vars, Bank!tables, Bank!locks, Bank!locals
<1> QED BY <1>1, <1>2

LEMMA BudgetStepInAny == [AnyNext]_anyVars => [Budget!Next]_Budget!vars
<1>1. AnyNext => [Budget!Next]_Budget!vars
  BY DEF AnyNext, Unless, budgetVars, Budget!vars
<1>2. UNCHANGED anyVars => UNCHANGED Budget!vars
  BY DEF anyVars, budgetVars, Budget!vars
<1> QED BY <1>1, <1>2

LEMMA WealthStepInAny == [AnyNext]_anyVars => [Wealth!Next]_Wealth!vars
<1>1. AnyNext => [Wealth!Next]_Wealth!vars
  BY DEF AnyNext, Unless, wealthVars, Wealth!vars
<1>2. UNCHANGED anyVars => UNCHANGED Wealth!vars
  BY DEF anyVars, wealthVars, Wealth!vars
<1> QED BY <1>1, <1>2

LEMMA NoticeStepInAny == [AnyNext]_anyVars => [Notices!Next]_Notices!vars
<1>1. AnyNext => [Notices!Next]_Notices!vars
  BY DEF AnyNext, Unless, noticeVars, Notices!vars, Notices!rows
<1>2. UNCHANGED anyVars => UNCHANGED Notices!vars
  BY DEF anyVars, noticeVars, Notices!vars, Notices!rows
<1> QED BY <1>1, <1>2

LEMMA CatStepInAny == [AnyNext]_anyVars => [Cats!Next]_(Cats!vars)
<1>1. AnyNext => [Cats!Next]_(Cats!vars)
  BY DEF AnyNext, Unless, catVars, Cats!vars
<1>2. UNCHANGED anyVars => UNCHANGED Cats!vars
  BY DEF anyVars, catVars, Cats!vars
<1> QED BY <1>1, <1>2

LEMMA RuleStepInAny == [AnyNext]_anyVars => [Rules!Next]_Rules!vars
<1>1. AnyNext => [Rules!Next]_Rules!vars
  BY DEF AnyNext, Unless, ruleVars, Rules!vars, Rules!rule, Rules!history
<1>2. UNCHANGED anyVars => UNCHANGED Rules!vars
  BY DEF anyVars, ruleVars, Rules!vars, Rules!rule, Rules!history
<1> QED BY <1>1, <1>2

LEMMA ItemStepInAny == [AnyNext]_anyVars => [Items!Next]_Items!vars
<1>1. AnyNext => [Items!Next]_Items!vars
  BY DEF AnyNext, Unless, itemVars, Items!vars, Items!history
<1>2. UNCHANGED anyVars => UNCHANGED Items!vars
  BY DEF anyVars, itemVars, Items!vars, Items!history
<1> QED BY <1>1, <1>2

LEMMA HabitStepInAny == [AnyNext]_anyVars => [Habits!Next]_Habits!vars
<1>1. AnyNext => [Habits!Next]_Habits!vars
  BY DEF AnyNext, Unless, habitVars, Habits!vars, Habits!locals
<1>2. UNCHANGED anyVars => UNCHANGED Habits!vars
  BY DEF anyVars, habitVars, Habits!vars, Habits!locals
<1> QED BY <1>1, <1>2

LEMMA GoalsRun == AnySpec => Goals!Spec
BY ComponentsInit, GoalsStep, PTL DEF AnySpec, Goals!Spec

LEMMA BankRun == AnySpec => Bank!Spec
BY ComponentsInit, BankStep, PTL DEF AnySpec, Bank!Spec

\* The status of a goal follows its contributions and target, however requests overlap.
THEOREM GoalStatusIsRight == AnySpec => []StatusFollowsAmounts
<1>1. Goals!StatusFollowsAmounts => StatusFollowsAmounts BY DEF StatusFollowsAmounts
<1>2. Goals!Spec => []Goals!StatusFollowsAmounts BY NoneAssumption, Goals!GoalStatusIsRight
<1> QED BY <1>1, <1>2, GoalsRun, PTL

\* Only a request that names a status moves a goal into or out of PAUSED or CANCELLED.
THEOREM PauseIsRespected == AnySpec => IntentIsExplicit
<1>1. Goals!IntentIsExplicit => IntentIsExplicit BY DEF IntentIsExplicit
<1>2. Goals!Spec => Goals!IntentIsExplicit BY NoneAssumption, Goals!PauseIsRespected
<1> QED BY <1>1, <1>2, GoalsRun, PTL

\* The accounts of a bank exist exactly while it is connected.
THEOREM NothingDangles == AnySpec => []AccountsMatchConnection
<1>1. Bank!AccountsMatchConnection => AccountsMatchConnection BY DEF AccountsMatchConnection
<1>2. Bank!Spec => []Bank!AccountsMatchConnection BY RequestsAssumption, BankAssumption, Bank!NothingDangles
<1> QED BY <1>1, <1>2, BankRun, PTL

\* A row that the user dismissed is never imported again.
THEOREM DismissedStaysAway == AnySpec => []StaysDismissed
<1>1. Bank!StaysDismissed => StaysDismissed BY DEF StaysDismissed
<1>2. Bank!Spec => []Bank!StaysDismissed BY RequestsAssumption, BankAssumption, Bank!DismissedStaysAway
<1> QED BY <1>1, <1>2, BankRun, PTL

\* An account has one sync at a time, and with one account a transaction of the provider
\* is imported once.
THEOREM OneAccountImportsOnce == AnySpec => []SyncsImportOnce
<1>1. Bank!OneSyncPerAccount /\ Bank!ImportedOnce => SyncsImportOnce BY DEF SyncsImportOnce
<1>2. Bank!Spec => []Bank!OneSyncPerAccount BY RequestsAssumption, BankAssumption, Bank!SyncsAreApart
<1>3. Bank!Spec => []Bank!ImportedOnce
  BY RequestsAssumption, BankAssumption, OneAccountAssumption, Bank!OneAccountImportsOnce
<1> QED BY <1>1, <1>2, <1>3, BankRun, PTL

\* A budget is allocated to one category and in full after any updates of which none
\* missed what another committed, whatever there was before an update that gives the
\* category; and the two ways in which the server computes its progress always agree.
THEOREM BudgetsAlwaysAgree == AnySpec => []BudgetsAgree
<1>1. BudgetInv => BudgetsAgree
  BY SameProgress
     DEF BudgetInv, InFull, BudgetsAgree, Budget!AllocationFollowsUnlessRaced, Budget!ProgressAgrees
<1> QED BY <1>1, ComponentsInit, BudgetInit, BudgetStepInAny, BudgetStep, PTL DEF AnySpec

\* The totals of a summary or a capture are those of one moment while it summed, and the
\* snapshot of a day is written once.
THEOREM SnapshotsAreOfOneMoment == AnySpec => SnapshotsAreMoments
<1> DEFINE A == Wealth!OneMoment' /\ \A d \in Wealth!Day : snapshot[d] # None => snapshot'[d] = snapshot[d]
<1>1. WealthInv /\ [Wealth!Next]_Wealth!vars =>
        \A d \in Wealth!Day : snapshot[d] # None => snapshot'[d] = snapshot[d]
  <2> SUFFICES ASSUME WealthInv, [Wealth!Next]_Wealth!vars, snapshot' # snapshot
               PROVE  \A d \in Wealth!Day : snapshot[d] # None => snapshot'[d] = snapshot[d]
    OBVIOUS
  <2>1. PICK r \in Requests : Wealth!Commit(r)
    BY DEF Wealth!Next, Wealth!vars, Wealth!Change, Wealth!SumAssets, Wealth!SumLiabilities,
           Wealth!Insert, Wealth!FindExisting, Wealth!End, Wealth!Midnight
  <2> QED BY <2>1 DEF Wealth!Commit, WealthInv, WealthTypes, DayIsFree
<1>2. WealthInv /\ WealthInv' /\ [Wealth!Next]_Wealth!vars => [A]_Wealth!vars
  <2>1. WealthInv' => Wealth!OneMoment'
    BY DEF WealthInv, SumsHeld, Wealth!OneMoment
  <2> QED BY <1>1, <2>1
<1>3. AnySpec => [][A]_Wealth!vars
  BY <1>2, ComponentsInit, WealthInit, WealthStepInAny, WealthStep, PTL DEF AnySpec
<1> QED BY <1>3 DEF SnapshotsAreMoments, Wealth!SnapshotsAreMoments

\* A generation of reminders has told, at its end, everything there was reason for while it
\* ran, and no step makes a notification unread that the user has read.
THEOREM NothingIsMissed == AnySpec => RemindersAreKept
<1> DEFINE A == /\ Notices!EveryOccasionIsTold'
                /\ \A k \in DOMAIN notices \cap DOMAIN notices' :
                     notices[k] = "read" => notices'[k] = "read"
<1>1. [Notices!Next]_Notices!vars =>
        \A k \in DOMAIN notices \cap DOMAIN notices' : notices[k] = "read" => notices'[k] = "read"
  <2> SUFFICES ASSUME Notices!Next, notices' # notices, NEW k \in DOMAIN notices \cap DOMAIN notices',
                      notices[k] = "read"
               PROVE  notices'[k] = "read"
    BY DEF Notices!vars
  <2>1. CASE \E r \in NoticeRequests : Notices!InsertCandidates(r)
    BY <2>1 DEF Notices!InsertCandidates
  <2>2. CASE \E i \in Notices!Key : Notices!MarkRead(i)
    BY <2>2 DEF Notices!MarkRead
  <2>3. CASE \E i \in Notices!Key : Notices!DeleteNotice(i)
    BY <2>3 DEF Notices!DeleteNotice, Notices!Restrict
  <2>4. CASE Notices!MarkAllRead
    BY <2>4 DEF Notices!MarkAllRead
  <2> QED BY <2>1, <2>2, <2>3, <2>4
      DEF Notices!Next, Notices!ChangeThing, Notices!Midnight, Notices!StartGenerate,
          Notices!FindHabits, Notices!FindCompletions, Notices!Collect, Notices!End
<1>2. NoticeInv /\ NoticeInv' /\ [Notices!Next]_Notices!vars => [A]_Notices!vars
  <2>1. NoticeInv' => Notices!EveryOccasionIsTold'
    BY DEF NoticeInv
  <2> QED BY <1>1, <2>1
<1>3. AnySpec => [][A]_Notices!vars
  BY <1>2, ComponentsInit, NoticeInit, NoticeStepInAny, NoticeStep, PTL DEF AnySpec
<1> QED BY <1>3 DEF RemindersAreKept, Notices!RemindersAreKept

LEMMA CatInvariance == AnySpec => []CatInv
BY ComponentsInit, CatInit, CatStepInAny, CatStep, PTL DEF AnySpec

\* The type of a transaction is that of its category, whatever creates, imports, changes or
\* recategorises it and however requests overlap, unless the transaction changed between the
\* check of a change and its write.
THEOREM TypesAlwaysAgree == AnySpec => []TypesAgreeUnlessRaced
<1>1. CatInv => TypesAgreeUnlessRaced
  BY DEF CatInv, TypesAgreeUnlessRaced
<1> QED BY <1>1, CatInvariance, PTL

\* A choice that is to be remembered is, unless its category or rule is taken away meanwhile;
\* and what is remembered for a merchant is what the engine finds for every text with its
\* key, whatever the order in which the rules are read, unless a usable rule of a higher
\* priority matches.
THEOREM ChoicesAreRemembered == AnySpec => []RulesAreLearned
<1>1. CatInv /\ OneRulePerKey => RulesAreLearned
  BY RuleDecides DEF RulesAreLearned, CatInv, Recalls, Cats!RememberSucceeds
<1>2. AnySpec => []OneRulePerKey
  BY ComponentsInit, OneRuleInit, CatInvariance, CatStepInAny, OneRuleStep, PTL DEF AnySpec
<1> QED BY <1>1, <1>2, CatInvariance, PTL

\* Whatever the calendar, the frequency and the requests that overlap, the cursor of a rule
\* stays on the schedule that was last set and passes no occurrence without a row, unless a
\* generation took that schedule for an earlier one; and it moves back only to a new start.
THEOREM CursorNeverSkips == AnySpec => CursorKeepsSchedule
<1> DEFINE A == Rules!NoOccurrenceSkipped' /\ Rules!CursorOnSchedule' /\ (cursor' >= cursor \/ cursor' = start')
<1>1. RuleInv /\ RuleInv' /\ [Rules!Next]_Rules!vars => [A]_Rules!vars
  BY RuleStep DEF RuleInv
<1>2. AnySpec => [][A]_Rules!vars
  BY <1>1, ComponentsInit, RuleInit, RuleStepInAny, RuleStep, PTL DEF AnySpec
<1> QED BY <1>2 DEF CursorKeepsSchedule, Rules!CursorKeepsSchedule

\* Whatever payments, renewals, corrections and reschedulings overlap, a due date is never
\* further on than what was paid accounts for, and each payment accounts for the first date
\* of the schedule after the last one.
THEOREM DueDatesFollow == AnySpec => []DueDateFollowsPayments
<1>1. ItemInv => DueDateFollowsPayments
  BY DatesFollow DEF DueDateFollowsPayments
<1> QED BY <1>1, ComponentsInit, ItemsInitially, ItemStepInAny, ItemStep, PTL DEF AnySpec

\* However a habit and a challenge are edited, the streaks and the number of periods are
\* those of the history, and a requirement earns at most as many periods as are eligible:
\* the cap on its progress is never reached.
THEOREM HistoryIsFollowed == AnySpec => []ProgressFollowsHistory
<1>1. Habits!TypeOK => ProgressFollowsHistory
  BY CapHolds, StreaksHold DEF ProgressFollowsHistory
<1> QED BY <1>1, ComponentsInit, HabitInit, HabitStepInAny, HabitStep, PTL DEF AnySpec

LEMMA AdminRun == AnySpec => Spec
<1>1. [AnyNext]_anyVars => [Next]_vars
  BY DEF AnyNext, Unless, anyVars, vars
<1>2. AnyInit => Init
  BY DEF AnyInit
<1> QED
  BY <1>1, <1>2, PTL DEF AnySpec, Spec

\* Every part of the records keeps its types, whatever overlaps: the sum a request about a
\* goal has read is a number, a notification is of one of the keys there are, and a request
\* about categories keeps something exactly while it is under way.
THEOREM RecordsStayTyped == AnySpec => []RecordsTypeOK
<1>1. AnySpec => []TypeOK
  BY AdminRun, AdminTypeCorrect, PTL
<1>2. AnySpec => []Rules!TypeOK
  <2>1. RuleInv => Rules!TypeOK
    BY DEF RuleInv, RuleTypes, Rules!TypeOK
  <2> QED
    BY <2>1, ComponentsInit, RuleInit, RuleStepInAny, RuleStep, PTL DEF AnySpec
<1>3. AnySpec => []Goals!TypeOK
  <2>1. GoalInv => Goals!TypeOK
    BY DEF GoalInv
  <2> QED
    BY <2>1, ComponentsInit, GoalInit, GoalsStep, GoalStep, PTL DEF AnySpec
<1>4. AnySpec => []Habits!TypeOK
  BY ComponentsInit, HabitInit, HabitStepInAny, HabitStep, PTL DEF AnySpec
<1>5. AnySpec => []Bank!TypeOK
  <2>1. Bank!Spec => []Bank!TypeOK
    BY RequestsAssumption, BankAssumption, Bank!TypeCorrectness
  <2> QED
    BY <2>1, BankRun, PTL
<1>6. AnySpec => []Items!TypeOK
  <2>1. ItemInv => Items!TypeOK
    BY DEF ItemInv
  <2> QED
    BY <2>1, ComponentsInit, ItemsInitially, ItemStepInAny, ItemStep, PTL DEF AnySpec
<1>7. AnySpec => []Cats!TypeOK
  <2>1. Cats!Init => Idle
    BY DEF Cats!Init, Idle
  <2>2. CatInv /\ Idle => Cats!TypeOK
    BY DEF CatInv, CatTables, References, Idle, Cats!TypeOK, Cats!Created, Cats!Rows, Cats!Rules, Cats!Row
  <2> QED
    BY <2>1, <2>2, ComponentsInit, CatInvariance, CatStepInAny, IdleStep, PTL DEF AnySpec
<1>8. AnySpec => []Wealth!TypeOK
  <2>1. WealthInv => Wealth!TypeOK
    BY DEF WealthInv, WealthTypes
  <2> QED
    BY <2>1, ComponentsInit, WealthInit, WealthStepInAny, WealthStep, PTL DEF AnySpec
<1>9. AnySpec => []Budget!TypeOK
  <2>1. BudgetInv => Budget!TypeOK
    BY DEF BudgetInv
  <2> QED
    BY <2>1, ComponentsInit, BudgetInit, BudgetStepInAny, BudgetStep, PTL DEF AnySpec
<1>10. AnySpec => []Notices!TypeOK
  <2>1. NoticeInv /\ NoticeShape => Notices!TypeOK
    BY DEF NoticeInv, NoticeTypes, NoticeShape, Notices!TypeOK, Notices!Range
  <2>2. NoticeInv => NoticeTypes
    BY DEF NoticeInv
  <2> QED
    BY <2>1, <2>2, ComponentsInit, NoticeInit, NoticeStepInAny, NoticeStep, NoticeShapeInit, NoticeShapeStep, PTL
       DEF AnySpec
<1>11. TypeOK /\ Rules!TypeOK /\ Goals!TypeOK /\ Habits!TypeOK /\ Bank!TypeOK /\ Items!TypeOK
         /\ Cats!TypeOK /\ Wealth!TypeOK /\ Budget!TypeOK /\ Notices!TypeOK => RecordsTypeOK
  BY DEF RecordsTypeOK
<1> QED
  BY <1>1, <1>2, <1>3, <1>4, <1>5, <1>6, <1>7, <1>8, <1>9, <1>10, <1>11, PTL
=============================================================================
