------------------------------ MODULE Budgets ------------------------------
(***************************************************************************)
(* A budget of a month, the categories its amount is allocated to, and     *)
(* what of it is spent.  An update that gives an amount, a name or a month *)
(* locks the row of the budget until it commits; one that gives a category *)
(* alone has no column to write, so that Prisma reads the row and locks    *)
(* nothing.  A statement on the allocations sees those that are committed  *)
(* when it begins, and waits for those that another request has written.   *)
(*                                                                         *)
(* Left out: what names and months are, that a new one also waits for the  *)
(* inserts of allocations, and rounding.                                   *)
(***************************************************************************)
EXTENDS Concurrency, Integers, FiniteSetsExt

CONSTANTS Categories,  \* the expense categories of the user
          Amounts      \* the amounts of a budget

VARIABLES
  budget,      \* the row: its amount; or None
  allocation,  \* its budget_categories: records of a category and an amount
  lock,        \* the request that has updated the row and not committed
  pc, req,     \* of a request: its statement, its body with what it has read and written
  raced        \* an update has committed that had missed what another committed

vars == <<budget, allocation, lock, pc, req, raced>>

Init ==
  /\ budget = None
  /\ allocation = {}
  /\ lock = None
  /\ pc = [r \in Requests |-> "idle"]
  /\ req = [r \in Requests |-> None]
  /\ raced = FALSE

Gives(r, field) == field \in DOMAIN req[r].body

Go(r, statement, request) ==
  /\ pc' = [pc EXCEPT ![r] = statement]
  /\ req' = [req EXCEPT ![r] = request]

CategoriesOf(rows) == {a.category : a \in rows}

\* A category of None is one that is given as null.
Allocated(category, amount) == IF category = None THEN {} ELSE {[category |-> category, amount |-> amount]}

\* createBudget: the budget and its allocation are committed at once.  Requests on a
\* budget that was deleted have failed before: its id is not used again.
CreateBudget(amount, category) ==
  /\ budget = None /\ \A r \in Requests : pc[r] = "idle"
  /\ budget' = amount
  /\ allocation' = Allocated(category, amount)
  /\ raced' = FALSE
  /\ UNCHANGED <<lock, pc, req>>

\* updateBudgetHandler: the budget is there, the category is the user's.
StartUpdate(r, body) ==
  /\ pc[r] = "idle" /\ budget # None
  /\ Go(r, "update", [body |-> body, amount |-> None, seen |-> {}, changed |-> {}, removed |-> {},
                      added |-> None, stale |-> FALSE])
  /\ UNCHANGED <<budget, allocation, lock, raced>>

AfterAmounts(r) == IF Gives(r, "category") THEN "find" ELSE "commit"
AfterRow(r)     == IF Gives(r, "amount") THEN "look" ELSE AfterAmounts(r)

\* Faulty: the row is read and not locked, whatever is given.
UpdateUnlocked(r) ==
  /\ pc[r] = "update" /\ DOMAIN req[r].body # {"category"}
  /\ budget # None
  /\ Go(r, AfterRow(r),
        [req[r] EXCEPT !.amount = IF Gives(r, "amount") THEN req[r].body.amount ELSE budget])
  /\ UNCHANGED <<budget, allocation, lock, raced>>

\* tx.budget.update with an amount, a name or a month: it waits for the lock of the row,
\* and returns the row as it is now with the columns that are given.
UpdateRow(r) ==
  /\ pc[r] = "update" /\ DOMAIN req[r].body # {"category"}
  /\ lock = None /\ budget # None
  /\ lock' = r
  /\ Go(r, AfterRow(r),
        [req[r] EXCEPT !.amount = IF Gives(r, "amount") THEN req[r].body.amount ELSE budget])
  /\ UNCHANGED <<budget, allocation, raced>>

\* tx.budget.update without a column: the row is read, whoever has locked it.
ReadRow(r) ==
  /\ pc[r] = "update" /\ DOMAIN req[r].body = {"category"}
  /\ budget # None
  /\ Go(r, "find", [req[r] EXCEPT !.amount = budget])
  /\ UNCHANGED <<budget, allocation, lock, raced>>

\* A statement on the allocations begins: it is about those that are committed now.
Look(r, from, to) ==
  /\ pc[r] = from
  /\ Go(r, to, [req[r] EXCEPT !.seen = CategoriesOf(allocation)])
  /\ UNCHANGED <<budget, allocation, lock, raced>>

\* The allocations a request has written and not committed are locked.
Locked(r) == IF pc[r] = "idle" THEN {} ELSE req[r].changed \cup req[r].removed
Writable(r) == \A q \in Requests \ {r} : Locked(q) \cap req[r].seen = {}

\* budgetCategory.updateMany: the allocations get the new amount.
SetAmounts(r) ==
  /\ pc[r] = "amounts" /\ Writable(r)
  /\ Go(r, AfterAmounts(r), [req[r] EXCEPT !.changed = req[r].seen, !.seen = {}])
  /\ UNCHANGED <<budget, allocation, lock, raced>>

\* budgetCategory.deleteMany.
Remove(r) ==
  /\ pc[r] = "remove" /\ Writable(r)
  /\ Go(r, IF req[r].body.category = None THEN "commit" ELSE "insert",
        [req[r] EXCEPT !.removed = req[r].seen, !.seen = {}])
  /\ UNCHANGED <<budget, allocation, lock, raced>>

\* budgetCategory.create: the budget must be there; a category is allocated once, and a
\* row of it that another request is writing is waited for.
Insert(r) ==
  LET c == req[r].body.category
  IN  /\ pc[r] = "insert" /\ budget # None
      /\ c \in CategoriesOf(allocation) => c \in req[r].removed
      /\ \A q \in Requests \ {r} : pc[q] # "idle" => c # req[q].added
      /\ Go(r, "commit", [req[r] EXCEPT !.added = c])
      /\ UNCHANGED <<budget, allocation, lock, raced>>

\* What is in the allocations once a request has committed.
Written(r) ==
  {IF a.category \in req[r].changed THEN [a EXCEPT !.amount = req[r].amount] ELSE a :
     a \in {b \in allocation : b.category \notin req[r].removed}}
  \cup Allocated(req[r].added, req[r].amount)

\* The last look of a request at the allocations is over.
Looked(r) ==
  \/ pc[r] \in {"remove", "insert"}
  \/ pc[r] = "amounts" /\ ~Gives(r, "category")
  \/ pc[r] = "commit" /\ (Gives(r, "category") \/ Gives(r, "amount"))

\* A request misses the commit of another: a new amount when it has read the old one and
\* allocates it, or a new allocation when it has looked for them.
Misses(r, other) ==
  \/ Gives(other, "amount") /\ pc[r] # "update"
     /\ DOMAIN req[r].body = {"category"} /\ req[r].body.category # None
  \/ req[other].added # None /\ Looked(r)

\* The rows that are gone drop out of what a statement of another request has seen.
Commit(r) ==
  /\ pc[r] = "commit" /\ budget # None
  /\ budget' = IF Gives(r, "amount") THEN req[r].amount ELSE budget
  /\ allocation' = Written(r)
  /\ lock' = IF lock = r THEN None ELSE lock
  /\ pc' = [pc EXCEPT ![r] = "idle"]
  /\ req' = [q \in Requests |->
               IF q = r \/ pc[q] = "idle" THEN None
               ELSE [req[q] EXCEPT !.seen = @ \ req[r].removed, !.stale = @ \/ Misses(q, r)]]
  /\ raced' = IF req[r].stale THEN TRUE ELSE raced /\ ~Gives(r, "category")

\* The process stops, a constraint is violated, a deadlock is broken, or the category
\* (P2003) or the budget is gone.
Fail(r) ==
  /\ pc[r] # "idle"
  /\ lock' = IF lock = r THEN None ELSE lock
  /\ Go(r, "idle", None)
  /\ UNCHANGED <<budget, allocation, raced>>

\* The allocations go with the budget.  It waits for an update of the row, and for
\* allocations that are written.
DeleteBudget ==
  /\ budget # None /\ lock = None
  /\ \A r \in Requests : Locked(r) = {} /\ (pc[r] # "idle" => req[r].added = None)
  /\ budget' = None /\ allocation' = {}
  /\ UNCHANGED <<lock, pc, req, raced>>

\* A name stands for any column but the amount; next to an amount it makes no difference.
Bodies ==
  LET name     == {"given"}
      category == Categories \cup {None}
  IN  [name : name] \cup [amount : Amounts] \cup [category : category]
        \cup [name : name, category : category] \cup [amount : Amounts, category : category]

Next ==
  \/ \E amount \in Amounts, category \in Categories \cup {None} : CreateBudget(amount, category)
  \/ \E r \in Requests : \/ \E body \in Bodies : StartUpdate(r, body)
                         \/ UpdateRow(r) \/ ReadRow(r)
                         \/ Look(r, "look", "amounts") \/ SetAmounts(r)
                         \/ Look(r, "find", "remove") \/ Remove(r) \/ Insert(r)
                         \/ Commit(r) \/ Fail(r)
  \/ DeleteBudget

Spec == Init /\ [][Next]_vars
-----------------------------------------------------------------------------
Total(of, categories) == MapThenSumSet(LAMBDA c : of[c], categories)

\* getBudgetProgress: one sum over the expenses of the allocated categories, or over
\* all of them.  Spent is the sum of the expenses of each category in the month.
getBudgetProgress(spent) ==
  LET ids == CategoriesOf(allocation)
  IN  Total(spent, IF ids = {} THEN Categories ELSE ids)

\* computeProgressForBudgets: the sums by category are looked up, and a category that
\* has none is passed over; a budget without a category has the sum of all.
computeProgressForBudgets(spent) ==
  LET byCategory == [c \in {d \in Categories : spent[d] # 0} |-> spent[c]]
      ids        == CategoriesOf(allocation)
  IN  IF ids = {} THEN Total(spent, Categories)
      ELSE Total([c \in Categories |-> IF c \in DOMAIN byCategory THEN byCategory[c] ELSE 0], ids)

TypeOK ==
  /\ budget \in Amounts \cup {None}
  /\ allocation \subseteq [category : Categories, amount : Amounts]
  /\ lock \in Requests \cup {None}
  /\ pc \in [Requests -> {"idle", "update", "look", "amounts", "find", "remove", "insert", "commit"}]
  /\ raced \in BOOLEAN

\* A budget has at most one allocation, and it is of the whole amount, unless the last
\* update that set the category, or one after it, had missed what another committed while
\* it ran.  Updates that lock the row miss nothing of each other: one of the two gives a
\* category alone.
AllocationFollowsUnlessRaced ==
  \/ raced
  \/ /\ \A a \in allocation : a.amount = budget
     /\ \A a, b \in allocation : a = b

\* The list of budgets and the page of one show the same spending.
ProgressAgrees(Spending) ==
  \A spent \in [Categories -> Spending] : getBudgetProgress(spent) = computeProgressForBudgets(spent)
=============================================================================
