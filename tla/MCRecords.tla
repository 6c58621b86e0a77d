----------------------------- MODULE MCRecords -----------------------------
(***************************************************************************)
(* Small instances of the components that share no state with each other.  *)
(* A behaviour exercises one of them, chosen in the initial state; the     *)
(* others stay in one of their initial states.                             *)
(* AdminGuard is extended, so that its properties are the very formulas    *)
(* RecordsProofs proves; the others are instantiated.                      *)
(***************************************************************************)
EXTENDS AdminGuard, Calendar, HabitPeriods, BankData, TLC

CONSTANTS MaxRuleDay, RuleFrequencies, MaxDay, Contributions, Amounts, HabitRequests,
  BankRequests, e1, t1, t2, MaxPayments, Deleted, Totals, MaxCaptureDay, Categories, Spending,
  NoticeRequests, MaxNoticeDay, UpcomingWindow, RecurringWindow, MaxNoticeChanges,
  Size, Noise, Digits, Country, MerchantRules, DescriptionRules, ChannelRules, DefaultName,
  System, Own, Names, Transactions, MerchantOf, RuleIds, Texts, Priorities, RuleBodies, MaxAsked

ASSUME RequestsAssumption  == None \notin BankRequests
ASSUME WindowAssumption    == UpcomingWindow \in Nat /\ RecurringWindow \in Nat
ASSUME MaxDayAssumption    == MaxDay \in Nat /\ MaxCaptureDay \in Nat /\ MaxNoticeDay \in Nat
ASSUME NoticeAssumption    == MaxNoticeChanges \in Nat

\* The bank has one account.  With two, a transaction may be imported twice (the run
\* sibling_import).
ASSUME OneAccountAssumption == \E e \in External : External = {e}

VARIABLES part,
  today, exists, start, end, frequency, active, cursor, rows, edits, rulePc, snap, horizon,
  since, mistaken,
  goalExists, goalStatus, goalTarget, amount, goalLock, goalPc, change, saved,
  day, habit, done, challenge, joined, mapped, habitEdits, habitPc, slot,
  connection, account, issued, linked, unlinked, syncLocks, connLock, rowLock, keyShare,
  bankPc, acct, bankRows, dismissed,
  kind, itemExists, item, itemPc, itemSnap, reach, edition, lost,
  category, tx, rule, asked, catPc, catReq, raced, disturbed,
  wealthToday, total, snapshot, inserting, wealthPc, captureDay, sums, held,
  budget, allocation, budgetLock, budgetPc, budgetReq, budgetRaced,
  noticeToday, noticeKind, thing, thingChanges, notices, noticePc, noticeDay, found, throughout, deleted

ruleVars   == <<today, exists, start, end, frequency, active, cursor, rows, edits, rulePc, snap,
                horizon, since, mistaken>>
goalVars   == <<goalExists, goalStatus, goalTarget, amount, goalLock, goalPc, change, saved>>
habitVars  == <<day, habit, done, challenge, joined, mapped, habitEdits, habitPc, slot>>
bankVars   == <<connection, account, issued, linked, unlinked, syncLocks, connLock, rowLock, keyShare,
                bankPc, acct, bankRows, dismissed>>
itemVars   == <<kind, itemExists, item, itemPc, itemSnap, reach, edition, lost>>
catVars    == <<category, tx, rule, asked, catPc, catReq, raced, disturbed>>
wealthVars == <<wealthToday, total, snapshot, inserting, wealthPc, captureDay, sums, held>>
budgetVars == <<budget, allocation, budgetLock, budgetPc, budgetReq, budgetRaced>>
noticeVars == <<noticeToday, noticeKind, thing, thingChanges, notices, noticePc, noticeDay, found,
                throughout, deleted>>

\* Bills and subscriptions: every way to pay, to correct and to reschedule.
Changes == {[status |-> s] : s \in {"PAID", "PENDING", "CANCELLED", "ACTIVE"}}
             \cup {[anchor |-> 2], [status |-> "PAID", anchor |-> 2], [next |-> 1], [frequency |-> "MONTHLY"]}

\* Categories: the merchant of a text ends in a country, or comes after a reference.
Sizes        == [x |-> 4, pay |-> 3, uber |-> 4, in |-> 2, us |-> 2, n55 |-> 2, ref |-> 3]
SystemOnes   == {[id |-> "si", name |-> "other income", type |-> "INCOME", own |-> FALSE],
                 [id |-> "se", name |-> "other expense", type |-> "EXPENSE", own |-> FALSE]}
Merchants    == << [key |-> <<"uber">>, name |-> [INCOME |-> "none", EXPENSE |-> "transport"]] >>
DefaultNames == [INCOME |-> "other income", EXPENSE |-> "other expense"]
MerchantText == [t1 |-> <<"x", "in">>]
SomeTexts    == {<<"x", "in">>, <<"x", "pay">>, <<"ref", "n55", "pay">>}
NoRules      == << >>
SomeRuleBodies == {[category |-> id, priority |-> 1] : id \in {"si", "o1"}}
                    \cup {[active |-> FALSE], [category |-> "se"]}

Learned      == [key |-> <<"x">>, category |-> "se", priority |-> 0, active |-> TRUE]

Rules == INSTANCE RecurringRules WITH pc <- rulePc, MaxDay <- MaxRuleDay, MaxEdits <- 1
Goals == INSTANCE SavingsGoalsProofs WITH exists <- goalExists, status <- goalStatus,
           target <- goalTarget, lock <- goalLock, pc <- goalPc
Habits == INSTANCE Challenges WITH Requests <- HabitRequests, MaxEdits <- 1,
            Target <- 1, edits <- habitEdits, pc <- habitPc
Bank == INSTANCE BankSyncProofs WITH Requests <- BankRequests, pc <- bankPc, rows <- bankRows
Items == INSTANCE Obligations WITH MaxDay <- MaxRuleDay, MaxEdits <- 1, exists <- itemExists,
           pc <- itemPc, snap <- itemSnap
Cats == INSTANCE Categories WITH pc <- catPc, req <- catReq
Wealth == INSTANCE WealthSnapshot WITH
            MaxDay <- MaxCaptureDay, today <- wealthToday, pc <- wealthPc, day <- captureDay
Budget == INSTANCE Budgets WITH lock <- budgetLock, pc <- budgetPc, req <- budgetReq,
            raced <- budgetRaced
Notices == INSTANCE Reminders WITH Requests <- NoticeRequests, MaxDay <- MaxNoticeDay,
             MaxChanges <- MaxNoticeChanges, today <- noticeToday, kind <- noticeKind,
             changes <- thingChanges, pc <- noticePc, day <- noticeDay

\* Categories: an id names one category, no row is None or Deleted, and a rule that is edited
\* keeps one of the keys.
ASSUME CategoryAssumption ==
  /\ \A c \in System : c.type \in Cats!Type /\ c.id \notin Own \cup {"none"}
  /\ \A c, d \in System : c.id = d.id => c.type = d.type
  /\ "none" \notin Own /\ Deleted # None
  /\ Priorities \subseteq Int
  /\ \A key \in Cats!Keys : Cats!normalizeMerchant(key) \in Cats!Keys
ASSUME CategoryRowAssumption ==
  \A row \in {None, Deleted} : row \notin Cats!CategoryRow \cup Cats!TransactionRow \cup Cats!RuleRow
\* What a change of a transaction gives, and a request to remember a choice.
Patches == [type : Cats!Type] \cup [category : Cats!EveryId] \cup [category : Cats!EveryId, type : Cats!Type]
             \cup [source : {"MANUAL"}]
Taught  == Cats!Keys \ {Cats!Nothing}
Reads   == UNION {[ts -> Cats!TransactionRow] : ts \in SUBSET Transactions}
Choice  == [ts : SUBSET Transactions, body : Patches, read : Reads, category : Cats!EveryId,
            keys : SUBSET Taught, found : RuleIds \cup {None}]

\* What a request about categories keeps: what it was asked for, as it has read it.
RuleBody ==
  {Cats!With(body, [key |-> key]) :
     body \in RuleBodies \cup {Cats!With([priority |-> 0, active |-> TRUE], body) : body \in RuleBodies},
     key \in Cats!Keys}
Asked ==
  [id : Own] \cup [id : Own, row : Cats!CategoryRow, new : BOOLEAN]
    \cup [tx : Transactions, category : Cats!EveryId, row : Cats!TransactionRow]
    \cup [ts : SUBSET Transactions, body : Patches, read : Reads, category : Cats!EveryId]
    \cup Choice
    \cup [id : RuleIds, body : RuleBody, new : BOOLEAN, category : Cats!EveryId]
ASSUME AskedAssumption == None \notin Asked

\* Words have lengths, and there are finitely many rules.
ASSUME SizeAssumption ==
  /\ Size \in [Cats!Token -> Nat] /\ Texts \subseteq Seq(Cats!Token)
  /\ MerchantOf \in [Transactions -> Seq(Cats!Token)]
ASSUME RuleIdsAssumption == IsFiniteSet(RuleIds)
\* The contributions to a goal are finitely many, and what is paid is positive.
ASSUME ContributionAssumption == IsFiniteSet(Contributions) /\ Amounts \subseteq Nat \ {0}
ASSUME BodyAssumption ==
  \A body \in RuleBodies :
    /\ DOMAIN body \subseteq {"category", "priority", "active"}
    /\ "category" \in DOMAIN body => body.category \in Cats!EveryId
    /\ "priority" \in DOMAIN body => body.priority \in Int
    /\ "active" \in DOMAIN body => body.active \in BOOLEAN

\* Rules, bills and subscriptions: the calendar goes on after the last day, and what a
\* request remembers of a row is not None.
ASSUME ScheduleAssumption ==
  /\ Covers(MaxRuleDay) /\ RuleFrequencies \subseteq Frequency
  /\ None \notin Rules!Snapshot \cup Items!Snapshot
ASSUME ChangeAssumption ==
  \A c \in Changes :
    /\ DOMAIN c \subseteq {"status", "anchor", "next", "frequency"}
    /\ "anchor" \in DOMAIN c => c.anchor \in Items!Days
    /\ "next" \in DOMAIN c => c.next \in Nat \ {0}
    /\ "frequency" \in DOMAIN c => c.frequency \in Frequency

\* The second month of the first year is the shortest.
MonthLengths == <<2, 1, 2, 2, 2, 1, 2, 2>>

\* One account of the bank has every transaction.
OneAccount == [t \in {t1, t2} |-> e1]

\* Assets and liabilities change one at a time.
SomeTotals == {[assets |-> 1, liabilities |-> 1], [assets |-> 1, liabilities |-> 2],
               [assets |-> 2, liabilities |-> 2]}

Part == {"admin", "rules", "goals", "habits", "bank", "items", "categories", "wealth", "budgets", "notices"}

\* A challenge begins on one of the first two days, and at first lasts to the end; of
\* two rules for a merchant one is there at first.
AnyInit ==
  /\ part \in Part
  /\ Init
  /\ part # "admin" => ActiveAdmins = Accounts
  /\ Rules!Init
  /\ part # "rules" => start = 1 /\ end = Rules!Open /\ frequency = "MONTHLY"
  /\ Goals!Init
  /\ part # "goals" => goalTarget = 1 /\ goalStatus = "ACTIVE" /\ \A c \in Contributions : amount[c] = 0
  /\ Habits!Init
  /\ challenge.start \in 0..1 /\ challenge.end = MaxDay
  /\ part # "habits" => habit.frequency = 1 /\ challenge.frequency = 1 /\ challenge.start = 0
  /\ Bank!Init
  /\ Items!Init
  /\ part # "items" => kind = "bill" /\ item.anchor = 1 /\ item.next = 1 /\ item.frequency = "DAILY"
  /\ Cats!Init
  /\ LET first == CHOOSE u \in RuleIds : TRUE
     IN  rule[first] \in {None, Learned} /\ \A u \in RuleIds \ {first} : rule[u] = None
  /\ part # "categories" => Cats!Created = {} /\ Cats!Rows = {} /\ Cats!Rules = {}
  /\ Wealth!Init
  /\ part # "wealth" => total.assets = 2
  /\ Budget!Init
  /\ Notices!Init
  /\ part # "notices" => noticeKind = "budget" /\ thing.status = "under"

\* Ids of rows are numbers here, and the least unused ones are taken: which of several
\* fresh ids a row gets makes no difference.
LeastFirst(before, after) == \A n \in after \ before : 1..n \subseteq after

\* A step of one part leaves the variables of the others as they are.
Unless(p, some) == part # p => UNCHANGED some

AnyNext ==
  /\ UNCHANGED part
  /\ Unless("admin", vars) /\ Unless("rules", ruleVars) /\ Unless("goals", goalVars)
  /\ Unless("habits", habitVars) /\ Unless("bank", bankVars) /\ Unless("items", itemVars)
  /\ Unless("categories", catVars) /\ Unless("wealth", wealthVars)
  /\ Unless("budgets", budgetVars) /\ Unless("notices", noticeVars)
  /\ \/ part = "admin"      /\ Next
     \/ part = "rules"      /\ Rules!Next
     \/ part = "goals"      /\ Goals!Next
     \/ part = "habits"     /\ Habits!Next
     \/ part = "bank"       /\ Bank!Next /\ LeastFirst(issued, issued')
     \/ part = "items"      /\ Items!Next
     \/ part = "categories" /\ Cats!Next
     \/ part = "wealth"     /\ Wealth!Next
     \/ part = "budgets"    /\ Budget!Next
     \/ part = "notices"    /\ Notices!Next

anyVars == <<part, vars, ruleVars, goalVars, habitVars, bankVars, itemVars, catVars, wealthVars,
             budgetVars, noticeVars>>
AnySpec == AnyInit /\ [][AnyNext]_anyVars

\* The type invariant of the part that is exercised: the others do not move.
RecordsTypeOK ==
  /\ part = "admin"      => TypeOK
  /\ part = "rules"      => Rules!TypeOK
  /\ part = "goals"      => Goals!TypeOK
  /\ part = "habits"     => Habits!TypeOK
  /\ part = "bank"       => Bank!TypeOK
  /\ part = "items"      => Items!TypeOK
  /\ part = "categories" => Cats!TypeOK
  /\ part = "wealth"     => Wealth!TypeOK
  /\ part = "budgets"    => Budget!TypeOK
  /\ part = "notices"    => Notices!TypeOK

\* The cursor of a rule stays on its schedule, moves past no date without a row, unless an
\* edit went unnoticed, and moves back only for a new schedule (RecurringRules).
CursorKeepsSchedule == Rules!CursorKeepsSchedule

\* The status of a goal follows its contributions and target; only a request that names
\* a status pauses, cancels or resumes it (SavingsGoals).
StatusFollowsAmounts == part = "goals" => Goals!StatusFollowsAmounts
IntentIsExplicit     == Goals!IntentIsExplicit

\* The streaks of a habit are runs of its completed periods, and no challenge counts more
\* periods than there are (Challenges).
ProgressFollowsHistory == part = "habits" => Habits!StreaksAgreeWithHistory /\ Habits!CapNeverBites

\* The accounts of a bank exist exactly while it is connected; a row that was dismissed
\* stays away; a transaction of the provider is imported once, and an account has one sync
\* at a time (BankSync).
AccountsMatchConnection == part = "bank" => Bank!AccountsMatchConnection
StaysDismissed          == part = "bank" => Bank!StaysDismissed
SyncsImportOnce         == part = "bank" => Bank!OneSyncPerAccount /\ Bank!ImportedOnce

\* A due date is never further than its payments bring it, and a payment brings it one
\* occurrence further (Obligations).
DueDateFollowsPayments ==
  part = "items" => Items!NeverAheadOfPayments /\ Items!AdvancesByOneOccurrence

\* The type of a transaction is that of its category, unless a race changed one of them; a
\* choice that is to be remembered is, and decides from then on (Categories).
TypesAgreeUnlessRaced == part = "categories" => Cats!TypesAgreeUnlessRaced
RulesAreLearned       == part = "categories" => Cats!RememberSucceeds /\ Cats!LearnedRuleDecides

\* A snapshot is the state of one moment of its day (WealthSnapshot).
SnapshotsAreMoments == Wealth!SnapshotsAreMoments

\* A budget is allocated to one category and in full, unless an update missed what another
\* committed, and its progress is the same wherever it is computed, even then (Budgets).
BudgetsAgree ==
  part = "budgets" => Budget!AllocationFollowsUnlessRaced /\ Budget!ProgressAgrees(Spending)

\* A generation of reminders misses no occasion, and makes no notification that was read
\* unread again (Reminders).
RemindersAreKept == Notices!RemindersAreKept

\* Requests are never compared or ordered.
Interchangeable == Permutations(Requests)
=============================================================================
