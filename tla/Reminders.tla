----------------------------- MODULE Reminders -----------------------------
(***************************************************************************)
(* The notifications of a user about one bill, subscription, recurring     *)
(* rule, daily habit or budget.  Nothing schedules them: a request looks   *)
(* at the rows as they are, one statement after another, and inserts what  *)
(* it has found, at most once for each deduplication key.                  *)
(*                                                                         *)
(* Left out: titles and messages, and the paging of the list.              *)
(***************************************************************************)
EXTENDS Concurrency, Integers, FiniteSets, Functions

CONSTANTS MaxDay,           \* bound on the days that pass
          UpcomingWindow,   \* days before a bill or renewal is due
          RecurringWindow,  \* days before a recurring rule is due
          MaxChanges        \* bound on the changes of the rows the reminders are about

Day == 0..MaxDay

\* For each kind, the states of its row that reminders tell apart.
StatusOf ==
  [bill |-> {"PENDING", "PAID", "OVERDUE", "CANCELLED"}, subscription |-> {"ACTIVE", "PAUSED"},
   recurring |-> {"ACTIVE", "PAUSED"}, habit |-> {"ACTIVE", "PAUSED"}, budget |-> {"under", "pct80", "pct100"}]
Kind == DOMAIN StatusOf

\* A deduplication key is a date and what is said of it.
Key == Day \X {"upcoming", "overdue", "reminder", "pct80", "pct100"}

VARIABLES
  today,
  kind,
  thing,      \* the row: its status, its date; the days a habit is completed on
  changes,    \* changes of the row so far
  notices,    \* the notifications: of a key, "unread" or "read"
  pc, day,    \* of a request: its statement, its day
  found,      \* the keys it has found
  throughout, \* the keys there was reason for all the while (history)
  deleted     \* the keys whose notification was deleted meanwhile (history)

rows == <<today, kind, thing, changes>>
vars == <<rows, notices, pc, day, found, throughout, deleted>>

\* collectBillCandidates: a date that is past is overdue unless the bill is paid or
\* cancelled; any other date within the window is upcoming unless it is cancelled.
BillKeys(t, d) ==
  IF t.date < d THEN {<<t.date, "overdue">> : s \in {t.status} \cap {"PENDING", "OVERDUE"}}
  ELSE {<<t.date, "upcoming">> : s \in {t.status} \ {"CANCELLED"}}

\* Faulty: the day the window ends on is left out.
UpcomingKeysShort(t, d, window) ==
  IF t.status = "ACTIVE" /\ t.date >= d /\ t.date < d + window THEN {<<t.date, "upcoming">>} ELSE {}

\* collectSubscriptionCandidates, collectRecurringCandidates.
UpcomingKeys(t, d, window) ==
  IF t.status = "ACTIVE" /\ t.date >= d /\ t.date < d + window + 1 THEN {<<t.date, "upcoming">>} ELSE {}

\* collectHabitCandidates.
HabitKeys(t, d) == IF t.status = "ACTIVE" /\ d \notin t.done THEN {<<d, "reminder">>} ELSE {}

\* collectBudgetCandidates: of the two thresholds, the highest that is reached.
BudgetKeys(t) == IF t.status = "under" THEN {} ELSE {<<0, t.status>>}

Keys(t, d) ==
  CASE kind = "bill"         -> IF t.date < d + UpcomingWindow + 1 THEN BillKeys(t, d) ELSE {}
    [] kind = "subscription" -> UpcomingKeys(t, d, UpcomingWindow)
    [] kind = "recurring"    -> UpcomingKeys(t, d, RecurringWindow)
    [] kind = "habit"        -> HabitKeys(t, d)
    [] kind = "budget"       -> BudgetKeys(t)

\* What README.md promises: reminders of what is due within the window, alerts for
\* what is overdue, and today's habits that are not done.
Reason(t, d) ==
  LET due(window) == t.date \in d..(d + window)
      told == CASE kind = "bill"  -> IF t.date < d THEN (IF t.status \in {"PENDING", "OVERDUE"} THEN {"overdue"} ELSE {})
                                     ELSE IF t.status # "CANCELLED" /\ due(UpcomingWindow) THEN {"upcoming"} ELSE {}
                [] kind = "subscription" -> IF t.status = "ACTIVE" /\ due(UpcomingWindow) THEN {"upcoming"} ELSE {}
                [] kind = "recurring"    -> IF t.status = "ACTIVE" /\ due(RecurringWindow) THEN {"upcoming"} ELSE {}
                [] kind = "habit"        -> IF t.status = "ACTIVE" /\ d \notin t.done THEN {"reminder"} ELSE {}
                [] kind = "budget"       -> {t.status} \ {"under"}
  IN  {IF kind = "habit" THEN d ELSE t.date} \X told

Init ==
  /\ today = 0
  /\ kind \in Kind
  /\ thing \in [date : IF kind \in {"habit", "budget"} THEN {0} ELSE Day, status : StatusOf[kind], done : {{}}]
  /\ changes = 0
  /\ notices = << >>
  /\ pc = [r \in Requests |-> "idle"]
  /\ day = [r \in Requests |-> 0]
  /\ found = [r \in Requests |-> {}]
  /\ throughout = [r \in Requests |-> {}]
  /\ deleted = [r \in Requests |-> {}]

\* The other components change the row: a payment, a renewal, an edit, a completion.
ChangeThing(next) ==
  /\ changes < MaxChanges /\ next # thing
  /\ thing' = next
  /\ changes' = changes + 1
  /\ throughout' = [r \in Requests |-> throughout[r] \cap Reason(next, day[r])]
  /\ UNCHANGED <<today, kind, notices, pc, day, found, deleted>>

Midnight ==
  /\ today < MaxDay
  /\ today' = today + 1
  /\ UNCHANGED <<kind, thing, changes, notices, pc, day, found, throughout, deleted>>

\* generateNotificationsForUser decides on its day before it reads.
StartGenerate(r) ==
  /\ pc[r] = "idle"
  /\ pc' = [pc EXCEPT ![r] = IF kind = "habit" THEN "habits" ELSE "collect"]
  /\ day' = [day EXCEPT ![r] = today]
  /\ throughout' = [throughout EXCEPT ![r] = Reason(thing, today)]
  /\ UNCHANGED <<rows, notices, found, deleted>>

\* The active habits of the day; their completions are another query.
FindHabits(r) ==
  /\ pc[r] = "habits"
  /\ pc' = [pc EXCEPT ![r] = IF thing.status = "ACTIVE" THEN "completions" ELSE "insert"]
  /\ UNCHANGED <<rows, notices, day, found, throughout, deleted>>

FindCompletions(r) ==
  /\ pc[r] = "completions"
  /\ pc' = [pc EXCEPT ![r] = "insert"]
  /\ found' = [found EXCEPT ![r] = HabitKeys([thing EXCEPT !.status = "ACTIVE"], day[r])]
  /\ UNCHANGED <<rows, notices, day, throughout, deleted>>

Collect(r) ==
  /\ pc[r] = "collect"
  /\ pc' = [pc EXCEPT ![r] = "insert"]
  /\ found' = [found EXCEPT ![r] = Keys(thing, day[r])]
  /\ UNCHANGED <<rows, notices, day, throughout, deleted>>

\* Faulty: what is there already is replaced.
UpsertCandidates(r) ==
  /\ pc[r] = "insert"
  /\ pc' = [pc EXCEPT ![r] = "done"]
  /\ notices' = [k \in DOMAIN notices \cup found[r] |-> IF k \in found[r] THEN "unread" ELSE notices[k]]
  /\ UNCHANGED <<rows, day, found, throughout, deleted>>

\* createMany with skipDuplicates: a key that is there is left as it is.
InsertCandidates(r) ==
  /\ pc[r] = "insert"
  /\ pc' = [pc EXCEPT ![r] = "done"]
  /\ notices' = [k \in DOMAIN notices \cup found[r] |-> IF k \in DOMAIN notices THEN notices[k] ELSE "unread"]
  /\ UNCHANGED <<rows, day, found, throughout, deleted>>

\* The answer; or a statement fails, or the process stops.
End(r) ==
  /\ pc[r] # "idle"
  /\ pc' = [pc EXCEPT ![r] = "idle"]
  /\ day' = [day EXCEPT ![r] = 0]
  /\ found' = [found EXCEPT ![r] = {}]
  /\ throughout' = [throughout EXCEPT ![r] = {}]
  /\ deleted' = [deleted EXCEPT ![r] = {}]
  /\ UNCHANGED <<rows, notices>>

MarkRead(k) ==
  /\ k \in DOMAIN notices /\ notices[k] = "unread"
  /\ notices' = [notices EXCEPT ![k] = "read"]
  /\ UNCHANGED <<rows, pc, day, found, throughout, deleted>>

MarkAllRead ==
  /\ notices' = [k \in DOMAIN notices |-> "read"]
  /\ UNCHANGED <<rows, pc, day, found, throughout, deleted>>

DeleteNotice(k) ==
  /\ k \in DOMAIN notices
  /\ notices' = Restrict(notices, DOMAIN notices \ {k})
  /\ deleted' = [r \in Requests |-> IF pc[r] = "idle" THEN {} ELSE deleted[r] \cup {k}]
  /\ UNCHANGED <<rows, pc, day, found, throughout>>

Next ==
  \/ \E next \in [date : IF kind \in {"habit", "budget"} THEN {0} ELSE Day, status : StatusOf[kind],
                  done : {thing.done} \cup (IF kind = "habit" THEN {thing.done \cup {today}, thing.done \ {today}} ELSE {})] :
       ChangeThing(next)
  \/ Midnight
  \/ \E r \in Requests : \/ StartGenerate(r) \/ FindHabits(r) \/ FindCompletions(r)
                         \/ Collect(r) \/ InsertCandidates(r) \/ End(r)
  \/ \E k \in Key : MarkRead(k) \/ DeleteNotice(k)
  \/ MarkAllRead

Spec == Init /\ [][Next]_vars
-----------------------------------------------------------------------------
TypeOK ==
  /\ today \in Day /\ kind \in Kind /\ changes \in 0..MaxChanges
  /\ thing.date \in Day /\ thing.status \in StatusOf[kind] /\ thing.done \subseteq Day
  /\ DOMAIN notices \subseteq Key /\ Range(notices) \subseteq {"read", "unread"}
  /\ pc \in [Requests -> {"idle", "collect", "habits", "completions", "insert", "done"}]
  /\ day \in [Requests -> Day]

\* Whatever else happens meanwhile, a generation has told everything there was reason
\* for from its start to its end: no window ends a day too early, and no key of an
\* earlier date or threshold stands in the way of a later one.
EveryOccasionIsTold ==
  \A r \in Requests : pc[r] = "done" => throughout[r] \subseteq DOMAIN notices \cup deleted[r]

\* That holds after every step, and a notification the user has read is not unread
\* again, however often and with whatever overlap reminders are generated.
RemindersAreKept ==
  [][/\ EveryOccasionIsTold'
     /\ \A k \in DOMAIN notices \cap DOMAIN notices' : notices[k] = "read" => notices'[k] = "read"]_vars
=============================================================================
