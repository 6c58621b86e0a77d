--------------------------- MODULE RecurringRules ---------------------------
(***************************************************************************)
(* A recurring transaction: a rule with a cursor, the rows it has          *)
(* generated, and the requests that generate what is due, edit the rule or *)
(* delete it.  A generation reads the rule, works out the due dates from   *)
(* that snapshot, and later inserts the rows and moves the cursor in one   *)
(* transaction, but only if the cursor is still the one it read.           *)
(*                                                                         *)
(* Left out: category, type, amount and name of a row.                     *)
(***************************************************************************)
EXTENDS Concurrency, Calendar

CONSTANTS MaxDay,          \* bound on the days that pass
          MaxEdits,        \* bound on the changes of the rule
          RuleFrequencies  \* the frequencies that are exercised

Days == 1..MaxDay
Open == 0   \* the endDate of a rule that has none

VARIABLES
  today,
  exists, start, end, frequency, active, cursor,  \* the rule
  rows,       \* dates that have had a generated row, deleted since or not
  edits,      \* changes of the rule so far
  pc, snap, horizon,  \* of a request: its statement, the rule it read
  since,      \* the cursor when the schedule was last changed (history)
  mistaken    \* a generation took a changed schedule for the one it had read (history)

rule == <<exists, start, end, frequency, active, cursor>>
history == <<since, mistaken>>
vars == <<today, rule, rows, edits, pc, snap, horizon, history>>

Init ==
  /\ today = 1
  /\ exists = TRUE
  /\ start \in Days
  /\ end \in {Open} \cup {d \in Days : d >= start}
  /\ frequency \in RuleFrequencies
  /\ active = TRUE
  /\ cursor = start
  /\ rows = {}
  /\ edits = 0
  /\ pc = [r \in Requests |-> "idle"]
  /\ snap = [r \in Requests |-> None]
  /\ horizon = [r \in Requests |-> 0]
  /\ since = start /\ mistaken = FALSE

\* collectDueOccurrences: from the cursor, one occurrence after the other, up to
\* the horizon and the end date, both included.
Due(s, h) ==
  LET collect[d \in Nat \ {0}] ==
        IF d > h \/ (s.end # Open /\ d > s.end) THEN {}
        ELSE {d} \cup collect[nextOccurrenceAfter(d, s.start, s.frequency)]
  IN  collect[s.cursor]

\* The occurrence after the last due one.
NextCursor(s, h) ==
  nextOccurrenceAfter(CHOOSE d \in Due(s, h) : \A e \in Due(s, h) : e <= d,
                      s.start, s.frequency)

Rule == [start |-> start, end |-> end, frequency |-> frequency, cursor |-> cursor]

Answer(r) ==
  /\ pc' = [pc EXCEPT ![r] = "idle"]
  /\ snap' = [snap EXCEPT ![r] = None]
  /\ horizon' = [horizon EXCEPT ![r] = 0]

\* generateDueOccurrencesForRule and ForUser: the rule is read as it is now, and
\* the horizon is the day of the request.  Nothing due, nothing more happens.
Read(r) ==
  /\ pc[r] = "idle"
  /\ exists /\ active
  /\ Due(Rule, today) # {}
  /\ pc' = [pc EXCEPT ![r] = "insert"]
  /\ snap' = [snap EXCEPT ![r] = Rule]
  /\ horizon' = [horizon EXCEPT ![r] = today]
  /\ UNCHANGED <<today, rule, rows, edits, history>>

\* createMany: the foreign key needs the rule, and its lock keeps the rule
\* from being deleted; dates with a row are skipped, and an uncommitted row of
\* another generation is waited for.
InsertRows(r) ==
  /\ pc[r] = "insert"
  /\ exists
  /\ \A q \in Requests : pc[q] = "cursor" =>
       Due(snap[q], horizon[q]) \cap Due(snap[r], horizon[r]) = {}
  /\ pc' = [pc EXCEPT ![r] = "cursor"]
  /\ UNCHANGED <<today, rule, rows, edits, snap, horizon, history>>

\* Faulty: the cursor is written without comparing it first.
MoveCursorAlways(r) ==
  /\ pc[r] = "cursor"
  /\ rows' = rows \cup Due(snap[r], horizon[r])
  /\ cursor' = NextCursor(snap[r], horizon[r])
  /\ Answer(r)
  /\ UNCHANGED <<today, exists, start, end, frequency, active, edits, history>>

\* The compare-and-swap of the cursor, and the commit.  Only cursors are
\* compared, so an edit that left or put the cursor there goes unnoticed.
MoveCursor(r) ==
  LET hit     == cursor = snap[r].cursor
      changed == snap[r].start # start \/ snap[r].frequency # frequency
  IN  /\ pc[r] = "cursor"
      /\ rows' = rows \cup Due(snap[r], horizon[r])
      /\ cursor' = IF hit THEN NextCursor(snap[r], horizon[r]) ELSE cursor
      /\ mistaken' = (mistaken \/ (hit /\ changed))
      /\ Answer(r)
      /\ UNCHANGED <<today, exists, start, end, frequency, active, edits, since>>

\* The process stops, the transaction times out, or the rule is gone.
Abort(r) ==
  /\ pc[r] # "idle"
  /\ Answer(r)
  /\ UNCHANGED <<today, rule, rows, edits, history>>

Edit == exists /\ edits < MaxEdits /\ edits' = edits + 1
          /\ UNCHANGED <<today, exists, rows, pc, snap, horizon>>

\* PATCH: a new start date restarts the schedule.
EditStart(d) ==
  /\ Edit
  /\ start' = d /\ cursor' = d
  /\ since' = d /\ mistaken' = FALSE
  /\ UNCHANGED <<end, frequency, active>>

\* A new frequency continues from the cursor, with the start date as anchor.
EditFrequency(f) ==
  /\ Edit
  /\ f # frequency /\ frequency' = f
  /\ since' = cursor /\ mistaken' = FALSE
  /\ UNCHANGED <<start, end, active, cursor>>

\* An end date is compared with the start date, never with the cursor.
EditEnd(e) ==
  /\ Edit
  /\ e = Open \/ e >= start
  /\ end' = e
  /\ UNCHANGED <<start, frequency, active, cursor, history>>

Switch ==
  /\ Edit
  /\ active' = ~active
  /\ UNCHANGED <<start, end, frequency, cursor, history>>

\* The rows stay, without a rule; a generation that has inserted holds the rule.
DeleteRule ==
  /\ exists
  /\ \A r \in Requests : pc[r] # "cursor"
  /\ exists' = FALSE
  /\ UNCHANGED <<today, start, end, frequency, active, cursor, rows, edits, pc, snap, horizon, history>>

NextDay ==
  /\ today < MaxDay
  /\ today' = today + 1
  /\ UNCHANGED <<rule, rows, edits, pc, snap, horizon, history>>

Next ==
  \/ \E r \in Requests : Read(r) \/ InsertRows(r) \/ MoveCursor(r) \/ Abort(r)
  \/ \E d \in Days : EditStart(d) \/ EditEnd(d)
  \/ \E f \in RuleFrequencies : EditFrequency(f)
  \/ EditEnd(Open) \/ Switch \/ DeleteRule \/ NextDay

Spec == Init /\ [][Next]_vars
-----------------------------------------------------------------------------
Snapshot == [start : Int, end : Int, frequency : Frequency, cursor : Int]
TypeOK ==
  /\ today \in Int /\ start \in Int /\ end \in Int /\ cursor \in Int /\ since \in Int
  /\ frequency \in Frequency
  /\ exists \in BOOLEAN /\ active \in BOOLEAN /\ mistaken \in BOOLEAN
  /\ rows \subseteq Int /\ edits \in 0..MaxEdits
  /\ pc \in [Requests -> {"idle", "insert", "cursor"}]
  /\ snap \in [Requests -> Snapshot \cup {None}]
  /\ horizon \in [Requests -> Int]
  /\ \A r \in Requests : pc[r] # "idle" => snap[r] # None

\* d is an occurrence of the schedule as it was last changed.
Scheduled(d) == d = since \/ Follows(d, since, start, frequency)

\* Every occurrence the cursor has passed since the schedule was last changed has
\* a row (or had one that the user deleted): no crash, second generation, short
\* month or edit skips one, unless a generation took the changed schedule for the
\* one it had read.
NoOccurrenceSkipped ==
  exists /\ ~mistaken => \A d \in since..(cursor - 1) : Scheduled(d) => d \in rows

\* The cursor is an occurrence of the current schedule, by the same exception.  In
\* particular a short month does not move the later occurrences off the start day.
CursorOnSchedule == ~mistaken => Scheduled(cursor)

\* Both hold after every step, and only a restart of the schedule moves the cursor back:
\* of two generations that read the same rule, the one with the older horizon cannot
\* undo the other.
CursorKeepsSchedule ==
  [][NoOccurrenceSkipped' /\ CursorOnSchedule' /\ (cursor' >= cursor \/ cursor' = start')]_vars

\* What the comment on the compare-and-swap says: a generation does not overwrite
\* the schedule a user has set meanwhile.
EditIsKept == Scheduled(cursor)
=============================================================================
