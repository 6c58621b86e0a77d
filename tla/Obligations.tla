----------------------------- MODULE Obligations -----------------------------
(***************************************************************************)
(* A bill or a subscription: a row with the date it is due next, which is  *)
(* advanced when it is paid or renewed.  Every request reads the row, and  *)
(* writes a later statement with values computed from what it read.        *)
(*                                                                         *)
(* Left out: name, amount, autoPay, and the category, which is only looked *)
(* up between the two statements.                                          *)
(***************************************************************************)
EXTENDS Concurrency, Calendar

CONSTANTS MaxDay,       \* bound on the dates that are asked for or advanced
          MaxPayments,  \* bound on the payments between two changes of the schedule
          MaxEdits,     \* bound on the changes of the schedule
          Changes       \* the bodies of the PATCH requests that are exercised: records
                        \* of some of the fields status, anchor, next and frequency

Days == 1..MaxDay

BillStatus         == {"PENDING", "PAID", "OVERDUE", "CANCELLED"}
SubscriptionStatus == {"ACTIVE", "PAUSED", "EXPIRED", "CANCELLED"}

VARIABLES
  kind,     \* "bill" or "subscription"
  exists,
  item,     \* the row; its anchor is its dueDate or createdAt
  pc, snap, \* of a request: its statement, the row it read
  reach,    \* the dates that payments since the last change of schedule account for (history)
  edition,  \* changes of schedule so far (history)
  lost      \* a payment took a changed schedule for the one it had read (history)

Statuses == IF kind = "bill" THEN BillStatus ELSE SubscriptionStatus

history == <<reach, edition, lost>>
vars == <<kind, exists, item, pc, snap, history>>

Init ==
  /\ kind \in {"bill", "subscription"}
  /\ exists = TRUE
  /\ \E anchor \in Days, next \in Days, f \in Frequency :
       item = [anchor |-> anchor, next |-> next, frequency |-> f,
               status |-> IF kind = "bill" THEN "PENDING" ELSE "ACTIVE"]
  /\ pc = [r \in Requests |-> "idle"]
  /\ snap = [r \in Requests |-> None]
  /\ reach = <<item.next>>
  /\ edition = 0
  /\ lost = FALSE

\* findUserBill and findUserSubscription; a renewal is refused here unless the
\* subscription is active.
Read(r, operation) ==
  /\ pc[r] = "idle"
  /\ exists /\ item.next <= MaxDay
  /\ operation = "renew" => kind = "subscription" /\ item.status = "ACTIVE"
  /\ pc' = [pc EXCEPT ![r] = operation]
  /\ snap' = [snap EXCEPT ![r] = [row |-> item, edition |-> edition]]
  /\ UNCHANGED <<kind, exists, item, history>>

Answer(r) ==
  /\ pc' = [pc EXCEPT ![r] = "idle"]
  /\ snap' = [snap EXCEPT ![r] = None]

\* The row after an update with the fields of a body c.
With(row, c) == [f \in DOMAIN row |-> IF f \in DOMAIN c THEN c[f] ELSE row[f]]

Advanced(row) == advanceObligation(row.anchor, row.next, row.frequency)

\* The fields of a body c, and the date that is due next.
Also(c, date) == [f \in DOMAIN c \cup {"next"} |-> IF f = "next" THEN date ELSE c[f]]

\* Faulty: a bill that is already paid is advanced again.
BodyAlways(row, c) ==
  IF "next" \in DOMAIN c THEN c
  ELSE IF "status" \in DOMAIN c /\ c.status = "PAID"
       THEN Also(c, Advanced(With(row, c)))
  ELSE IF "anchor" \in DOMAIN c THEN Also(c, c.anchor) ELSE c

\* The fields that updateBill writes: the rules for nextDueDate are decided on the
\* row that was read, and a subscription has no such rules.
Body(row, c) ==
  IF kind = "subscription" \/ "next" \in DOMAIN c THEN c
  ELSE IF "status" \in DOMAIN c /\ c.status = "PAID" /\ row.status # "PAID"
       THEN Also(c, Advanced(With(row, c)))
  ELSE IF "anchor" \in DOMAIN c THEN Also(c, c.anchor) ELSE c

\* A payment or renewal accounts for one more date.
Account ==
  /\ Len(reach) <= MaxPayments /\ reach[Len(reach)] <= MaxDay
  /\ reach' = Append(reach, Advanced([item EXCEPT !.next = reach[Len(reach)]]))

\* updateBill, updateSubscription: one UPDATE of the fields that are given.
Update(r, c) ==
  LET written == Body(snap[r].row, c)
      reset   == DOMAIN c # {"status"}
      moves   == "next" \in DOMAIN written /\ ~reset
      payment == kind = "bill" /\ ~reset /\ c.status = "PAID" /\ item.status # "PAID"
  IN  /\ pc[r] = "update"
      /\ exists
      /\ "status" \in DOMAIN c => c.status \in Statuses
      /\ kind = "subscription" => "anchor" \notin DOMAIN c
      /\ item' = With(item, written)
      /\ IF reset THEN /\ edition < MaxEdits /\ edition' = edition + 1
                       /\ reach' = <<item'.next>> /\ lost' = FALSE
         ELSE /\ IF payment THEN Account ELSE UNCHANGED reach
              /\ lost' = (lost \/ (moves /\ snap[r].edition # edition))
              /\ UNCHANGED edition
      /\ Answer(r)
      /\ UNCHANGED <<kind, exists>>

\* advanceSubscriptionRenewal: the next date of the row that was read.
Renew(r) ==
  LET row == snap[r].row
  IN  /\ pc[r] = "renew"
      /\ exists
      /\ item' = [item EXCEPT !.next = Advanced(row)]
      /\ Account
      /\ lost' = (lost \/ snap[r].edition # edition)
      /\ Answer(r)
      /\ UNCHANGED <<kind, exists, edition>>

\* The row is gone (P2025), or the process stops.
Fail(r) ==
  /\ pc[r] # "idle"
  /\ Answer(r)
  /\ UNCHANGED <<kind, exists, item, history>>

DeleteItem ==
  /\ exists
  /\ exists' = FALSE
  /\ UNCHANGED <<kind, item, pc, snap, history>>

Next ==
  \/ \E r \in Requests :
       \/ \E operation \in {"update", "renew"} : Read(r, operation)
       \/ \E c \in Changes : Update(r, c)
       \/ Renew(r)
       \/ Fail(r)
  \/ DeleteItem

Spec == Init /\ [][Next]_vars
-----------------------------------------------------------------------------
Row == [anchor : Days, next : Nat \ {0}, frequency : Frequency, status : BillStatus \cup SubscriptionStatus]
Snapshot == [row : Row, edition : Nat]

TypeOK ==
  /\ kind \in {"bill", "subscription"} /\ exists \in BOOLEAN
  /\ item \in Row /\ item.status \in Statuses
  /\ pc \in [Requests -> {"idle", "update", "renew"}] /\ snap \in [Requests -> Snapshot \cup {None}]
  /\ \A r \in Requests : pc[r] = "idle" <=> snap[r] = None
  /\ reach \in Seq(Nat \ {0}) /\ edition \in 0..MaxEdits /\ lost \in BOOLEAN

\* However payments, corrections of the status and double submissions interleave,
\* a due date is never further on than the payments and renewals since the last
\* change of the schedule account for: reading before writing may lose an advance,
\* but never adds one.
NeverAheadOfPayments == lost \/ \E i \in DOMAIN reach : item.next = reach[i]

\* Whatever date a bill or subscription has, advancing it reaches the first date of
\* its schedule after that one, or the anchor itself: no occurrence is skipped, and a
\* month too short for the anchor's day does not move the later ones.
AdvancesByOneOccurrence ==
  \A i \in DOMAIN reach \ {1} :
    LET from == reach[i - 1]
    IN  /\ reach[i] > from
        /\ OnSchedule(reach[i], item.anchor, item.frequency)
        /\ \A d \in (from + 1)..(reach[i] - 1) : ~OnSchedule(d, item.anchor, item.frequency)
=============================================================================
