------------------------------ MODULE Calendar ------------------------------
(***************************************************************************)
(* Calendar dates as numbers of days, and the recurrences on them          *)
(* (server/src/utils/recurrence.ts).  The months an instance covers have   *)
(* the lengths MonthLength, Year of them make a year and Week days a week. *)
(***************************************************************************)
EXTENDS Integers, Sequences

CONSTANTS MonthLength, Week, Year

ASSUME CalendarAssumption ==
  /\ MonthLength \in Seq(Nat \ {0})
  /\ Week \in Nat \ {0} /\ Year \in Nat \ {0}

Frequency == {"DAILY", "WEEKLY", "MONTHLY", "YEARLY"}

\* The first day of a month; day 1 is the first day of month 1.
FirstOf[m \in Nat] == IF m <= 1 THEN 1 ELSE FirstOf[m - 1] + MonthLength[m - 1]

\* The calendar goes on for two years after the month of a day, far enough for what follows it.
Covers(day) ==
  day \in Nat /\ Len(MonthLength) >= 2 * Year /\ day < FirstOf[Len(MonthLength) - 2 * Year + 2]

\* getUTCMonth counted from the first year, getUTCDate, and their place in a year.
Month(d) == CHOOSE m \in DOMAIN MonthLength : d \in FirstOf[m]..(FirstOf[m] + MonthLength[m] - 1)
DayOfMonth(d) == d - FirstOf[Month(d)] + 1
YearOf(m)      == (m - 1) \div Year
MonthOfYear(m) == (m - 1) % Year

\* Faulty: a day that month m does not have runs over into the next month.
Overflowing(m, day) == FirstOf[m] + day - 1

\* The given day of month m, or the last one it has.
Clamped(m, day) ==
  FirstOf[m] + (IF day < MonthLength[m] THEN day ELSE MonthLength[m]) - 1

\* The month of the anchor in year y.
AnchorMonth(a, y) == y * Year + MonthOfYear(Month(a)) + 1

\* The occurrence after d of a rule whose startDate is a.
nextOccurrenceAfter(d, a, frequency) ==
  CASE frequency = "DAILY"   -> d + 1
    [] frequency = "WEEKLY"  -> d + Week
    [] frequency = "MONTHLY" -> Clamped(Month(d) + 1, DayOfMonth(a))
    [] frequency = "YEARLY"  -> Clamped(AnchorMonth(a, YearOf(Month(d)) + 1), DayOfMonth(a))

\* clampToMonths and clampToYears: that many months or years after the anchor.
Months(a, n) == Clamped(Month(a) + n, DayOfMonth(a))

\* Faulty: a date that is due on the very day it is asked for is taken again.
advanceObligationLate(a, c, frequency) ==
  IF frequency = "MONTHLY" THEN Months(a, Month(c) - Month(a)) ELSE c + 1

\* The due date after c of a bill or subscription whose anchor is a.
advanceObligation(a, c, frequency) ==
  LET unit    == IF frequency = "YEARLY" THEN Year ELSE 1
      months  == IF frequency = "YEARLY" THEN (YearOf(Month(c)) - YearOf(Month(a))) * Year
                                         ELSE Month(c) - Month(a)
      same    == Months(a, months)
  IN  CASE c < a                  -> a
        [] c >= a /\ frequency = "DAILY"  -> c + 1
        [] c >= a /\ frequency = "WEEKLY" -> a + ((c - a) \div Week + 1) * Week
        [] c >= a /\ frequency \in {"MONTHLY", "YEARLY"} ->
             IF same <= c THEN Months(a, months + unit) ELSE same
-----------------------------------------------------------------------------
(* The same schedule, described without counting.                         *)

\* d has the anchor's day of the month, or ends a month that lacks it.
FallsOn(d, a) ==
  \/ DayOfMonth(d) = DayOfMonth(a)
  \/ DayOfMonth(d) < DayOfMonth(a) /\ DayOfMonth(d) = MonthLength[Month(d)]

\* d comes after the occurrence c on the schedule anchored at a.
Follows(d, c, a, frequency) ==
  /\ d > c
  /\ frequency = "WEEKLY"  => (d - c) % Week = 0
  /\ frequency = "MONTHLY" => Month(d) > Month(c) /\ FallsOn(d, a)
  /\ frequency = "YEARLY"  => /\ YearOf(Month(d)) > YearOf(Month(c)) /\ FallsOn(d, a)
                              /\ MonthOfYear(Month(d)) = MonthOfYear(Month(a))

\* d is on the schedule anchored at a.
OnSchedule(d, a, frequency) == d = a \/ Follows(d, a, a, frequency)
=============================================================================
