---------------------------- MODULE HabitPeriods ----------------------------
(***************************************************************************)
(* The calendar of habits and the numbers derived from it.  Days are       *)
(* numbers and a frequency is the length of its period, counted from day   *)
(* 0: 1 for DAILY, 7 for WEEKLY.  A completion is stored under the first   *)
(* day of its period, its anchor.                                          *)
(***************************************************************************)
EXTENDS Integers, SequencesExt

CONSTANT Frequencies
ASSUME FrequencyAssumption == Frequencies \subseteq Nat \ {0}

NoEnd == -1   \* the endDate of a habit that has none

\* habitPeriodAnchor.
Anchor(f, d) == d - (d % f)

\* eligiblePeriodBounds: from the start to the end date or today.
LastDay(end, today) == IF end # NoEnd /\ end < today THEN end ELSE today
Bounds(f, start, end, today) ==
  [from |-> Anchor(f, start), to |-> Anchor(f, LastDay(end, today))]

\* Faulty: the first period is not counted.
EligibleBetween(f, start, end, today) ==
  LET b == Bounds(f, start, end, today)
  IN IF b.to < b.from THEN 0 ELSE (b.to - b.from) \div f

\* eligiblePeriodCount: arithmetic, without listing the periods.
EligibleCount(f, start, end, today) ==
  LET b == Bounds(f, start, end, today)
  IN IF b.to < b.from THEN 0 ELSE (b.to - b.from) \div f + 1

\* The numbers of a finite set, the smallest first.
Ascending(S) ==
  [i \in 1..Cardinality(S) |-> CHOOSE a \in S : Cardinality({b \in S : b < a}) = i - 1]

\* normalizeCompletionAnchors, and the filter of calculateHabitProgress.
InRange(f, start, end, today, dates) ==
  LET b == Bounds(f, start, end, today)
      anchors == {Anchor(f, d) : d \in dates}
  IN Ascending({a \in anchors : b.from <= a /\ a <= b.to})

\* Faulty: neighbours are a day apart, whatever the frequency.
RunsOfDays(f, s) ==
  LET run[i \in 1..Len(s)] ==
        IF i > 1 /\ s[i - 1] = s[i] - 1 THEN run[i - 1] + 1 ELSE 1
  IN run

\* The length of the run of consecutive periods that ends at each completion.
Runs(f, s) ==
  LET run[i \in 1..Len(s)] ==
        IF i > 1 /\ s[i - 1] = s[i] - f THEN run[i - 1] + 1 ELSE 1
  IN run

currentStreak(f, s) == IF s = <<>> THEN 0 ELSE Runs(f, s)[Len(s)]
longestStreak(f, s) == Max({0} \cup {Runs(f, s)[i] : i \in 1..Len(s)})

\* getHabitProgressHistory: every eligible period, and whether it is completed.
Periods(f, start, end, today) ==
  LET b == Bounds(f, start, end, today)
  IN {a \in b.from..b.to : (a - b.from) % f = 0}
CompletedPeriods(f, start, end, today, dates) ==
  Periods(f, start, end, today) \cap {Anchor(f, d) : d \in dates}
=============================================================================
