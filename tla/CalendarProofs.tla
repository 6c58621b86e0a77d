---------------------------- MODULE CalendarProofs ----------------------------
(***************************************************************************)
(* The calendar and its recurrences, for months of any lengths.            *)
(*                                                                         *)
(* What FirstOf computes by recursion is found by induction over the       *)
(* months.  No theorem of the library that takes an operator is needed for *)
(* this: the days or months a claim holds of are a set, and a set without  *)
(* a least element is empty (LeastNumber).  From the months follow the     *)
(* numbers of a day (its month, its year, its day in the month), and from  *)
(* these that both ways of going on reach the next day of the schedule.    *)
(***************************************************************************)
EXTENDS Calendar, HabitPeriods, FiniteSetTheorems, WellFoundedInduction, TLAPS

-----------------------------------------------------------------------------
(* Induction, as a fact about sets.                                        *)

LEMMA LeastNumber ==
  ASSUME NEW S \in SUBSET Nat, S # {}
  PROVE  \E m \in S : \A n \in S : m <= n
<1>1. PICK m \in S : \A n \in S : ~(<<n, m>> \in OpToRel(<, Nat))
  BY NatLessThanWellFounded, WFMin
<1>2. \A n \in S : ~(n < m)
  BY <1>1 DEF OpToRel
<1> QED
  BY <1>2

LEMMA Induction ==
  ASSUME NEW S, 0 \in S, \A n \in Nat : n \in S => n + 1 \in S
  PROVE  Nat \subseteq S
<1> SUFFICES ASSUME Nat \ S # {} PROVE FALSE
  OBVIOUS
<1>1. PICK m \in Nat \ S : \A n \in Nat \ S : m <= n
  BY LeastNumber
<1>2. m - 1 \in Nat /\ m - 1 \notin S
  BY <1>1
<1> QED
  BY <1>1, <1>2
-----------------------------------------------------------------------------
(* The months.                                                             *)

Upto(g, m) == IF m <= 1 THEN 1 ELSE g[m - 1] + MonthLength[m - 1]
Begun(g, n) == g = [m \in 0..n |-> Upto(g, m)]

LEMMA BegunOnce ==
  ASSUME NEW n \in Nat, NEW k \in Nat, NEW g, NEW h, Begun(g, n), Begun(h, k), n <= k
  PROVE  \A m \in 0..n : g[m] = h[m]
<1> DEFINE S == {m \in Nat : m <= n => g[m] = h[m]}
<1>1. \A m \in 0..n : g[m] = Upto(g, m) /\ h[m] = Upto(h, m)
  BY DEF Begun
<1>2. 0 \in S
  BY <1>1 DEF Upto
<1>3. \A m \in Nat : m \in S => m + 1 \in S
  <2> SUFFICES ASSUME NEW m \in Nat, m \in S, m + 1 <= n PROVE g[m + 1] = h[m + 1]
    OBVIOUS
  <2>1. g[m + 1] = Upto(g, m + 1) /\ h[m + 1] = Upto(h, m + 1) /\ g[m] = h[m]
    BY <1>1
  <2> QED
    BY <2>1 DEF Upto
<1> HIDE DEF S
<1>4. Nat \subseteq S
  BY <1>2, <1>3, Induction
<1> QED
  BY <1>4 DEF S

LEMMA BegunSome == \A n \in Nat : \E g : Begun(g, n)
<1> DEFINE S == {n \in Nat : \E g : Begun(g, n)}
<1>1. 0 \in S
  <2>1. Begun([m \in 0..0 |-> 1], 0)
    BY DEF Begun, Upto
  <2> QED
    BY <2>1
<1>2. \A n \in Nat : n \in S => n + 1 \in S
  <2> SUFFICES ASSUME NEW n \in Nat, NEW g, Begun(g, n) PROVE \E h : Begun(h, n + 1)
    OBVIOUS
  <2> DEFINE h == [m \in 0..(n + 1) |-> IF m <= n THEN g[m] ELSE Upto(g, n + 1)]
  <2>1. \A m \in 0..n : g[m] = Upto(g, m)
    BY DEF Begun
  <2>2. \A m \in 0..(n + 1) : h[m] = Upto(h, m)
    BY <2>1 DEF Upto
  <2>3. Begun(h, n + 1)
    BY <2>2 DEF Begun
  <2> QED
    BY <2>3
<1> HIDE DEF S
<1>3. Nat \subseteq S
  BY <1>1, <1>2, Induction
<1> QED
  BY <1>3 DEF S

LEMMA FirstOfIs == FirstOf = [m \in Nat |-> IF m <= 1 THEN 1 ELSE FirstOf[m - 1] + MonthLength[m - 1]]
<1> DEFINE G(n) == CHOOSE g : Begun(g, n)
           F == [n \in Nat |-> G(n)[n]]
<1>1. \A n \in Nat : Begun(G(n), n)
  BY BegunSome
<1> HIDE DEF G
<1>2. \A n \in Nat : F[n] = Upto(F, n)
  <2> SUFFICES ASSUME NEW n \in Nat PROVE F[n] = Upto(F, n)
    OBVIOUS
  <2>1. G(n)[n] = Upto(G(n), n)
    BY <1>1 DEF Begun
  <2>2. n > 1 => G(n)[n - 1] = G(n - 1)[n - 1]
    BY <1>1, BegunOnce
  <2> QED
    BY <2>1, <2>2 DEF Upto
<1>3. F = [m \in Nat |-> IF m <= 1 THEN 1 ELSE F[m - 1] + MonthLength[m - 1]]
  BY <1>2 DEF Upto
<1> HIDE DEF F
<1> QED
  BY <1>3 DEF FirstOf

LastMonth == Len(MonthLength)

\* A day the calendar has.
Dates == 1..(FirstOf[LastMonth + 1] - 1)

LEMMA FirstDays ==
  /\ FirstOf[1] = 1
  /\ \A m \in 1..LastMonth : FirstOf[m + 1] = FirstOf[m] + MonthLength[m] /\ MonthLength[m] \in Nat \ {0}
<1>1. \A m \in Nat : FirstOf[m] = IF m <= 1 THEN 1 ELSE FirstOf[m - 1] + MonthLength[m - 1]
  BY FirstOfIs
<1>2. LastMonth \in Nat /\ MonthLength \in [1..LastMonth -> Nat \ {0}]
  BY CalendarAssumption DEF LastMonth
<1> QED
  BY <1>1, <1>2

LEMMA LastMonthIs == LastMonth \in Nat
BY CalendarAssumption DEF LastMonth

LEMMA FirstOfType == \A m \in 1..(LastMonth + 1) : FirstOf[m] \in Nat \ {0}
<1> DEFINE S == {n \in Nat : n <= LastMonth => FirstOf[n + 1] \in Nat \ {0}}
<1>1. 0 \in S
  BY FirstDays
<1>2. \A n \in Nat : n \in S => n + 1 \in S
  <2> SUFFICES ASSUME NEW n \in Nat, n \in S, n + 1 <= LastMonth PROVE FirstOf[n + 2] \in Nat \ {0}
    OBVIOUS
  <2>1. FirstOf[n + 1] \in Nat \ {0}
    BY LastMonthIs
  <2>2. FirstOf[(n + 1) + 1] = FirstOf[n + 1] + MonthLength[n + 1] /\ MonthLength[n + 1] \in Nat \ {0}
    BY FirstDays, LastMonthIs
  <2> QED
    BY <2>1, <2>2
<1> HIDE DEF S
<1>3. Nat \subseteq S
  BY <1>1, <1>2, Induction
<1> SUFFICES ASSUME NEW m \in 1..(LastMonth + 1) PROVE FirstOf[m] \in Nat \ {0}
  OBVIOUS
<1>4. m - 1 \in Nat /\ m - 1 <= LastMonth
  BY LastMonthIs
<1> QED
  BY <1>3, <1>4 DEF S

LEMMA FirstOfGrows == \A k, m \in 1..(LastMonth + 1) : k < m => FirstOf[k] < FirstOf[m]
<1> SUFFICES ASSUME NEW k \in 1..(LastMonth + 1) PROVE \A m \in 1..(LastMonth + 1) : k < m => FirstOf[k] < FirstOf[m]
  OBVIOUS
<1> DEFINE S == {n \in Nat : k < n /\ n <= LastMonth + 1 => FirstOf[k] < FirstOf[n]}
<1>1. 0 \in S
  OBVIOUS
<1>2. \A n \in Nat : n \in S => n + 1 \in S
  <2> SUFFICES ASSUME NEW n \in Nat, n \in S, k < n + 1, n + 1 <= LastMonth + 1 PROVE FirstOf[k] < FirstOf[n + 1]
    OBVIOUS
  <2>1. n \in 1..LastMonth /\ (k = n \/ k < n)
    BY LastMonthIs
  <2>2. FirstOf[n + 1] = FirstOf[n] + MonthLength[n] /\ MonthLength[n] \in Nat \ {0}
    BY <2>1, FirstDays
  <2>3. FirstOf[k] \in Nat /\ FirstOf[n] \in Nat
    BY <2>1, FirstOfType, LastMonthIs
  <2>4. k = n \/ FirstOf[k] < FirstOf[n]
    BY <2>1, LastMonthIs
  <2> QED
    BY <2>2, <2>3, <2>4
<1> HIDE DEF S
<1>3. Nat \subseteq S
  BY <1>1, <1>2, Induction
<1> QED
  BY <1>3, LastMonthIs DEF S

\* A day lies in one month.
LEMMA MonthOf ==
  ASSUME NEW d \in Dates
  PROVE  /\ Month(d) \in 1..LastMonth /\ FirstOf[Month(d)] <= d /\ d < FirstOf[Month(d) + 1]
         /\ \A m \in 1..LastMonth : FirstOf[m] <= d /\ d < FirstOf[m + 1] => m = Month(d)
<1> DEFINE In(m) == FirstOf[m] <= d /\ d < FirstOf[m + 1]
           S == {n \in Nat : n \in 1..(LastMonth + 1) /\ d < FirstOf[n]}
<1>0. FirstOf[LastMonth + 1] \in Nat /\ d \in Nat /\ 1 <= d /\ d < FirstOf[LastMonth + 1]
  BY FirstOfType, LastMonthIs DEF Dates
<1>1. \E m \in 1..LastMonth : In(m)
  <2>1. LastMonth + 1 \in S
    BY <1>0, LastMonthIs
  <2>2. PICK n \in S : \A k \in S : n <= k
    BY <2>1, LeastNumber
  <2>3. n # 1
    BY <1>0, FirstDays
  <2>4. n - 1 \in 1..LastMonth /\ n - 1 \notin S
    BY <2>2, <2>3, LastMonthIs
  <2>5. FirstOf[n - 1] \in Nat
    BY <2>4, FirstOfType, LastMonthIs
  <2>6. In(n - 1)
    BY <1>0, <2>4, <2>5, LastMonthIs
  <2> QED
    BY <2>4, <2>6
<1>2. \A m, k \in 1..LastMonth : In(m) /\ In(k) => m = k
  <2> SUFFICES ASSUME NEW m \in 1..LastMonth, NEW k \in 1..LastMonth, In(m), In(k), m < k PROVE FALSE
    BY LastMonthIs
  <2>1. m + 1 <= k /\ FirstOf[m + 1] \in Nat /\ FirstOf[k] \in Nat
    BY FirstOfType, LastMonthIs
  <2>2. FirstOf[m + 1] <= FirstOf[k]
    BY <2>1, FirstOfGrows, LastMonthIs
  <2> QED
    BY <1>0, <2>1, <2>2
<1>3. DOMAIN MonthLength = 1..LastMonth
  BY CalendarAssumption DEF LastMonth
<1>4. \A m \in 1..LastMonth : d \in FirstOf[m]..(FirstOf[m] + MonthLength[m] - 1) <=> In(m)
  <2> SUFFICES ASSUME NEW m \in 1..LastMonth PROVE d \in FirstOf[m]..(FirstOf[m] + MonthLength[m] - 1) <=> In(m)
    OBVIOUS
  <2>1. FirstOf[m] \in Nat /\ FirstOf[m + 1] = FirstOf[m] + MonthLength[m] /\ MonthLength[m] \in Nat
    BY FirstDays, FirstOfType, LastMonthIs
  <2> QED
    BY <1>0, <2>1
<1> HIDE DEF In
<1>5. Month(d) = CHOOSE m \in 1..LastMonth : In(m)
  <2>1. \A m : m \in 1..LastMonth /\ d \in FirstOf[m]..(FirstOf[m] + MonthLength[m] - 1) <=> m \in 1..LastMonth /\ In(m)
    BY <1>4
  <2> QED
    BY <1>3, <2>1 DEF Month
<1>6. Month(d) \in 1..LastMonth /\ In(Month(d))
  BY <1>1, <1>5
<1> QED
  BY <1>2, <1>6 DEF In

LEMMA MonthsGrow ==
  ASSUME NEW d \in Dates, NEW e \in Dates, d <= e
  PROVE  Month(d) <= Month(e)
<1> SUFFICES ASSUME Month(e) < Month(d) PROVE FALSE
  BY MonthOf, LastMonthIs
<1>1. Month(d) \in 1..LastMonth /\ Month(e) + 1 \in 1..(LastMonth + 1) /\ Month(e) + 1 <= Month(d)
  BY MonthOf, LastMonthIs
<1>2. FirstOf[Month(e) + 1] <= FirstOf[Month(d)]
  BY <1>1, FirstOfGrows, FirstOfType, LastMonthIs
<1>3. FirstOf[Month(d)] <= d /\ e < FirstOf[Month(e) + 1]
  BY MonthOf
<1> QED
  BY <1>1, <1>2, <1>3, FirstOfType, LastMonthIs DEF Dates

LEMMA DayOfMonthIs ==
  ASSUME NEW d \in Dates
  PROVE  DayOfMonth(d) \in 1..MonthLength[Month(d)] /\ d = FirstOf[Month(d)] + DayOfMonth(d) - 1
<1>1. Month(d) \in 1..LastMonth /\ FirstOf[Month(d)] <= d /\ d < FirstOf[Month(d) + 1]
  BY MonthOf
<1>2. FirstOf[Month(d)] \in Nat /\ FirstOf[Month(d) + 1] = FirstOf[Month(d)] + MonthLength[Month(d)]
        /\ MonthLength[Month(d)] \in Nat
  BY <1>1, FirstDays, FirstOfType, LastMonthIs
<1> QED
  BY <1>1, <1>2 DEF Dates, DayOfMonth

\* The day of a month that Clamped gives lies in that month.
LEMMA ClampedIn ==
  ASSUME NEW m \in 1..LastMonth, NEW day \in Nat \ {0}
  PROVE  /\ Clamped(m, day) \in Dates /\ Month(Clamped(m, day)) = m
         /\ DayOfMonth(Clamped(m, day)) = IF day < MonthLength[m] THEN day ELSE MonthLength[m]
<1>1. FirstOf[m] \in Nat \ {0} /\ FirstOf[m + 1] = FirstOf[m] + MonthLength[m] /\ MonthLength[m] \in Nat \ {0}
  BY FirstDays, FirstOfType, LastMonthIs
<1>2. FirstOf[m + 1] <= FirstOf[LastMonth + 1] /\ FirstOf[m + 1] \in Nat /\ FirstOf[LastMonth + 1] \in Nat
  BY FirstOfGrows, FirstOfType, LastMonthIs
<1>3. Clamped(m, day) \in Nat /\ FirstOf[m] <= Clamped(m, day) /\ Clamped(m, day) < FirstOf[m + 1]
  BY <1>1 DEF Clamped
<1>4. Clamped(m, day) \in Dates
  BY <1>1, <1>2, <1>3 DEF Dates
<1>5. Month(Clamped(m, day)) = m
  BY <1>3, <1>4, MonthOf
<1> QED
  BY <1>1, <1>4, <1>5 DEF DayOfMonth, Clamped

\* A day falls on an anchor exactly if clamping the anchor's day gives it.
LEMMA FallsOnIs ==
  ASSUME NEW d \in Dates, NEW a \in Dates
  PROVE  FallsOn(d, a) <=> d = Clamped(Month(d), DayOfMonth(a))
<1>1. DayOfMonth(a) \in Nat \ {0} /\ Month(d) \in 1..LastMonth
  BY DayOfMonthIs, MonthOf, FirstDays, LastMonthIs
<1>2. MonthLength[Month(d)] \in Nat /\ FirstOf[Month(d)] \in Nat
  BY <1>1, FirstDays, FirstOfType, LastMonthIs
<1>3. DayOfMonth(d) \in 1..MonthLength[Month(d)] /\ d = FirstOf[Month(d)] + DayOfMonth(d) - 1
  BY DayOfMonthIs
<1> QED
  BY <1>1, <1>2, <1>3 DEF FallsOn, Clamped
-----------------------------------------------------------------------------
(* Numbers that are counted in groups: weeks of days, years of months.     *)

LEMMA Division ==
  ASSUME NEW x \in Int, NEW n \in Nat \ {0}
  PROVE  x \div n \in Int /\ x % n \in 0..(n - 1) /\ x = n * (x \div n) + (x % n)
OBVIOUS

LEMMA MoreTimes ==
  ASSUME NEW n \in Nat, NEW p \in Int, NEW q \in Int, p < q
  PROVE  n * p \in Int /\ n * q \in Int /\ n * p + n <= n * q
<1>1. q - p - 1 \in Nat
  OBVIOUS
<1>2. n * (q - p - 1) >= 0
  BY <1>1
<1>3. n * (q - p - 1) = n * q - n * p - n
  OBVIOUS
<1> QED
  BY <1>2, <1>3

LEMMA DivisionUnique ==
  ASSUME NEW n \in Nat \ {0}, NEW q \in Int, NEW r \in 0..(n - 1)
  PROVE  (n * q + r) \div n = q /\ (n * q + r) % n = r
<1> DEFINE x == n * q + r
           p == x \div n
           s == x % n
<1>1. x \in Int
  OBVIOUS
<1>2. p \in Int /\ s \in 0..(n - 1) /\ x = n * p + s
  BY <1>1, Division
<1> HIDE DEF p, s
<1>3. n * q + r = n * p + s /\ n * q \in Int /\ n * p \in Int
  BY <1>2
<1> HIDE DEF x
<1>4. ~(p < q)
  <2>1. p < q => n * p + n <= n * q
    BY <1>2, MoreTimes
  <2> QED
    BY <1>2, <1>3, <2>1
<1>5. ~(q < p)
  <2>1. q < p => n * q + n <= n * p
    BY <1>2, MoreTimes
  <2> QED
    BY <1>2, <1>3, <2>1
<1>6. p = q
  BY <1>2, <1>4, <1>5
<1>7. s = r
  BY <1>2, <1>3, <1>6
<1> QED
  BY <1>6, <1>7 DEF p, s

\* The place of a month in its year.
LEMMA YearIs ==
  ASSUME NEW m \in Nat \ {0}
  PROVE  YearOf(m) \in Nat /\ MonthOfYear(m) \in 0..(Year - 1) /\ m = YearOf(m) * Year + MonthOfYear(m) + 1
<1>1. m - 1 \in Nat /\ Year \in Nat \ {0}
  BY CalendarAssumption
<1> DEFINE q == (m - 1) \div Year
           k == (m - 1) % Year
<1>0. q \in Int /\ k \in 0..(Year - 1) /\ m - 1 = Year * q + k
  <2>1. \A x \in Int : x \div Year \in Int /\ x % Year \in 0..(Year - 1) /\ x = Year * (x \div Year) + (x % Year)
    BY <1>1, Division
  <2>2. m - 1 \in Int
    BY <1>1
  <2> HIDE <1>1
  <2> QED
    BY <2>1, <2>2, Zenon
<1> HIDE DEF q, k
<1>2. YearOf(m) \in Int /\ MonthOfYear(m) \in 0..(Year - 1) /\ m - 1 = Year * YearOf(m) + MonthOfYear(m)
  <2>1. YearOf(m) = q /\ MonthOfYear(m) = k
    BY DEF YearOf, MonthOfYear, q, k
  <2> QED
    BY <1>0, <2>1
<1>3. YearOf(m) \in Nat
  <2>1. YearOf(m) < 0 => Year * YearOf(m) + Year <= Year * 0
    BY <1>1, <1>2, MoreTimes
  <2> QED
    BY <1>1, <1>2, <2>1
<1>4. Year * YearOf(m) = YearOf(m) * Year /\ Year * YearOf(m) \in Int
  BY <1>1, <1>2
<1> QED
  BY <1>2, <1>3, <1>4

LEMMA YearUnique ==
  ASSUME NEW y \in Nat, NEW k \in 0..(Year - 1)
  PROVE  y * Year + k + 1 \in Nat /\ YearOf(y * Year + k + 1) = y /\ MonthOfYear(y * Year + k + 1) = k
<1>1. Year \in Nat \ {0} /\ y * Year = Year * y /\ Year * y \in Nat
  BY CalendarAssumption
<1>2. (Year * y + k) \div Year = y /\ (Year * y + k) % Year = k
  BY <1>1, DivisionUnique
<1>3. (y * Year + k + 1) - 1 = Year * y + k
  BY <1>1
<1> QED
  BY <1>1, <1>2, <1>3 DEF YearOf, MonthOfYear

LEMMA YearsGrow ==
  ASSUME NEW m \in Nat \ {0}, NEW k \in Nat \ {0}, m <= k
  PROVE  YearOf(m) <= YearOf(k)
<1>1. Year \in Nat \ {0}
  BY CalendarAssumption
<1>2. YearOf(k) < YearOf(m) => Year * YearOf(k) + Year <= Year * YearOf(m)
  <2>1. YearOf(k) \in Int /\ YearOf(m) \in Int
    BY YearIs
  <2> QED
    BY <1>1, <2>1, MoreTimes
<1>3. /\ m = YearOf(m) * Year + MonthOfYear(m) + 1 /\ MonthOfYear(m) \in 0..(Year - 1) /\ YearOf(m) \in Nat
      /\ k = YearOf(k) * Year + MonthOfYear(k) + 1 /\ MonthOfYear(k) \in 0..(Year - 1) /\ YearOf(k) \in Nat
  BY YearIs
<1>4. YearOf(m) * Year = Year * YearOf(m) /\ YearOf(k) * Year = Year * YearOf(k)
  BY <1>1, <1>3
<1> QED
  BY <1>1, <1>2, <1>3, <1>4

\* Sums and differences of multiples are multiples.
LEMMA Multiples ==
  ASSUME NEW n \in Nat \ {0}, NEW x \in Int, NEW y \in Int, x % n = 0, y % n = 0
  PROVE  (x + y) % n = 0 /\ (x - y) % n = 0
<1> DEFINE p == x \div n
           q == y \div n
<1>1. p \in Int /\ q \in Int /\ x = n * p /\ y = n * q
  BY Division
<1> HIDE DEF p, q
<1>2. n * p + n * q = n * (p + q) + 0 /\ n * p - n * q = n * (p - q) + 0
  BY <1>1
<1>3. (n * (p + q) + 0) % n = 0 /\ (n * (p - q) + 0) % n = 0
  BY <1>1, DivisionUnique
<1> QED
  BY <1>1, <1>2, <1>3

LEMMA NoneBetween ==
  ASSUME NEW n \in Nat \ {0}, NEW x \in 1..(n - 1)
  PROVE  x % n # 0
<1>1. (n * 0 + x) % n = x
  BY DivisionUnique
<1>2. n * 0 + x = x
  OBVIOUS
<1> QED
  BY <1>1, <1>2

LEMMA ItselfMultiple ==
  ASSUME NEW n \in Nat \ {0}
  PROVE  n % n = 0
<1>1. (n * 1 + 0) % n = 0
  BY DivisionUnique
<1>2. n * 1 + 0 = n
  OBVIOUS
<1> QED
  BY <1>1, <1>2
-----------------------------------------------------------------------------
(* Occurrences.                                                            *)

LEMMA CoveredDay ==
  ASSUME NEW limit, Covers(limit), NEW d \in 1..limit
  PROVE  d \in Dates /\ Month(d) \in Nat \ {0} /\ Month(d) + 2 * Year <= LastMonth + 1
<1> DEFINE K == LastMonth - 2 * Year + 2
<1>1. Year \in Nat \ {0} /\ K \in 1..LastMonth
  BY CalendarAssumption, LastMonthIs DEF Covers, LastMonth
<1>2. d \in Nat \ {0} /\ d < FirstOf[K] /\ FirstOf[K] \in Nat /\ FirstOf[LastMonth + 1] \in Nat
  BY <1>1, FirstOfType, LastMonthIs DEF Covers, LastMonth
<1>3. FirstOf[K] < FirstOf[LastMonth + 1]
  BY <1>1, FirstOfGrows, LastMonthIs
<1>4. d \in Dates
  BY <1>2, <1>3 DEF Dates
<1>5. Month(d) \in 1..LastMonth /\ FirstOf[Month(d)] <= d
  BY <1>4, MonthOf
<1>6. Month(d) < K
  <2> SUFFICES ASSUME K <= Month(d) PROVE FALSE
    BY <1>1, <1>5, LastMonthIs
  <2>1. FirstOf[K] <= FirstOf[Month(d)]
    BY <1>1, <1>5, FirstOfGrows, FirstOfType, LastMonthIs
  <2> QED
    BY <1>1, <1>2, <1>5, <2>1, FirstOfType, LastMonthIs
<1> QED
  BY <1>1, <1>4, <1>5, <1>6, LastMonthIs

Counted(f) == f \in {"MONTHLY", "YEARLY"}

\* What follows an occurrence follows what that one follows.
LEMMA FollowsOn ==
  ASSUME NEW x \in Nat, NEW y \in Nat, NEW z \in Nat, NEW a, NEW f,
         Counted(f) => x \in Dates /\ y \in Dates /\ z \in Dates,
         Follows(x, y, a, f), Follows(y, z, a, f)
  PROVE  Follows(x, z, a, f)
<1>1. x > z
  BY DEF Follows
<1>2. CASE f = "WEEKLY"
  <2>0. Week \in Nat \ {0} /\ x - y \in Int /\ y - z \in Int /\ (x - y) % Week = 0 /\ (y - z) % Week = 0
    BY <1>2, CalendarAssumption DEF Follows
  <2>1. ((x - y) + (y - z)) % Week = 0
    BY <2>0, Multiples
  <2>2. (x - y) + (y - z) = x - z
    OBVIOUS
  <2> QED
    BY <1>1, <1>2, <2>1, <2>2 DEF Follows
<1>3. CASE f = "MONTHLY"
  BY <1>1, <1>3, MonthOf, LastMonthIs DEF Follows, Counted
<1>4. CASE f = "YEARLY"
  <2>1. Month(x) \in Nat \ {0} /\ Month(y) \in Nat \ {0} /\ Month(z) \in Nat \ {0}
    BY <1>4, MonthOf, LastMonthIs DEF Counted
  <2>2. YearOf(Month(x)) \in Nat /\ YearOf(Month(y)) \in Nat /\ YearOf(Month(z)) \in Nat
    BY <2>1, YearIs
  <2> QED
    BY <1>1, <1>4, <2>2 DEF Follows
<1> QED
  BY <1>1, <1>2, <1>3, <1>4 DEF Follows

\* Of two occurrences that follow a third, the later follows the earlier.
LEMMA FollowsApart ==
  ASSUME NEW x \in Nat, NEW y \in Nat, NEW z \in Nat, NEW a \in Dates, NEW f,
         Counted(f) => x \in Dates /\ y \in Dates /\ z \in Dates,
         Follows(x, z, a, f), Follows(y, z, a, f), y < x
  PROVE  Follows(x, y, a, f)
<1>1. CASE f = "WEEKLY"
  <2>0. Week \in Nat \ {0} /\ x - z \in Int /\ y - z \in Int /\ (x - z) % Week = 0 /\ (y - z) % Week = 0
    BY <1>1, CalendarAssumption DEF Follows
  <2>1. ((x - z) - (y - z)) % Week = 0
    BY <2>0, Multiples
  <2>2. (x - z) - (y - z) = x - y
    OBVIOUS
  <2> QED
    BY <1>1, <2>1, <2>2 DEF Follows
<1>2. CASE Counted(f)
  <2>1. FallsOn(x, a) /\ FallsOn(y, a)
    BY <1>2 DEF Follows, Counted
  <2>2. x = Clamped(Month(x), DayOfMonth(a)) /\ y = Clamped(Month(y), DayOfMonth(a))
    BY <1>2, <2>1, FallsOnIs
  <2>3. Month(x) \in Nat \ {0} /\ Month(y) \in Nat \ {0} /\ Month(y) <= Month(x) /\ Month(y) # Month(x)
    BY <1>2, <2>2, MonthOf, MonthsGrow, LastMonthIs
  <2>4. CASE f = "MONTHLY"
    BY <2>1, <2>3, <2>4 DEF Follows
  <2>5. CASE f = "YEARLY"
    <3>1. YearOf(Month(x)) \in Nat /\ YearOf(Month(y)) \in Nat /\ YearOf(Month(y)) <= YearOf(Month(x))
      BY <2>3, YearIs, YearsGrow
    <3>2. MonthOfYear(Month(x)) = MonthOfYear(Month(a)) /\ MonthOfYear(Month(y)) = MonthOfYear(Month(a))
      BY <2>5 DEF Follows
    <3>3. YearOf(Month(x)) # YearOf(Month(y))
      BY <2>3, <3>2, YearIs
    <3> QED
      BY <2>1, <2>5, <3>1, <3>2, <3>3 DEF Follows
  <2> QED
    BY <1>2, <2>4, <2>5 DEF Counted
<1> QED
  BY <1>1, <1>2 DEF Follows, Counted

\* The month of the anchor in a year, up to the one after that of a covered day.
LEMMA AnchorMonthIs ==
  ASSUME NEW limit, Covers(limit), NEW d \in 1..limit, NEW a \in Dates,
         NEW y \in 0..(YearOf(Month(d)) + 1)
  PROVE  /\ AnchorMonth(a, y) \in 1..LastMonth
         /\ YearOf(AnchorMonth(a, y)) = y /\ MonthOfYear(AnchorMonth(a, y)) = MonthOfYear(Month(a))
<1>1. Year \in Nat \ {0} /\ Month(d) \in Nat \ {0} /\ Month(d) + 2 * Year <= LastMonth + 1 /\ LastMonth \in Nat
  BY CalendarAssumption, CoveredDay, LastMonthIs
<1>2. Month(a) \in Nat \ {0}
  BY MonthOf, LastMonthIs
<1>3. MonthOfYear(Month(a)) \in 0..(Year - 1)
  BY <1>2, YearIs
<1>4. YearOf(Month(d)) \in Nat /\ Month(d) >= YearOf(Month(d)) * Year + 1
  BY <1>1, YearIs
<1>5. y \in Nat
  BY <1>4
<1>6. /\ AnchorMonth(a, y) \in Nat /\ YearOf(AnchorMonth(a, y)) = y
      /\ MonthOfYear(AnchorMonth(a, y)) = MonthOfYear(Month(a))
  BY <1>3, <1>5, YearUnique DEF AnchorMonth
<1>7. y * Year <= YearOf(Month(d)) * Year + Year
  <2>1. CASE y = YearOf(Month(d)) + 1
    BY <1>1, <1>4, <2>1
  <2>2. CASE y < YearOf(Month(d)) + 1
    <3>1. Year * y + Year <= Year * (YearOf(Month(d)) + 1)
      BY <1>1, <1>4, <1>5, <2>2, MoreTimes
    <3> QED
      BY <1>1, <1>4, <1>5, <3>1
  <2> QED
    BY <1>4, <2>1, <2>2
<1>8. y * Year \in Nat /\ YearOf(Month(d)) * Year \in Nat
  BY <1>1, <1>4, <1>5
<1>9. AnchorMonth(a, y) = y * Year + MonthOfYear(Month(a)) + 1
  BY DEF AnchorMonth
<1> QED
  BY <1>1, <1>3, <1>4, <1>6, <1>7, <1>8, <1>9

LEMMA InItsYear ==
  ASSUME NEW m \in Nat \ {0}, NEW a \in Dates, MonthOfYear(m) = MonthOfYear(Month(a))
  PROVE  m = AnchorMonth(a, YearOf(m))
BY YearIs DEF AnchorMonth

\* The occurrence after a day is on the schedule of its anchor, and the schedule has none
\* between the two (nextOccurrenceAfter): what follows the day is it or follows it.
THEOREM NextOccurrence ==
  ASSUME NEW limit, Covers(limit), NEW d \in 1..limit, NEW a \in 1..limit, NEW f \in Frequency
  PROVE  LET n == nextOccurrenceAfter(d, a, f)
         IN  /\ n \in Nat /\ Follows(n, d, a, f)
             /\ Counted(f) => n \in Dates
             /\ \A e \in Nat : (Counted(f) => e \in Dates) /\ Follows(e, d, a, f) => e = n \/ Follows(e, n, a, f)
<1> DEFINE n == nextOccurrenceAfter(d, a, f)
<1>1. d \in Dates /\ a \in Dates /\ d \in Nat
  BY CoveredDay DEF Covers
<1>2. CASE f = "DAILY"
  BY <1>1, <1>2 DEF nextOccurrenceAfter, Follows, Counted
<1>3. CASE f = "WEEKLY"
  <2>1. n = d + Week /\ Week \in Nat \ {0}
    BY <1>3, CalendarAssumption DEF nextOccurrenceAfter
  <2>2. n \in Nat /\ n - d = Week /\ n > d
    BY <1>1, <2>1
  <2>3. Follows(n, d, a, f)
    BY <1>3, <2>1, <2>2, ItselfMultiple DEF Follows
  <2>4. ASSUME NEW e \in Nat, Counted(f) => e \in Dates, Follows(e, d, a, f), e # n
        PROVE  Follows(e, n, a, f)
    <3>1. e > d /\ (e - d) % Week = 0 /\ e \in Nat
      BY <1>1, <1>3, <2>4 DEF Follows, Covers
    <3>2. e > n
      <4>1. e - d \notin 1..(Week - 1)
        BY <2>1, <3>1, NoneBetween
      <4> QED
        BY <1>1, <2>1, <2>4, <3>1, <4>1
    <3>3. ((e - d) - (n - d)) % Week = 0
      <4>1. e - d \in Int /\ n - d \in Int /\ (n - d) % Week = 0
        BY <1>1, <2>1, <2>2, <3>1, ItselfMultiple
      <4> QED
        BY <2>1, <3>1, <4>1, Multiples
    <3>4. (e - d) - (n - d) = e - n
      BY <1>1, <2>2, <3>1
    <3> QED
      BY <1>3, <3>2, <3>3, <3>4 DEF Follows
  <2> HIDE DEF n
  <2>5. \A e \in Nat : (Counted(f) => e \in Dates) /\ Follows(e, d, a, f) => e = n \/ Follows(e, n, a, f)
    BY <2>4
  <2>6. ~Counted(f)
    BY <1>3 DEF Counted
  <2> QED
    BY <2>2, <2>3, <2>5, <2>6 DEF n
<1>4. CASE f = "MONTHLY"
  <2> DEFINE M == Month(d) + 1
             day == DayOfMonth(a)
  <2>1. n = Clamped(M, day) /\ day \in Nat \ {0}
    BY <1>1, <1>4, DayOfMonthIs, MonthOf, FirstDays, LastMonthIs DEF nextOccurrenceAfter
  <2>2. M \in 1..LastMonth /\ Month(d) \in Nat
    BY CoveredDay, CalendarAssumption, LastMonthIs
  <2>3. n \in Dates /\ Month(n) = M
    BY <2>1, <2>2, ClampedIn
  <2>4. \A e \in Dates : Month(e) > Month(d) => e > d
    <3> SUFFICES ASSUME NEW e \in Dates, Month(e) > Month(d), ~(e > d) PROVE FALSE
      OBVIOUS
    <3>1. e <= d /\ Month(e) \in Nat
      BY <1>1, MonthOf, LastMonthIs DEF Dates
    <3> QED
      BY <1>1, <2>2, <3>1, MonthsGrow
  <2>5. \A e \in Dates : Month(e) > Month(n) => e > n
    <3> SUFFICES ASSUME NEW e \in Dates, Month(e) > Month(n), ~(e > n) PROVE FALSE
      OBVIOUS
    <3>1. e <= n /\ Month(e) \in Nat /\ Month(n) \in Nat
      BY <2>3, MonthOf, LastMonthIs DEF Dates
    <3> QED
      BY <2>3, <3>1, MonthsGrow
  <2>6. FallsOn(n, a)
    BY <1>1, <2>1, <2>3, FallsOnIs
  <2>7. Follows(n, d, a, f)
    BY <1>4, <2>2, <2>3, <2>4, <2>6 DEF Follows
  <2>8. ASSUME NEW e \in Nat, Counted(f) => e \in Dates, Follows(e, d, a, f), e # n
        PROVE  Follows(e, n, a, f)
    <3>1. e \in Dates /\ Month(e) > Month(d) /\ FallsOn(e, a)
      BY <1>1, <1>4, <2>8 DEF Follows, Counted
    <3>2. e = Clamped(Month(e), day)
      BY <1>1, <3>1, FallsOnIs
    <3>3. Month(e) # M /\ Month(e) \in Nat
      BY <2>1, <2>8, <3>1, <3>2, MonthOf, LastMonthIs
    <3>4. Month(e) > Month(n)
      BY <2>2, <2>3, <3>1, <3>3
    <3> QED
      BY <1>4, <2>5, <3>1, <3>4 DEF Follows
  <2> HIDE DEF n
  <2>9. n \in Nat
    BY <2>3 DEF Dates
  <2> QED
    BY <2>3, <2>7, <2>8, <2>9 DEF n
<1>5. CASE f = "YEARLY"
  <2> DEFINE y == YearOf(Month(d)) + 1
             M == AnchorMonth(a, y)
             day == DayOfMonth(a)
  <2>1. n = Clamped(M, day) /\ day \in Nat \ {0}
    BY <1>1, <1>5, DayOfMonthIs, MonthOf, FirstDays, LastMonthIs DEF nextOccurrenceAfter
  <2>2. Month(d) \in Nat \ {0} /\ YearOf(Month(d)) \in Nat
    BY <1>1, MonthOf, YearIs, LastMonthIs
  <2>3. M \in 1..LastMonth /\ YearOf(M) = y /\ MonthOfYear(M) = MonthOfYear(Month(a))
    BY <1>1, <2>2, AnchorMonthIs
  <2> HIDE DEF M, n
  <2>4. n \in Dates /\ Month(n) = M
    BY <2>1, <2>3, ClampedIn
  <2>5. \A e, b \in Dates : YearOf(Month(e)) > YearOf(Month(b)) => e > b
    <3> SUFFICES ASSUME NEW e \in Dates, NEW b \in Dates, YearOf(Month(e)) > YearOf(Month(b)), ~(e > b) PROVE FALSE
      OBVIOUS
    <3>1. e <= b /\ Month(e) \in Nat \ {0} /\ Month(b) \in Nat \ {0}
      BY MonthOf, LastMonthIs DEF Dates
    <3>2. Month(e) <= Month(b)
      BY <3>1, MonthsGrow
    <3>3. YearOf(Month(e)) <= YearOf(Month(b)) /\ YearOf(Month(e)) \in Nat /\ YearOf(Month(b)) \in Nat
      BY <3>1, <3>2, YearsGrow, YearIs
    <3> QED
      BY <3>3
  <2>6. FallsOn(n, a)
    BY <1>1, <2>1, <2>4, FallsOnIs
  <2>7. Follows(n, d, a, f)
    BY <1>1, <1>5, <2>2, <2>3, <2>4, <2>5, <2>6 DEF Follows
  <2>8. ASSUME NEW e \in Nat, Counted(f) => e \in Dates, Follows(e, d, a, f), e # n
        PROVE  Follows(e, n, a, f)
    <3>1. /\ e \in Dates /\ YearOf(Month(e)) > YearOf(Month(d)) /\ FallsOn(e, a)
          /\ MonthOfYear(Month(e)) = MonthOfYear(Month(a))
      BY <1>1, <1>5, <2>8 DEF Follows, Counted
    <3>2. e = Clamped(Month(e), day)
      BY <1>1, <3>1, FallsOnIs
    <3>3. Month(e) \in Nat \ {0} /\ YearOf(Month(e)) \in Nat
      BY <3>1, MonthOf, YearIs, LastMonthIs
    <3>4. YearOf(Month(e)) # y
      BY <1>1, <2>1, <2>8, <3>1, <3>2, <3>3, InItsYear DEF M
    <3>5. YearOf(Month(e)) > YearOf(Month(n))
      BY <2>2, <2>3, <2>4, <3>1, <3>3, <3>4
    <3> QED
      BY <1>5, <2>4, <2>5, <3>1, <3>5 DEF Follows
  <2>9. n \in Nat
    BY <2>4 DEF Dates
  <2> QED
    BY <2>4, <2>7, <2>8, <2>9 DEF n
<1> QED
  BY <1>2, <1>3, <1>4, <1>5 DEF Frequency

\* Advancing a due date reaches the first day of its schedule after it (advanceObligation),
\* in months that are too short for the day of the anchor as well.
THEOREM AdvanceReachesNext ==
  ASSUME NEW limit, Covers(limit), NEW a \in 1..limit, NEW c \in 1..limit, NEW f \in Frequency
  PROVE  LET n == advanceObligation(a, c, f)
         IN  /\ n \in Nat /\ n > c /\ OnSchedule(n, a, f)
             /\ \A d \in (c + 1)..(n - 1) : ~OnSchedule(d, a, f)
<1> DEFINE n == advanceObligation(a, c, f)
           Result == /\ n \in Nat /\ n > c /\ OnSchedule(n, a, f)
                     /\ \A d \in (c + 1)..(n - 1) : ~OnSchedule(d, a, f)
<1>1. /\ a \in Dates /\ c \in Dates /\ a \in Nat /\ c \in Nat
      /\ Month(a) \in Nat \ {0} /\ Month(c) \in Nat \ {0}
      /\ Month(c) + 2 * Year <= LastMonth + 1 /\ LastMonth \in Nat /\ Year \in Nat \ {0}
      /\ FirstOf[LastMonth + 1] \in Nat
  <2>1. FirstOf[LastMonth + 1] \in Nat
    BY LastMonthIs, FirstOfType
  <2> QED
    BY <2>1, CoveredDay, LastMonthIs, CalendarAssumption DEF Covers
<1>2. DayOfMonth(a) \in Nat \ {0} /\ a = Clamped(Month(a), DayOfMonth(a))
  <2>1. DayOfMonth(a) \in Nat \ {0}
    BY <1>1, DayOfMonthIs, MonthOf, FirstDays, LastMonthIs
  <2>2. FallsOn(a, a)
    BY DEF FallsOn
  <2> QED
    BY <1>1, <2>1, <2>2, FallsOnIs
<1>3. CASE c < a
  <2>1. n = a
    BY <1>3 DEF advanceObligation
  <2> QED
    BY <1>1, <1>3, <2>1 DEF OnSchedule, Follows
<1>4. CASE c >= a /\ f = "DAILY"
  <2>1. n = c + 1
    BY <1>1, <1>4 DEF advanceObligation
  <2> QED
    BY <1>1, <1>4, <2>1 DEF OnSchedule, Follows
<1>5. CASE c >= a /\ f = "WEEKLY"
  <2> DEFINE q == (c - a) \div Week
             r == (c - a) % Week
  <2>1. Week \in Nat \ {0} /\ c - a \in Int
    BY <1>1, CalendarAssumption
  <2>2. q \in Int /\ r \in 0..(Week - 1) /\ c - a = Week * q + r
    BY <2>1, Division
  <2>3. n = a + (q + 1) * Week
    BY <1>1, <1>5 DEF advanceObligation
  <2> HIDE DEF q, r, n
  <2>4. (q + 1) * Week = Week * q + Week /\ Week * q \in Int /\ Week * (q + 1) + 0 = (q + 1) * Week
    BY <2>1, <2>2
  <2>5. n - a = Week * q + Week /\ n \in Int /\ n = c + (Week - r)
    BY <1>1, <2>1, <2>2, <2>3, <2>4
  <2>6. n > c /\ n \in Nat
    BY <1>1, <2>1, <2>2, <2>5
  <2>7. (n - a) % Week = 0
    <3>1. (Week * (q + 1) + 0) % Week = 0
      BY <2>1, <2>2, DivisionUnique
    <3> QED
      BY <2>4, <2>5, <3>1
  <2>8. OnSchedule(n, a, f)
    BY <1>1, <1>5, <2>6, <2>7 DEF OnSchedule, Follows
  <2>9. ASSUME NEW d \in (c + 1)..(n - 1), OnSchedule(d, a, f)
        PROVE  FALSE
    <3>1. d > a /\ d \in Nat /\ c < d /\ d < n
      BY <1>1, <1>5, <2>6
    <3>2. (d - a) % Week = 0
      BY <1>1, <1>5, <2>9, <3>1 DEF OnSchedule, Follows
    <3> DEFINE k == d - a - Week * q
    <3>3. k \in 1..(Week - 1)
      BY <1>1, <2>1, <2>2, <2>4, <2>5, <3>1
    <3>4. Week * q + k = d - a
      BY <1>1, <2>4, <3>1
    <3> HIDE DEF k
    <3>5. k \in 0..(Week - 1)
      BY <2>1, <3>3
    <3>6. (Week * q + k) % Week = k
      BY <2>1, <2>2, <3>5, DivisionUnique
    <3> QED
      BY <2>1, <3>2, <3>3, <3>4, <3>6
  <2>10. Result
    BY <2>6, <2>8, <2>9
  <2> QED
    BY <2>10 DEF n
<1>6. CASE c >= a /\ f = "MONTHLY"
  <2> DEFINE same == Clamped(Month(c), DayOfMonth(a))
             late == Clamped(Month(c) + 1, DayOfMonth(a))
  <2>1. n = IF same <= c THEN late ELSE same
    <3>1. Months(a, Month(c) - Month(a)) = same /\ Months(a, Month(c) - Month(a) + 1) = late
      BY <1>1 DEF Months
    <3> QED
      BY <1>1, <1>6, <3>1 DEF advanceObligation
  <2>2. Month(c) \in 1..LastMonth /\ Month(c) + 1 \in 1..LastMonth
    BY <1>1
  <2>3. /\ same \in Dates /\ Month(same) = Month(c)
        /\ late \in Dates /\ Month(late) = Month(c) + 1
    BY <1>2, <2>2, ClampedIn
  <2> HIDE DEF same, late, n
  <2>4. n \in Dates /\ n \in Nat /\ n > c
    BY <1>1, <2>1, <2>3, MonthsGrow DEF Dates
  <2>5. Month(n) \in Nat /\ n = Clamped(Month(n), DayOfMonth(a)) /\ FallsOn(n, a)
    <3>1. Month(n) \in Nat /\ n = Clamped(Month(n), DayOfMonth(a))
      BY <1>1, <2>1, <2>3 DEF same, late
    <3> QED
      BY <1>1, <2>4, <3>1, FallsOnIs
  <2>6. Month(n) > Month(a)
    <3>1. Month(n) # Month(a)
      BY <1>1, <1>2, <1>6, <2>4, <2>5
    <3>2. Month(a) <= Month(n)
      BY <1>1, <1>6, <2>4, MonthsGrow
    <3> QED
      BY <1>1, <2>5, <3>1, <3>2
  <2>7. OnSchedule(n, a, f)
    BY <1>1, <1>6, <2>4, <2>5, <2>6 DEF OnSchedule, Follows
  <2>8. ASSUME NEW d \in (c + 1)..(n - 1), OnSchedule(d, a, f)
        PROVE  FALSE
    <3>1. d \in Dates /\ c < d /\ d < n /\ d > a
      BY <1>1, <1>6, <2>4 DEF Dates
    <3>2. FallsOn(d, a)
      BY <1>1, <1>6, <2>8, <3>1 DEF OnSchedule, Follows
    <3>3. d = Clamped(Month(d), DayOfMonth(a))
      BY <1>1, <3>1, <3>2, FallsOnIs
    <3>4. Month(c) <= Month(d) /\ Month(d) <= Month(n) /\ Month(d) \in Nat
      BY <1>1, <2>4, <3>1, MonthsGrow, MonthOf, LastMonthIs
    <3>5. Month(d) # Month(n)
      BY <1>1, <2>4, <2>5, <3>1, <3>3 DEF Dates
    <3>6. n = late /\ same <= c
      BY <1>1, <2>1, <2>3, <2>5, <3>4, <3>5
    <3>7. Month(d) = Month(c)
      BY <1>1, <2>3, <3>4, <3>5, <3>6
    <3>8. d = same
      BY <3>3, <3>7 DEF same
    <3> QED
      BY <1>1, <3>1, <3>6, <3>8 DEF Dates
  <2>9. Result
    BY <2>4, <2>7, <2>8
  <2> QED
    BY <2>9 DEF n
<1>7. CASE c >= a /\ f = "YEARLY"
  <2> DEFINE y == YearOf(Month(c))
             same == Clamped(AnchorMonth(a, y), DayOfMonth(a))
             late == Clamped(AnchorMonth(a, y + 1), DayOfMonth(a))
  <2>1. y \in Nat /\ YearOf(Month(a)) \in Nat /\ y >= YearOf(Month(a))
    BY <1>1, <1>7, YearIs, MonthsGrow, YearsGrow
  <2>2. n = IF same <= c THEN late ELSE same
    <3> DEFINE b == YearOf(Month(a))
    <3>1. Month(a) = b * Year + MonthOfYear(Month(a)) + 1 /\ MonthOfYear(Month(a)) \in Nat
      <4>1. Month(a) = YearOf(Month(a)) * Year + MonthOfYear(Month(a)) + 1 /\ MonthOfYear(Month(a)) \in 0..(Year - 1)
        BY <1>1, YearIs, Zenon
      <4>2. MonthOfYear(Month(a)) \in Nat
        BY <1>1, <4>1
      <4> QED
        BY <4>1, <4>2
    <3>2. (y - b) * Year = y * Year - b * Year /\ y * Year \in Nat /\ b * Year \in Nat
            /\ (y + 1) * Year = y * Year + Year
      BY <1>1, <2>1
    <3> HIDE DEF b
    <3>3. /\ Month(a) + (y - b) * Year = AnchorMonth(a, y)
          /\ Month(a) + ((y - b) * Year + Year) = AnchorMonth(a, y + 1)
      BY <1>1, <3>1, <3>2 DEF AnchorMonth
    <3>4. Months(a, (y - b) * Year) = same /\ Months(a, (y - b) * Year + Year) = late
      BY <3>3 DEF Months
    <3> QED
      BY <1>1, <1>7, <3>4 DEF advanceObligation, b
  <2>3. /\ AnchorMonth(a, y) \in 1..LastMonth /\ YearOf(AnchorMonth(a, y)) = y
        /\ AnchorMonth(a, y + 1) \in 1..LastMonth /\ YearOf(AnchorMonth(a, y + 1)) = y + 1
        /\ MonthOfYear(AnchorMonth(a, y)) = MonthOfYear(Month(a))
        /\ MonthOfYear(AnchorMonth(a, y + 1)) = MonthOfYear(Month(a))
    BY <1>1, <2>1, AnchorMonthIs
  <2>4. /\ same \in Dates /\ Month(same) = AnchorMonth(a, y)
        /\ late \in Dates /\ Month(late) = AnchorMonth(a, y + 1)
    BY <1>2, <2>3, ClampedIn
  <2> HIDE DEF same, late, n
  <2>5. late > c
    <3> SUFFICES ASSUME late <= c PROVE FALSE
      BY <1>1, <2>4 DEF Dates
    <3>1. Month(late) <= Month(c) /\ Month(late) \in Nat \ {0}
      BY <1>1, <2>3, <2>4, MonthsGrow, LastMonthIs
    <3>2. YearOf(Month(late)) <= YearOf(Month(c))
      BY <1>1, <3>1, YearsGrow
    <3> QED
      BY <2>1, <2>3, <2>4, <3>2
  <2>6. n \in Dates /\ n \in Nat /\ n > c
    BY <1>1, <2>2, <2>4, <2>5 DEF Dates
  <2>7. /\ Month(n) \in Nat \ {0} /\ n = Clamped(Month(n), DayOfMonth(a)) /\ FallsOn(n, a)
        /\ MonthOfYear(Month(n)) = MonthOfYear(Month(a)) /\ YearOf(Month(n)) \in Nat
        /\ Month(n) = AnchorMonth(a, YearOf(Month(n)))
    <3>1. Month(n) \in Nat \ {0} /\ n = Clamped(Month(n), DayOfMonth(a))
            /\ MonthOfYear(Month(n)) = MonthOfYear(Month(a))
      BY <1>1, <2>2, <2>3, <2>4 DEF same, late
    <3> QED
      BY <1>1, <2>6, <3>1, FallsOnIs, YearIs, InItsYear
  <2>8. YearOf(Month(n)) > YearOf(Month(a))
    <3>1. YearOf(Month(n)) # YearOf(Month(a))
      <4> SUFFICES ASSUME YearOf(Month(n)) = YearOf(Month(a)) PROVE FALSE
        OBVIOUS
      <4>1. Month(a) = AnchorMonth(a, YearOf(Month(a)))
        BY <1>1, InItsYear
      <4>2. n = a
        BY <1>2, <2>7, <4>1
      <4> QED
        BY <1>1, <1>7, <2>6, <4>2
    <3>2. YearOf(Month(a)) <= YearOf(Month(n))
      BY <1>1, <1>7, <2>6, <2>7, MonthsGrow, YearsGrow
    <3> QED
      BY <2>1, <2>7, <3>1, <3>2
  <2>9. OnSchedule(n, a, f)
    BY <1>1, <1>7, <2>6, <2>7, <2>8 DEF OnSchedule, Follows
  <2>10. ASSUME NEW d \in (c + 1)..(n - 1), OnSchedule(d, a, f)
         PROVE  FALSE
    <3>1. d \in Dates /\ c < d /\ d < n /\ d > a
      BY <1>1, <1>7, <2>6 DEF Dates
    <3>2. FallsOn(d, a) /\ MonthOfYear(Month(d)) = MonthOfYear(Month(a))
      BY <1>1, <1>7, <2>10, <3>1 DEF OnSchedule, Follows
    <3>3. d = Clamped(Month(d), DayOfMonth(a))
      BY <1>1, <3>1, <3>2, FallsOnIs
    <3>4. Month(c) <= Month(d) /\ Month(d) <= Month(n) /\ Month(d) \in Nat \ {0}
      BY <1>1, <2>6, <3>1, MonthsGrow, MonthOf, LastMonthIs
    <3>5. y <= YearOf(Month(d)) /\ YearOf(Month(d)) <= YearOf(Month(n)) /\ YearOf(Month(d)) \in Nat
      BY <1>1, <2>7, <3>4, YearsGrow, YearIs
    <3>6. Month(d) = AnchorMonth(a, YearOf(Month(d)))
      BY <1>1, <3>2, <3>4, InItsYear
    <3>7. YearOf(Month(d)) # YearOf(Month(n))
      <4>1. d # n
        BY <2>6, <3>1
      <4> QED
        BY <2>7, <3>3, <3>6, <4>1
    <3>8. n = late /\ same <= c
      <4>1. n # same
        BY <2>1, <2>3, <2>4, <2>7, <3>5, <3>7
      <4> QED
        BY <2>2, <4>1
    <3>9. YearOf(Month(d)) = y
      BY <2>1, <2>3, <2>4, <3>5, <3>7, <3>8
    <3>10. d = same
      BY <3>3, <3>6, <3>9 DEF same
    <3> QED
      BY <1>1, <3>1, <3>8, <3>10 DEF Dates
  <2>11. Result
    BY <2>6, <2>9, <2>10
  <2> QED
    BY <2>11 DEF n
<1> QED
  BY <1>1, <1>3, <1>4, <1>5, <1>6, <1>7 DEF Frequency
-----------------------------------------------------------------------------
(* Periods of habits, and rows of them.                                    *)

\* The first day of the period of a day: a multiple of its length, at most the day.
LEMMA AnchorIs ==
  ASSUME NEW f \in Nat \ {0}, NEW d \in Nat
  PROVE  /\ Anchor(f, d) \in 0..d /\ Anchor(f, d) = f * (d \div f)
         /\ d \div f \in Nat /\ d < Anchor(f, d) + f
<1> DEFINE q == d \div f
           r == d % f
<1>1. q \in Int /\ r \in 0..(f - 1) /\ d = f * q + r
  BY Division
<1>2. Anchor(f, d) = d - r
  BY DEF Anchor
<1> HIDE DEF q, r
<1>3. q >= 0
  <2> SUFFICES ASSUME q < 0 PROVE FALSE
    BY <1>1
  <2>1. f * q \in Int /\ f * 0 = 0 /\ f * q + f <= f * 0
    BY <1>1, MoreTimes
  <2> QED
    BY <1>1, <2>1
<1>4. f * q >= 0 /\ f * q \in Int
  BY <1>1, <1>3
<1> QED
  BY <1>1, <1>2, <1>3, <1>4 DEF q

\* Later days have later periods.
LEMMA AnchorsGrow ==
  ASSUME NEW f \in Nat \ {0}, NEW d \in Nat, NEW e \in Nat, d <= e
  PROVE  d \div f <= e \div f /\ Anchor(f, d) <= Anchor(f, e)
<1> DEFINE p == d \div f
           q == e \div f
<1>1. /\ p \in Nat /\ Anchor(f, d) \in 0..d /\ Anchor(f, d) = f * p
      /\ q \in Nat /\ Anchor(f, e) \in 0..e /\ Anchor(f, e) = f * q /\ e < Anchor(f, e) + f
  BY AnchorIs
<1> HIDE DEF p, q
<1>2. p <= q
  <2> SUFFICES ASSUME q < p PROVE FALSE
    BY <1>1
  <2>1. f * q + f <= f * p
    BY <1>1, MoreTimes
  <2> QED
    BY <1>1, <2>1
<1>3. f * p <= f * q
  BY <1>1, <1>2, MoreTimes
<1> QED
  BY <1>1, <1>2, <1>3 DEF p, q

\* What Ascending promises: each number of the set, each one once, in order.
LEMMA AscendingIs ==
  ASSUME NEW S \in SUBSET Nat, IsFiniteSet(S)
  PROVE  LET s == Ascending(S)
             n == Cardinality(S)
         IN  /\ n \in Nat /\ s \in [1..n -> S]
             /\ \A i, j \in 1..n : i < j => s[i] < s[j]
             /\ \A a \in S : \E i \in 1..n : s[i] = a
<1> DEFINE n == Cardinality(S)
           s == Ascending(S)
           Below(a) == {b \in S : b < a}
           rank == [a \in S |-> Cardinality(Below(a))]
<1>1. n \in Nat
  BY FS_CardinalityType
<1>0. \A a \in S : Below(a) \in SUBSET S /\ a \notin Below(a)
  OBVIOUS
<1>3. \A a, b \in S : a < b => Below(a) \in SUBSET Below(b) /\ a \in Below(b)
  <2> SUFFICES ASSUME NEW a \in S, NEW b \in S, a < b
               PROVE  Below(a) \in SUBSET Below(b) /\ a \in Below(b)
    OBVIOUS
  <2>1. \A c \in S : c < a => c < b
    <3> SUFFICES ASSUME NEW c \in S, c < a PROVE c < b
      OBVIOUS
    <3>1. a \in Nat /\ b \in Nat /\ c \in Nat
      OBVIOUS
    <3> QED
      BY <3>1
  <2> QED
    BY <2>1
<1>4. s = [i \in 1..n |-> CHOOSE a \in S : Cardinality(Below(a)) = i - 1]
  BY DEF Ascending
<1>5. rank = [a \in S |-> Cardinality(Below(a))]
  OBVIOUS
<1>6. \A T \in SUBSET S : /\ IsFiniteSet(T) /\ Cardinality(T) \in Nat
                          /\ Cardinality(T) <= n /\ (Cardinality(T) = n => S = T)
  BY FS_Subset, FS_CardinalityType
<1> HIDE DEF n, s, Below, rank
<1>2. \A a \in S : rank[a] = Cardinality(Below(a)) /\ Below(a) \in SUBSET S /\ a \notin Below(a)
  BY <1>0, <1>5
<1>7. \A a \in S : IsFiniteSet(Below(a)) /\ rank[a] \in Nat /\ rank[a] < n
  BY <1>1, <1>2, <1>6
<1>8. ASSUME NEW a \in S, NEW b \in S, a < b
      PROVE  rank[a] < rank[b]
  <2>1. /\ Cardinality(Below(a)) <= Cardinality(Below(b))
        /\ Cardinality(Below(a)) = Cardinality(Below(b)) => Below(b) = Below(a)
    BY <1>3, <1>7, <1>8, FS_Subset
  <2> QED
    BY <1>2, <1>3, <1>7, <1>8, <2>1
<1>9. ASSUME NEW a \in S, NEW b \in S, rank[a] = rank[b]
      PROVE  a = b
  <2>1. a \in Nat /\ b \in Nat /\ rank[a] \in Nat
    BY <1>7
  <2> QED
    BY <1>8, <1>9, <2>1
<1>10. rank \in Surjection(S, 0..(n - 1))
  <2>1. rank \in [S -> 0..(n - 1)]
    <3>1. \A a \in S : rank[a] \in 0..(n - 1)
      BY <1>1, <1>7
    <3> QED
      BY <1>2, <1>5, <3>1
  <2>2. rank \in Injection(S, 0..(n - 1))
    BY <1>9, <2>1 DEF Injection, IsInjective
  <2>3. IsFiniteSet(0..(n - 1)) /\ Cardinality(0..(n - 1)) = n
    BY <1>1, FS_Interval
  <2>4. Cardinality(S) = Cardinality(0..(n - 1))
    BY <2>3 DEF n
  <2> QED
    BY <2>2, <2>3, <2>4, FS_Injection
<1>11. ASSUME NEW i \in 1..n
       PROVE  s[i] \in S /\ rank[s[i]] = i - 1
  <2>1. i - 1 \in 0..(n - 1)
    BY <1>1
  <2>2. \E a \in S : rank[a] = i - 1
    BY <1>10, <2>1 DEF Surjection
  <2>3. \E a \in S : Cardinality(Below(a)) = i - 1
    BY <1>2, <2>2
  <2>4. s[i] = CHOOSE a \in S : Cardinality(Below(a)) = i - 1
    BY <1>4
  <2> QED
    BY <1>2, <2>3, <2>4
<1>12. s \in [1..n -> S]
  BY <1>4, <1>11
<1>13. ASSUME NEW i \in 1..n, NEW j \in 1..n, i < j
       PROVE  s[i] < s[j]
  <2>1. s[i] \in S /\ s[j] \in S /\ rank[s[i]] = i - 1 /\ rank[s[j]] = j - 1
    BY <1>11
  <2>2. s[i] \in Nat /\ s[j] \in Nat
    BY <2>1
  <2>3. ~(s[j] < s[i])
    <3> SUFFICES ASSUME s[j] < s[i] PROVE FALSE
      OBVIOUS
    <3>1. rank[s[j]] < rank[s[i]]
      BY <1>8, <2>1
    <3> QED
      BY <1>1, <1>13, <2>1, <3>1
  <2>4. s[i] # s[j]
    BY <1>1, <1>13, <2>1
  <2> QED
    BY <2>2, <2>3, <2>4
<1>14. ASSUME NEW a \in S
       PROVE  \E i \in 1..n : s[i] = a
  <2>1. rank[a] + 1 \in 1..n /\ (rank[a] + 1) - 1 = rank[a]
    BY <1>1, <1>7
  <2>2. s[rank[a] + 1] \in S /\ rank[s[rank[a] + 1]] = rank[a]
    BY <1>11, <2>1
  <2> QED
    BY <1>9, <2>1, <2>2
<1> QED
  BY <1>1, <1>12, <1>13, <1>14 DEF n, s

\* Runs is the function its recursion describes.
LEMMA RunsAre ==
  ASSUME NEW f, NEW n \in Nat, NEW s, Len(s) = n
  PROVE  LET run == Runs(f, s)
         IN  run = [i \in 1..n |-> IF i > 1 /\ s[i - 1] = s[i] - f THEN run[i - 1] + 1 ELSE 1]
<1> DEFINE Near(i) == i > 1 /\ s[i - 1] = s[i] - f
           Counts(g, m) == g = [i \in 1..m |-> IF Near(i) THEN g[i - 1] + 1 ELSE 1]
           S == {m \in Nat : \E g : Counts(g, m)}
<1> HIDE DEF Near
<1>1. 0 \in S
  <2>1. Counts([i \in 1..0 |-> 1], 0)
    OBVIOUS
  <2> QED
    BY <2>1
<1>2. ASSUME NEW m \in Nat, m \in S
      PROVE  m + 1 \in S
  <2>1. PICK g : Counts(g, m)
    BY <1>2
  <2> DEFINE h == [i \in 1..(m + 1) |-> IF Near(i) THEN g[i - 1] + 1 ELSE 1]
  <2>2. \A i \in 1..m : h[i] = g[i]
    BY <2>1
  <2>3. \A i \in 1..(m + 1) : Near(i) => i - 1 \in 1..m
    BY DEF Near
  <2>4. h = [i \in 1..(m + 1) |-> IF Near(i) THEN h[i - 1] + 1 ELSE 1]
    BY <2>2, <2>3
  <2> HIDE DEF h
  <2>5. Counts(h, m + 1)
    BY <2>4
  <2> HIDE DEF Counts
  <2> QED
    BY <2>5
<1> HIDE DEF S
<1>3. Nat \subseteq S
  BY <1>1, <1>2, Induction
<1>4. \E g : Counts(g, n)
  BY <1>3 DEF S
<1> QED
  BY <1>4 DEF Runs, Near

\* A row of m periods of the set, one after another, that ends with p.
Row(S, f, p, m) == \A k \in 0..(m - 1) : p - k * f \in S

\* The periods of a set, each one once and in order, as numbers that f divides.
Lists(s, n, f, S) ==
  /\ n \in Nat /\ S \in SUBSET Nat /\ s \in [1..n -> S] /\ Len(s) = n
  /\ \A a \in S : \E k \in Nat : a = f * k
  /\ \A i, j \in 1..n : i < j => s[i] < s[j]
  /\ \A a \in S : \E i \in 1..n : s[i] = a

\* A period and the one after it have none between them.
LEMMA NeighbourIs ==
  ASSUME NEW f \in Nat \ {0}, NEW n, NEW S, NEW s, Lists(s, n, f, S), NEW i \in 1..n, s[i] - f \in S
  PROVE  i > 1 /\ s[i - 1] = s[i] - f
<1> USE DEF Lists
<1>1. PICK j \in 1..n : s[j] = s[i] - f
  OBVIOUS
<1>2. s[i] \in S /\ s[j] \in S /\ s[i] \in Nat /\ s[j] \in Nat /\ s[j] < s[i]
  <2>1. s[i] \in S /\ s[j] \in S
    OBVIOUS
  <2>2. s[i] \in Nat /\ s[j] \in Nat
    BY <2>1
  <2> QED
    BY <1>1, <2>1, <2>2
<1>3. j < i
  <2>1. i < j => s[i] < s[j]
    OBVIOUS
  <2> QED
    BY <1>2, <2>1
<1>4. i > 1 /\ i - 1 \in 1..n /\ s[i - 1] \in S /\ s[i - 1] < s[i] /\ s[i - 1] \in Nat
  <2>1. i > 1 /\ i - 1 \in 1..n /\ i - 1 < i
    BY <1>3
  <2> QED
    BY <2>1
<1>5. s[j] <= s[i - 1]
  <2>1. j = i - 1 \/ j < i - 1
    BY <1>3
  <2>2. j < i - 1 => s[j] < s[i - 1]
    BY <1>4
  <2> QED
    BY <1>2, <1>4, <2>1, <2>2
<1>6. PICK p \in Nat, q \in Nat, t \in Nat : s[j] = f * p /\ s[i - 1] = f * q /\ s[i] = f * t
  <2>1. \E p \in Nat : s[j] = f * p
    BY <1>2
  <2>2. \E q \in Nat : s[i - 1] = f * q
    BY <1>4
  <2>3. \E t \in Nat : s[i] = f * t
    BY <1>2
  <2> QED
    BY <2>1, <2>2, <2>3
<1>7. ~(s[j] < s[i - 1])
  <2> SUFFICES ASSUME s[j] < s[i - 1] PROVE FALSE
    OBVIOUS
  <2>1. f * p < f * q /\ f * q < f * t /\ f * t = f * p + f
    BY <1>1, <1>2, <1>4, <1>6
  <2>2. ~(q <= p) /\ ~(t <= q)
    <3>1. q < p => f * q + f <= f * p
      BY MoreTimes
    <3>2. t < q => f * t + f <= f * q
      BY MoreTimes
    <3> QED
      BY <2>1, <3>1, <3>2
  <2>3. f * p + f <= f * q /\ f * q + f <= f * t
    BY <2>2, MoreTimes
  <2> QED
    BY <2>1, <2>3
<1> QED
  BY <1>1, <1>2, <1>4, <1>5, <1>7

\* The number at each period is the length of the longest row that ends with it.
LEMMA RunsAreRows ==
  ASSUME NEW f \in Nat \ {0}, NEW n, NEW S, NEW s, Lists(s, n, f, S)
  PROVE  \A i \in 1..n :
           /\ Runs(f, s)[i] \in 1..i /\ Row(S, f, s[i], Runs(f, s)[i])
           /\ \A m \in Nat : Row(S, f, s[i], m) => m <= Runs(f, s)[i]
<1> DEFINE run == Runs(f, s)
           Near(i) == i > 1 /\ s[i - 1] = s[i] - f
           Right(i) == /\ run[i] \in 1..i /\ Row(S, f, s[i], run[i])
                       /\ \A m \in Nat : Row(S, f, s[i], m) => m <= run[i]
           I == {i \in Nat : i \in 1..n => Right(i)}
<1>1. \A i \in 1..n : run[i] = IF Near(i) THEN run[i - 1] + 1 ELSE 1
  <2>1. run = [i \in 1..n |-> IF Near(i) THEN run[i - 1] + 1 ELSE 1]
    BY RunsAre DEF Lists
  <2> HIDE DEF run, Near
  <2> QED
    BY <2>1
<1>2. n \in Nat /\ \A i \in 1..n : s[i] \in S /\ s[i] \in Nat
  BY DEF Lists
<1>3. \A i \in 1..n : s[i] - f \in S => Near(i)
  BY NeighbourIs
<1> HIDE DEF run
<1>4. 0 \in I
  OBVIOUS
<1>5. ASSUME NEW h \in Nat, h \in I
      PROVE  h + 1 \in I
  <2> SUFFICES ASSUME h + 1 \in 1..n PROVE Right(h + 1)
    OBVIOUS
  <2> DEFINE i == h + 1
  <2>1. i \in 1..n /\ i \in Nat
    OBVIOUS
  <2>2. CASE Near(i)
    <3>0. h \in 1..n /\ i - 1 = h /\ s[h] = s[i] - f
      BY <1>2, <2>1, <2>2
    <3>1. h \in 1..n /\ i - 1 = h /\ s[h] = s[i] - f /\ run[i] = run[h] + 1 /\ Right(h)
      BY <1>1, <1>5, <2>1, <2>2, <3>0
    <3>2. run[h] \in 1..h /\ s[h] \in Nat /\ s[i] \in Nat /\ s[i] \in S
      BY <1>2, <2>1, <3>1
    <3>3. run[i] \in 1..i /\ run[i] \in Nat /\ run[h] \in Nat /\ run[h] = run[i] - 1
      BY <3>1, <3>2
    <3>4. ASSUME NEW k \in Int
          PROVE  s[i] - k * f = s[h] - (k - 1) * f
      BY <3>1, <3>2
    <3>5. Row(S, f, s[i], run[i])
      <4> SUFFICES ASSUME NEW k \in 0..(run[i] - 1) PROVE s[i] - k * f \in S
        BY DEF Row
      <4>1. CASE k = 0
        BY <3>2, <4>1
      <4>2. CASE k > 0
        <5>1. k - 1 \in 0..(run[h] - 1)
          BY <3>3, <4>2
        <5>2. s[h] - (k - 1) * f \in S
          BY <3>1, <5>1 DEF Row
        <5> QED
          BY <3>4, <5>2
      <4> QED
        BY <3>3, <4>1, <4>2
    <3>6. ASSUME NEW m \in Nat, Row(S, f, s[i], m)
          PROVE  m <= run[i]
      <4>1. CASE m = 0
        BY <3>3, <4>1
      <4>2. CASE m > 0
        <5>1. Row(S, f, s[h], m - 1)
          <6> SUFFICES ASSUME NEW k \in 0..(m - 1 - 1) PROVE s[h] - k * f \in S
            BY DEF Row
          <6>1. k + 1 \in 0..(m - 1) /\ k + 1 \in Int /\ (k + 1) - 1 = k
            BY <4>2
          <6>2. s[i] - (k + 1) * f \in S
            BY <3>6, <6>1 DEF Row
          <6>3. s[i] - (k + 1) * f = s[h] - ((k + 1) - 1) * f
            BY <3>4, <6>1
          <6> QED
            BY <6>1, <6>2, <6>3
        <5>2. m - 1 \in Nat
          BY <4>2
        <5>3. m - 1 <= run[h]
          BY <3>1, <5>1, <5>2
        <5> QED
          BY <3>3, <5>3
      <4> QED
        BY <4>1, <4>2
    <3> QED
      BY <3>3, <3>5, <3>6
  <2>3. CASE ~Near(i)
    <3>1. run[i] = 1
      BY <1>1, <2>1, <2>3
    <3>2. s[i] \in Nat /\ s[i] \in S
      BY <1>2, <2>1
    <3>3. s[i] - 0 * f = s[i] /\ s[i] - 1 * f = s[i] - f
      BY <3>2
    <3>4. Row(S, f, s[i], 1)
      <4> SUFFICES ASSUME NEW k \in 0..(1 - 1) PROVE s[i] - k * f \in S
        BY DEF Row
      <4>1. k = 0
        OBVIOUS
      <4> QED
        BY <3>2, <3>3, <4>1
    <3>5. ASSUME NEW m \in Nat, Row(S, f, s[i], m)
          PROVE  m <= 1
      <4> SUFFICES ASSUME m > 1 PROVE FALSE
        OBVIOUS
      <4>1. 1 \in 0..(m - 1)
        OBVIOUS
      <4>2. s[i] - 1 * f \in S
        BY <3>5, <4>1 DEF Row
      <4> QED
        BY <1>3, <2>1, <2>3, <3>3, <4>2
    <3>6. 1 \in 1..i
      BY <2>1
    <3> QED
      BY <3>1, <3>4, <3>5, <3>6
  <2> QED
    BY <2>2, <2>3
<1> HIDE DEF I
<1>6. Nat \subseteq I
  BY <1>4, <1>5, Induction
<1> HIDE DEF Right
<1>7. \A i \in 1..n : Right(i)
  BY <1>6 DEF I
<1> QED
  BY <1>7 DEF run, Right

\* The greatest number of a set.
LEMMA MaxIs ==
  ASSUME NEW A \in SUBSET Nat, NEW m \in A, \A x \in A : x <= m
  PROVE  Max(A) = m
<1>1. \E y \in A : \A x \in A : y >= x
  BY DEF Nat
<1>2. Max(A) \in A /\ \A x \in A : Max(A) >= x
  BY <1>1 DEF Max
<1>3. Max(A) \in Nat /\ m \in Nat /\ Max(A) >= m /\ Max(A) <= m
  BY <1>2
<1> QED
  BY <1>3

\* A set of numbers up to n has a greatest one.
LEMMA GreatestNumber ==
  ASSUME NEW n \in Nat, NEW A \in SUBSET (0..n), A # {}
  PROVE  \E m \in A : \A x \in A : x <= m
<1> DEFINE B == {k \in 0..n : n - k \in A}
<1>1. B \in SUBSET Nat /\ B # {}
  <2>1. PICK a \in A : TRUE
    OBVIOUS
  <2>2. n - a \in 0..n /\ n - (n - a) = a
    OBVIOUS
  <2> QED
    BY <2>2
<1>2. \A k \in B : k \in 0..n /\ n - k \in A
  OBVIOUS
<1>3. \A x \in A : x \in 0..n /\ n - x \in B
  <2> SUFFICES ASSUME NEW x \in A PROVE x \in 0..n /\ n - x \in B
    OBVIOUS
  <2>1. x \in 0..n /\ n - x \in 0..n /\ n - (n - x) = x
    OBVIOUS
  <2> QED
    BY <2>1
<1> HIDE DEF B
<1>4. PICK k \in B : \A l \in B : k <= l
  BY <1>1, LeastNumber
<1>5. n - k \in A /\ k \in 0..n
  BY <1>2
<1>6. ASSUME NEW x \in A
      PROVE  x <= n - k
  <2>1. x \in 0..n /\ k <= n - x
    BY <1>3, <1>4
  <2> QED
    BY <1>5, <2>1
<1> QED
  BY <1>5, <1>6

\* The length of the longest row of n or fewer periods that ends with one of T.
LongestRow(S, f, n, T) == Max({0} \cup {m \in 1..n : \E p \in T : Row(S, f, p, m)})

LastOf(S) == {p \in S : \A q \in S : q <= p}

\* The streaks computed along the list are the longest row there is, and the longest one
\* that ends with the last period.
LEMMA StreaksAre ==
  ASSUME NEW f \in Nat \ {0}, NEW n, NEW S, NEW s, Lists(s, n, f, S)
  PROVE  longestStreak(f, s) = LongestRow(S, f, n, S) /\ currentStreak(f, s) = LongestRow(S, f, n, LastOf(S))
<1> DEFINE run == Runs(f, s)
           Longest(T) == {0} \cup {m \in 1..n : \E p \in T : Row(S, f, p, m)}
           last == LastOf(S)
           lengths == {0} \cup {run[i] : i \in 1..n}
<1> USE DEF LongestRow, LastOf
<1>1. /\ n \in Nat /\ S \in SUBSET Nat /\ Len(s) = n /\ s \in [1..n -> S]
      /\ \A i \in 1..n : s[i] \in S /\ s[i] \in Nat
      /\ \A a \in S : \E i \in 1..n : s[i] = a
  BY DEF Lists
<1>2. ASSUME NEW i \in 1..n
      PROVE  /\ run[i] \in 1..n /\ Row(S, f, s[i], run[i])
             /\ \A m \in Nat : Row(S, f, s[i], m) => m <= run[i]
  <2>1. /\ run[i] \in 1..i /\ Row(S, f, s[i], run[i])
        /\ \A m \in Nat : Row(S, f, s[i], m) => m <= run[i]
    BY RunsAreRows
  <2> HIDE DEF run
  <2>2. run[i] \in 1..n
    BY <1>1, <2>1
  <2> QED
    BY <2>1, <2>2
<1>3. longestStreak(f, s) = Max(lengths)
  BY <1>1 DEF longestStreak
<1>4. currentStreak(f, s) = IF s = <<>> THEN 0 ELSE run[n]
  BY <1>1 DEF currentStreak
<1> HIDE DEF run
<1>5. \A T : Longest(T) \in SUBSET Nat
  BY <1>1
<1>6. Max(lengths) = Max(Longest(S))
  <2>1. lengths \in SUBSET (0..n) /\ lengths # {} /\ lengths \in SUBSET Nat
    BY <1>1, <1>2
  <2>2. PICK m \in lengths : \A x \in lengths : x <= m
    BY <1>1, <2>1, GreatestNumber
  <2>3. Max(lengths) = m
    BY <2>1, <2>2, MaxIs
  <2>4. m \in Longest(S)
    <3>1. CASE m = 0
      BY <3>1
    <3>2. CASE m # 0
      <4>1. PICK i \in 1..n : m = run[i]
        BY <3>2
      <4> QED
        BY <1>1, <1>2, <4>1
    <3> QED
      BY <3>1, <3>2
  <2>5. ASSUME NEW x \in Longest(S)
        PROVE  x <= m
    <3>0. m \in Nat
      BY <2>1
    <3>1. CASE x = 0
      BY <3>0, <3>1
    <3>2. CASE x # 0
      <4>1. PICK p \in S : x \in 1..n /\ Row(S, f, p, x)
        BY <3>2
      <4>2. PICK i \in 1..n : s[i] = p
        BY <1>1
      <4>3. x <= run[i] /\ run[i] \in lengths
        BY <1>1, <1>2, <4>1, <4>2
      <4>4. run[i] <= m /\ run[i] \in Nat /\ x \in Nat
        <5>1. run[i] <= m
          BY <2>2, <4>3
        <5>2. run[i] \in 1..n /\ x \in 1..n
          BY <1>2, <4>1
        <5> QED
          BY <1>1, <5>1, <5>2
      <4> QED
        BY <3>0, <4>3, <4>4
    <3> QED
      BY <3>1, <3>2
  <2> HIDE DEF lengths, Longest
  <2> QED
    BY <1>5, <2>3, <2>4, <2>5, MaxIs
<1>7. CASE n = 0
  <2>1. S = {} /\ s = <<>>
    BY <1>1, <1>7
  <2>2. Longest(last) = {0}
    BY <2>1
  <2>3. Max({0}) = 0
    BY MaxIs
  <2> QED
    BY <1>3, <1>4, <1>6, <2>1, <2>2, <2>3
<1>8. CASE n # 0
  <2>1. n \in 1..n /\ s # <<>>
    BY <1>1, <1>8
  <2>2. \A q \in S : q <= s[n]
    <3> SUFFICES ASSUME NEW q \in S PROVE q <= s[n]
      OBVIOUS
    <3>1. PICK i \in 1..n : s[i] = q
      BY <1>1
    <3>2. i < n => s[i] < s[n]
      BY <2>1 DEF Lists
    <3>3. s[i] \in Nat /\ s[n] \in Nat
      BY <1>1, <2>1
    <3> QED
      BY <1>1, <3>1, <3>2, <3>3
  <2>3. last = {s[n]}
    <3>1. s[n] \in S /\ s[n] \in Nat
      BY <1>1, <2>1
    <3>2. s[n] \in last
      BY <2>2, <3>1
    <3>3. ASSUME NEW p \in last
          PROVE  p = s[n]
      <4>1. p \in S /\ s[n] <= p /\ p <= s[n]
        BY <2>2, <3>1
      <4>2. p \in Nat
        BY <1>1, <4>1
      <4> HIDE DEF last
      <4> QED
        BY <3>1, <4>1, <4>2
    <3> QED
      BY <3>2, <3>3
  <2>4. run[n] \in Longest(last)
    BY <1>2, <2>1, <2>3
  <2>5. \A x \in Longest(last) : x <= run[n]
    <3> SUFFICES ASSUME NEW x \in Longest(last) PROVE x <= run[n]
      OBVIOUS
    <3>1. run[n] \in Nat
      BY <1>1, <1>2, <2>1
    <3>2. CASE x = 0
      BY <3>1, <3>2
    <3>3. CASE x # 0
      <4>1. x \in Nat /\ Row(S, f, s[n], x)
        BY <2>3, <3>3
      <4> QED
        BY <1>2, <2>1, <4>1
    <3> QED
      BY <3>2, <3>3
  <2>6. Max(Longest(last)) = run[n]
    <3> HIDE DEF Longest, last
    <3> QED
      BY <1>5, <2>4, <2>5, MaxIs
  <2> QED
    BY <1>3, <1>4, <1>6, <2>1, <2>6
<1> QED
  BY <1>7, <1>8

\* The first day of a period is a multiple of its length.
LEMMA AnchorIsMultiple ==
  ASSUME NEW f \in Nat \ {0}, NEW d \in Nat
  PROVE  Anchor(f, d) \in Nat /\ \E k \in Nat : Anchor(f, d) = f * k
<1>1. /\ Anchor(f, d) \in 0..d /\ d \div f \in Nat
      /\ Anchor(f, d) = f * (d \div f)
  BY AnchorIs
<1> QED
  BY <1>1

\* A habit and its completions: frequency, start, end, the day it is, the dates.
History(f, start, end, today, dates) ==
  f \in Nat \ {0} /\ start \in Nat /\ end \in Nat \cup {NoEnd} /\ today \in Nat /\ dates \in SUBSET Nat

\* The completed periods that a streak is counted along are those the history shows.
LEMMA CompletedAre ==
  ASSUME NEW f, NEW start, NEW end, NEW today, NEW dates, History(f, start, end, today, dates)
  PROVE  LET b == Bounds(f, start, end, today)
             S == CompletedPeriods(f, start, end, today, dates)
         IN  /\ S = {a \in {Anchor(f, d) : d \in dates} : b.from <= a /\ a <= b.to}
             /\ S \in SUBSET Nat /\ IsFiniteSet(S)
             /\ \A a \in S : \E k \in Nat : a = f * k
<1> USE DEF History
<1> DEFINE b == Bounds(f, start, end, today)
           anchors == {Anchor(f, d) : d \in dates}
           S == CompletedPeriods(f, start, end, today, dates)
<1>1. b.from = Anchor(f, start) /\ b.to = Anchor(f, LastDay(end, today))
  BY DEF Bounds
<1>2. LastDay(end, today) \in Nat
  BY DEF LastDay, NoEnd
<1>3. b.from \in Nat /\ b.to \in Nat /\ \E p \in Nat : b.from = f * p
  BY <1>1, <1>2, AnchorIsMultiple
<1>4. ASSUME NEW a \in anchors
      PROVE  a \in Nat /\ \E k \in Nat : a = f * k
  <2>1. PICK d \in dates : a = Anchor(f, d)
    OBVIOUS
  <2> QED
    BY <2>1, AnchorIsMultiple
<1>5. S = {a \in b.from..b.to : (a - b.from) % f = 0} \cap anchors
  BY DEF CompletedPeriods, Periods
<1> HIDE DEF b, anchors, S
<1>6. ASSUME NEW a \in anchors
      PROVE  (a - b.from) % f = 0
  <2>1. PICK p \in Nat, k \in Nat : b.from = f * p /\ a = f * k
    BY <1>3, <1>4
  <2>2. a - b.from = f * (k - p) + 0
    BY <2>1
  <2>3. (f * (k - p) + 0) % f = 0
    <3>1. k - p \in Int /\ 0 \in 0..(f - 1)
      OBVIOUS
    <3> QED
      BY <3>1, DivisionUnique
  <2> QED
    BY <2>2, <2>3
<1>7. S = {a \in anchors : b.from <= a /\ a <= b.to}
  <2>1. \A a \in anchors : a \in b.from..b.to <=> b.from <= a /\ a <= b.to
    BY <1>3, <1>4
  <2> QED
    BY <1>5, <1>6, <2>1
<1>8. S \in SUBSET Nat /\ S \in SUBSET (b.from..b.to)
  BY <1>4, <1>5
<1>9. IsFiniteSet(S)
  <2>1. IsFiniteSet(b.from..b.to)
    <3>1. b.from \in Int /\ b.to \in Int
      BY <1>3
    <3> QED
      BY <3>1, FS_Interval
  <2> QED
    BY <1>8, <2>1, FS_Subset
<1>10. \A a \in S : \E k \in Nat : a = f * k
  BY <1>4, <1>7
<1> QED
  BY <1>7, <1>8, <1>9, <1>10 DEF b, anchors, S

\* The number of eligible periods, which is computed, is the number of them.
LEMMA CountIs ==
  ASSUME NEW f \in Nat \ {0}, NEW start \in Nat, NEW end \in Nat \cup {NoEnd}, NEW today \in Nat
  PROVE  EligibleCount(f, start, end, today) = Cardinality(Periods(f, start, end, today))
<1> DEFINE b == Bounds(f, start, end, today)
           from == b.from
           to == b.to
           S == {a \in from..to : (a - from) % f = 0}
<1>1. from = Anchor(f, start) /\ to = Anchor(f, LastDay(end, today))
  BY DEF Bounds
<1>2. LastDay(end, today) \in Nat
  BY DEF LastDay, NoEnd
<1>3. from \in Nat /\ to \in Nat /\ (\E p \in Nat : from = f * p) /\ \E q \in Nat : to = f * q
  BY <1>1, <1>2, AnchorIsMultiple
<1>4. Periods(f, start, end, today) = S
  BY DEF Periods
<1>5. EligibleCount(f, start, end, today) = IF to < from THEN 0 ELSE (to - from) \div f + 1
  BY DEF EligibleCount
<1> HIDE DEF from, to
<1>6. CASE to < from
  <2>1. S = {}
    BY <1>3, <1>6
  <2> QED
    BY <1>4, <1>5, <1>6, <2>1, FS_EmptySet
<1>7. CASE ~(to < from)
  <2>1. PICK p \in Nat, q \in Nat : from = f * p /\ to = f * q
    BY <1>3
  <2>2. p <= q
    <3>1. q < p => f * q + f <= f * p
      BY MoreTimes
    <3> QED
      BY <1>3, <1>7, <2>1, <3>1
  <2> DEFINE n == q - p
             g == [k \in 0..n |-> from + f * k]
  <2>3. n \in Nat /\ to - from = f * n + 0 /\ to = from + f * n
    BY <2>1, <2>2
  <2>4. (to - from) \div f = n
    <3>1. 0 \in 0..(f - 1) /\ n \in Int
      BY <2>3
    <3> QED
      BY <2>3, <3>1, DivisionUnique
  <2> HIDE DEF n
  <2>5. \A k \in Nat : /\ f * k \in Nat /\ (from + f * k) - from = f * k + 0
                       /\ (f * k + 0) % f = 0
    <3> SUFFICES ASSUME NEW k \in Nat
                 PROVE  f * k \in Nat /\ (from + f * k) - from = f * k + 0 /\ (f * k + 0) % f = 0
      OBVIOUS
    <3>1. f * k \in Nat
      OBVIOUS
    <3>2. (f * k + 0) % f = 0
      <4>1. 0 \in 0..(f - 1) /\ k \in Int
        OBVIOUS
      <4> QED
        BY <4>1, DivisionUnique
    <3> QED
      BY <1>3, <3>1, <3>2
  <2>6. \A k \in 0..n : from + f * k \in S
    <3> SUFFICES ASSUME NEW k \in 0..n PROVE from + f * k \in S
      OBVIOUS
    <3>1. f * k <= f * n /\ f * k \in Nat /\ f * n \in Nat
      <4>1. k < n => f * k + f <= f * n
        BY <2>3, MoreTimes
      <4>2. f * k \in Nat /\ f * n \in Nat
        BY <2>3, <2>5
      <4> QED
        BY <2>3, <4>1, <4>2
    <3>2. from + f * k \in from..to
      BY <1>3, <2>3, <3>1
    <3>3. ((from + f * k) - from) % f = 0
      BY <2>5
    <3> QED
      BY <3>2, <3>3
  <2>7. ASSUME NEW a \in S
        PROVE  \E k \in 0..n : a = from + f * k
    <3> DEFINE k == (a - from) \div f
    <3>1. a \in from..to /\ (a - from) % f = 0 /\ a - from \in Nat
      BY <1>3
    <3>2. k \in Int /\ a - from = f * k + 0
      <4> DEFINE x == a - from
      <4>1. x \in Int /\ x % f = 0 /\ k = x \div f
        BY <3>1
      <4> HIDE DEF x, k
      <4>2. k \in Int /\ x = f * k + (x % f)
        BY <4>1, Division
      <4>3. k \in Int /\ x = f * k + 0
        BY <4>1, <4>2
      <4> QED
        BY <4>3 DEF x
    <3> HIDE DEF k
    <3>3. k >= 0
      <4> SUFFICES ASSUME k < 0 PROVE FALSE
        BY <3>2
      <4>1. f * k + f <= f * 0 /\ f * 0 = 0
        BY <3>2, MoreTimes
      <4> QED
        BY <3>1, <3>2, <4>1
    <3>4. k <= n
      <4> SUFFICES ASSUME n < k PROVE FALSE
        BY <2>3, <3>2
      <4>1. f * n + f <= f * k /\ f * n \in Int /\ f * k \in Int
        BY <2>3, <3>2, MoreTimes
      <4> QED
        BY <1>3, <2>3, <3>1, <3>2, <4>1
    <3>5. a = from + f * k
      BY <1>3, <3>1, <3>2
    <3>6. k \in 0..n
      BY <2>3, <3>2, <3>3, <3>4
    <3> QED
      BY <3>5, <3>6
  <2>8. \A k, l \in 0..n : from + f * k = from + f * l => k = l
    <3> SUFFICES ASSUME NEW k \in 0..n, NEW l \in 0..n, from + f * k = from + f * l PROVE k = l
      OBVIOUS
    <3>1. (k < l => f * k + f <= f * l) /\ (l < k => f * l + f <= f * k) /\ f * k \in Int /\ f * l \in Int
      BY MoreTimes
    <3> QED
      BY <1>3, <3>1
  <2> HIDE DEF S
  <2>9. g \in Bijection(0..n, S)
    <3>1. g \in [0..n -> S]
      BY <2>6
    <3>2. \A k, l \in 0..n : g[k] = g[l] => k = l
      BY <2>8
    <3>3. \A a \in S : \E k \in 0..n : g[k] = a
      BY <2>7
    <3> HIDE DEF g
    <3> QED
      BY <3>1, <3>2, <3>3 DEF Bijection, Injection, Surjection, IsInjective
  <2>10. IsFiniteSet(0..n) /\ Cardinality(0..n) = n + 1
    BY <2>3, FS_Interval
  <2>11. Cardinality(S) = n + 1
    <3>1. ExistsBijection(0..n, S)
      BY <2>9 DEF ExistsBijection
    <3> QED
      BY <2>10, <3>1, FS_Bijection
  <2> QED
    BY <1>4, <1>5, <1>7, <2>4, <2>11
<1> QED
  BY <1>6, <1>7

\* The streaks of a habit (habitStreak.ts), which are computed along its sorted completions,
\* are what its history shows, whatever its frequency and however it was edited: the longest
\* row of completed periods, and the longest one that ends with the last of them.
THEOREM StreaksAreHistory ==
  ASSUME NEW f, NEW start, NEW end, NEW today, NEW dates, History(f, start, end, today, dates)
  PROVE  LET S == CompletedPeriods(f, start, end, today, dates)
             s == InRange(f, start, end, today, dates)
             n == Cardinality(S)
         IN  longestStreak(f, s) = LongestRow(S, f, n, S) /\ currentStreak(f, s) = LongestRow(S, f, n, LastOf(S))
<1> DEFINE b == Bounds(f, start, end, today)
           S == CompletedPeriods(f, start, end, today, dates)
           n == Cardinality(S)
           s == Ascending(S)
<1>1. S = {a \in {Anchor(f, d) : d \in dates} : b.from <= a /\ a <= b.to}
  BY CompletedAre
<1>2. S \in SUBSET Nat /\ IsFiniteSet(S) /\ \A a \in S : \E k \in Nat : a = f * k
  BY CompletedAre
<1>3. InRange(f, start, end, today, dates) = s
  BY <1>1 DEF InRange
<1> HIDE DEF S
<1>4. Lists(s, n, f, S)
  <2>1. /\ n \in Nat /\ s \in [1..n -> S]
        /\ \A i, j \in 1..n : i < j => s[i] < s[j]
        /\ \A a \in S : \E i \in 1..n : s[i] = a
    BY <1>2, AscendingIs
  <2>2. Len(s) = n
    <3> HIDE DEF s, n
    <3> QED
      BY <2>1
  <2> HIDE DEF s, n
  <2> QED
    BY <1>2, <2>1, <2>2 DEF Lists
<1> HIDE DEF s, n
<1>5. longestStreak(f, s) = LongestRow(S, f, n, S) /\ currentStreak(f, s) = LongestRow(S, f, n, LastOf(S))
  <2>1. f \in Nat \ {0}
    BY DEF History
  <2> QED
    BY <1>4, <2>1, StreaksAre
<1> QED
  BY <1>3, <1>5 DEF S, n
=============================================================================
