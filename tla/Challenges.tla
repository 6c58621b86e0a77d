----------------------------- MODULE Challenges -----------------------------
(***************************************************************************)
(* One habit of one user and one challenge: completing and uncompleting    *)
(* the current period, editing the habit, joining, leaving and mapping,    *)
(* and an administrator changing the challenge.  Streaks and progress are  *)
(* not stored; they are derived from the completion rows at every request. *)
(*                                                                         *)
(* Completing reads the habit and inserts later.  The other handlers read  *)
(* the rows to refuse, and what a late write of theirs leaves behind is    *)
(* also reached when the change they missed comes after them; so each is   *)
(* one step.  Left out: names, points, a second requirement, and the raw   *)
(* rows of habits that were never mapped.                                  *)
(***************************************************************************)
EXTENDS Concurrency, HabitPeriods

CONSTANTS MaxDay,
          MaxEdits,   \* bound on edits of the habit and of the challenge
          Target      \* completions that a period of the requirement needs

Days == 0..MaxDay

VARIABLES
  day,       \* today, in UTC
  habit,     \* the financial_habits row
  done,      \* habit_completions: completionDate and completedAt
  challenge, \* the challenges row and its requirement's frequency
  joined,    \* the challenge_participants row exists
  mapped,    \* the requirement is mapped to the habit
  edits,
  pc, slot   \* of a request: its next statement, the anchor it worked out

locals == <<pc, slot>>
vars == <<day, habit, done, challenge, joined, mapped, edits, locals>>

Init ==
  /\ day = 0
  /\ habit \in [exists : {TRUE}, active : {TRUE}, frequency : Frequencies,
                start : {0}, end : {NoEnd}]
  /\ challenge \in [exists : {TRUE}, active : {TRUE}, frequency : Frequencies,
                    start : Days, end : Days]
  /\ challenge.start <= challenge.end
  /\ done = {} /\ joined = FALSE /\ mapped = FALSE
  /\ edits = 0
  /\ pc = [r \in Requests |-> "idle"]
  /\ slot = [r \in Requests |-> 0]

Answer(r) == pc' = [pc EXCEPT ![r] = "idle"] /\ slot' = [slot EXCEPT ![r] = 0]
Tables == <<day, habit, done, challenge, joined, mapped, edits>>

isHabitActiveOn(d) == habit.start <= d /\ (habit.end = NoEnd \/ d <= habit.end)

\* The habit is read, and the period of today worked out from its frequency.
ReadForComplete(r) ==
  /\ pc[r] = "idle"
  /\ habit.exists /\ habit.active /\ isHabitActiveOn(day)
  /\ pc' = [pc EXCEPT ![r] = "complete"]
  /\ slot' = [slot EXCEPT ![r] = Anchor(habit.frequency, day)]
  /\ UNCHANGED Tables

ReadForUncomplete(r) ==
  /\ pc[r] = "idle"
  /\ habit.exists
  /\ pc' = [pc EXCEPT ![r] = "uncomplete"]
  /\ slot' = [slot EXCEPT ![r] = Anchor(habit.frequency, day)]
  /\ UNCHANGED Tables

\* The unique constraint turns a second row of the anchor into "already completed".
InsertCompletion(r) ==
  /\ pc[r] = "complete"
  /\ habit.exists
  /\ done' = IF \E c \in done : c.date = slot[r] THEN done
             ELSE done \cup {[date |-> slot[r], at |-> day]}
  /\ Answer(r)
  /\ UNCHANGED <<day, habit, challenge, joined, mapped, edits>>

DeleteCompletion(r) ==
  /\ pc[r] = "uncomplete"
  /\ done' = {c \in done : c.date # slot[r]}
  /\ Answer(r)
  /\ UNCHANGED <<day, habit, challenge, joined, mapped, edits>>

\* The process stops, or the habit is gone when the row is inserted.
Abort(r) ==
  /\ pc[r] # "idle"
  /\ Answer(r)
  /\ UNCHANGED Tables

\* PATCH /habits/:id, one field of the body at a time.  Only a body that names an
\* end date has it compared.
EditHabit(h) ==
  /\ habit.exists /\ edits < MaxEdits /\ edits' = edits + 1
  /\ habit' = h
  /\ UNCHANGED <<day, done, challenge, joined, mapped, locals>>
HabitEdits ==
  {[habit EXCEPT !.frequency = f] : f \in Frequencies}
    \cup {[habit EXCEPT !.start = d] : d \in Days}
    \cup {[habit EXCEPT !.end = e] : e \in {x \in Days \cup {NoEnd} : x # NoEnd => x >= habit.start}}
    \cup {[habit EXCEPT !.active = ~habit.active]}

\* Completions and mappings go with the habit.
DeleteHabit ==
  /\ habit.exists
  /\ habit' = [habit EXCEPT !.exists = FALSE]
  /\ done' = {} /\ mapped' = FALSE
  /\ UNCHANGED <<day, challenge, joined, edits, locals>>

-----------------------------------------------------------------------------
Join ==
  /\ challenge.exists /\ challenge.active
  /\ challenge.start <= day /\ day <= challenge.end
  /\ joined' = TRUE
  /\ UNCHANGED <<day, habit, done, challenge, mapped, edits, locals>>

\* The mappings of a participant go with it.
Leave ==
  /\ challenge.exists
  /\ joined' = FALSE /\ mapped' = FALSE
  /\ UNCHANGED <<day, habit, done, challenge, edits, locals>>

MapHabit ==
  /\ challenge.exists /\ joined
  /\ habit.exists /\ habit.active /\ habit.frequency = challenge.frequency
  /\ habit.start <= challenge.end
  /\ habit.end = NoEnd \/ habit.end >= challenge.start
  /\ mapped' = TRUE
  /\ UNCHANGED <<day, habit, done, challenge, joined, edits, locals>>

\* PATCH /challenges/:id.  The requirements cannot be edited.
EditChallenge(c) ==
  /\ challenge.exists /\ edits < MaxEdits /\ edits' = edits + 1
  /\ c.start <= c.end
  /\ challenge' = c
  /\ UNCHANGED <<day, habit, done, joined, mapped, locals>>
ChallengeEdits ==
  {[challenge EXCEPT !.start = d] : d \in Days} \cup {[challenge EXCEPT !.end = d] : d \in Days}
    \cup {[challenge EXCEPT !.active = ~challenge.active]}

DeleteChallenge ==
  /\ challenge.exists
  /\ challenge' = [challenge EXCEPT !.exists = FALSE]
  /\ joined' = FALSE /\ mapped' = FALSE
  /\ UNCHANGED <<day, habit, done, edits, locals>>

NextDay ==
  /\ day < MaxDay
  /\ day' = day + 1
  /\ UNCHANGED <<habit, done, challenge, joined, mapped, edits, locals>>

Next ==
  \/ \E r \in Requests : \/ ReadForComplete(r) \/ ReadForUncomplete(r)
                         \/ InsertCompletion(r) \/ DeleteCompletion(r) \/ Abort(r)
  \/ \E h \in HabitEdits : EditHabit(h)
  \/ \E c \in ChallengeEdits : EditChallenge(c)
  \/ DeleteHabit \/ Join \/ Leave \/ MapHabit \/ DeleteChallenge \/ NextDay

Spec == Init /\ [][Next]_vars

-----------------------------------------------------------------------------
(***************************************************************************)
(* What is derived from the rows.                                          *)
(***************************************************************************)
Dates == {c.date : c \in done}
Of(Op(_, _, _, _)) == Op(habit.frequency, habit.start, habit.end, day)
Streakable == InRange(habit.frequency, habit.start, habit.end, day, Dates)

\* completionRate of habitStreak: every row counts, up to the eligible periods.
RatedPeriods ==
  LET eligible == Of(EligibleCount)
  IN IF Cardinality(done) < eligible THEN Cardinality(done) ELSE eligible

\* requirementDayWindow: the challenge up to today, and the mapped habit's dates.
Window ==
  LET last == Min({challenge.end, day})
  IN [from |-> IF mapped THEN Max({challenge.start, habit.start}) ELSE challenge.start,
      to   |-> IF mapped /\ habit.end # NoEnd THEN Min({last, habit.end}) ELSE last]
InWindow(d) == Window.from <= d /\ d <= Window.to

EligiblePeriods ==
  IF Window.from > Window.to THEN 0
  ELSE EligibleCount(challenge.frequency, Window.from, Window.to, day)

\* calculateRequirementProgress: the periods with Target completions whose
\* stored date lies in the window, before the cap.
Earned ==
  LET counted == {d \in Dates : mapped /\ InWindow(d)}
      period(d) == Anchor(challenge.frequency, d)
  IN {p \in {period(d) : d \in counted} :
        Cardinality({d \in counted : period(d) = p}) >= Target}

-----------------------------------------------------------------------------
TypeOK ==
  /\ day \in Days
  /\ habit \in [exists : BOOLEAN, active : BOOLEAN, frequency : Frequencies,
                start : Days, end : Days \cup {NoEnd}]
  /\ challenge \in [exists : BOOLEAN, active : BOOLEAN, frequency : Frequencies,
                    start : Days, end : Days]
  /\ done \subseteq [date : Days, at : Days]
  /\ joined \in BOOLEAN /\ mapped \in BOOLEAN
  /\ edits \in 0..MaxEdits
  /\ pc \in [Requests -> {"idle", "complete", "uncomplete"}]
  /\ slot \in [Requests -> Days]

\* The streaks of a habit are what its own history shows: the longest row of
\* completed periods, and the one that ends at the last completed period; and
\* the number of eligible periods is the length of the history.
StreaksAgreeWithHistory ==
  LET f == habit.frequency
      completed == CompletedPeriods(f, habit.start, habit.end, day, Dates)
      isRun(p, n) == \A k \in 0..(n - 1) : p - k * f \in completed
      longestRun(S) == Max({0} \cup {n \in 1..Cardinality(completed) : \E p \in S : isRun(p, n)})
  IN /\ longestStreak(f, Streakable) = longestRun(completed)
     /\ currentStreak(f, Streakable)
          = longestRun({p \in completed : \A q \in completed : q <= p})
     /\ Of(EligibleCount) = Cardinality(Of(Periods))

\* No edit of the habit or the challenge lets a requirement earn more periods than
\* it has: the cap on its progress is never reached.
CapNeverBites == challenge.exists => Cardinality(Earned) <= EligiblePeriods

\* docs/architecture.md: "completionRate = distinct completed periods / eligible
\* periods": a period is rated once, however many rows fall in it.
RateCountsPeriodsOnce ==
  RatedPeriods <= Cardinality({Anchor(habit.frequency, d) : d \in Dates})

\* challengeProgress.ts: "Completions outside that intersection never count; a
\* period counts as completed when the requirement's `target` completions
\* (default 1) fall in it."  So one made inside the intersection counts.
WorkInWindowCounts ==
  (mapped /\ Target = 1) =>
    \A c \in done : (InWindow(c.at) /\ c.date = Anchor(habit.frequency, c.at))
                      => Anchor(challenge.frequency, c.at) \in Earned
=============================================================================
