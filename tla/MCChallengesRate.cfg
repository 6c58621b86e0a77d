\* The claim of docs/architecture.md about the completion rate of a habit.
SPECIFICATION Spec
CONSTANTS
  Requests = {r1}
  None = None
  Frequencies = {1, 2}
  MaxDay = 4
  MaxEdits = 1
  Target = 1
INVARIANTS RateCountsPeriodsOnce
\* Out of days and edits, with everything deleted, the instance is at rest.
CHECK_DEADLOCK FALSE
