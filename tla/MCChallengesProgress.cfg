\* The claim of challengeProgress.ts about the completions of a challenge.
SPECIFICATION Spec
CONSTANTS
  Requests = {r1}
  None = None
  Frequencies = {2}
  MaxDay = 4
  MaxEdits = 1
  Target = 1
INVARIANTS WorkInWindowCounts
\* Out of days and edits, with everything deleted, the instance is at rest.
CHECK_DEADLOCK FALSE
