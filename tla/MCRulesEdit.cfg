\* Only the start date of a monthly rule is edited.
SPECIFICATION Spec
CONSTANTS
  Requests = {r1, r2}
  None = None
  MonthLength <- MonthLengths
  Week = 2
  Year = 2
  MaxDay = 5
  MaxEdits = 1
  RuleFrequencies = {"MONTHLY"}
INVARIANT EditIsKept
CHECK_DEADLOCK FALSE
