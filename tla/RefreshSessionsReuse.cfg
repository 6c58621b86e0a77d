\* The claim of authController.test.ts about a family whose reuse was reported.
SPECIFICATION Spec
CONSTANTS
  Users = {u1}
  Sessions = {s1, s2, s3}
  Requests = {r1, r2}
  None = None
  MaxCuts = 0
INVARIANT ReportedFamilyIsDead
CHECK_DEADLOCK FALSE
