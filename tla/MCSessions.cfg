\* One account, three sessions, two requests in flight; a tab of two accounts with two
\* tasks.  No symmetry, because liveness is checked.
SPECIFICATION BothSpec
CONSTANTS
  Users = {u1}
  Sessions = {s1, s2, s3}
  Requests = {r1, r2}
  None = None
  MaxCuts = 1
  Accounts = {a, b}
  Tasks = {one, two}
  MaxSessions = 3
INVARIANTS
  SessionTypeOK
  SingleSuccessor
  OneLivePerFamily
  GuardedRevocationComplete
  TabAgrees
PROPERTIES
  RotatedWhileLive
  RequestsFinish
