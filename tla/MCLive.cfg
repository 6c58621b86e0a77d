\* One account, three links, two requests in flight; no symmetry, because
\* liveness is checked.  The process serves up to two requests at once.  A page shows
\* two things under two queries, has two requests in flight, and four in a
\* behaviour: a first load, an operation, and two loads that overtake.
SPECIFICATION LiveSpec
CONSTANTS
  Tokens = {t1, t2, t3}
  Requests = {r1, r2}
  None = None
  Cooldown = TRUE
  MaxBusy = 2
  Things = {x, y}
  Queries = {q1, q2}
  Slots = {1, 2}
  MaxRequests = 4
INVARIANTS
  LiveTypeOK
  OneUnusedLink
  CooldownHolds
  VerifiedOnceByItsLink
  ExitCodeIsHonest
  RowsAreFresh
  SpinnerIsHonest
  DialogsAreOwn
PROPERTIES
  OnlyActiveIsReset
  KeepsPromise
  RequestsFinish
  ShutdownFinishes
