\* Two requests over two challenges, code pages and sessions.
SPECIFICATION BoundedSpec
CONSTANTS
  Tokens = {t1, t2}
  Requests = {r1, r2}
  Secrets = {k1, k2}
  Codes = {c1, c2}
  Sessions = {s1, s2}
  None = None
  Cooldown = FALSE
  MaxRows = 3
SYMMETRY Interchangeable
INVARIANTS
  TypeOK
  SpentOnce
  OnlyNewestPage
  NothingOutlivesChange
PROPERTIES
  SetupIsCurrent
\* Out of ids, the bounded instance is at rest.
CHECK_DEADLOCK FALSE
