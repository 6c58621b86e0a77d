\* The claim of lockUserRow about locks.
SPECIFICATION Spec
CONSTANTS
  Tokens = {t1}
  Requests = {r1, r2}
  Secrets = {k1}
  Codes = {c1}
  Sessions = {s1}
  None = None
  Cooldown = FALSE
  MaxRows = 3
INVARIANTS
  NoLockCycle
\* Out of ids, the bounded instance is at rest.
CHECK_DEADLOCK FALSE
