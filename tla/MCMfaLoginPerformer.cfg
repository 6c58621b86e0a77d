\* The claim of disableMfa about the session that performs the change.
SPECIFICATION Spec
CONSTANTS
  Tokens = {t1}
  Requests = {r1}
  Secrets = {k1}
  Codes = {c1}
  Sessions = {s1, s2}
  None = None
  Cooldown = FALSE
  MaxRows = 3
PROPERTIES
  PerformerSurvives
\* Out of ids, the bounded instance is at rest.
CHECK_DEADLOCK FALSE
