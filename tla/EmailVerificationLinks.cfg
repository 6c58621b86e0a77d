\* The claim of docs/architecture.md that an account holds one live link.
SPECIFICATION Spec
CONSTANTS
  Tokens = {t1, t2}
  Requests = {r1, r2}
  None = None
  Cooldown = TRUE
INVARIANT OneUnusedLink
