SPECIFICATION Spec
CONSTANTS
  e1 = e1
  t1 = t1
  External = {e1, e2}
  Feed = {t1}
  Unnamed = {}
  OwnerOf <- TwoAccounts
  Ids = {i1, i2}
  Requests = {r1, r2}
  None = None
SYMMETRY Interchangeable
INVARIANTS ImportedOnce
CHECK_DEADLOCK FALSE
