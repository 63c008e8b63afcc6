SPECIFICATION Spec
CONSTANTS
  None = None
  Threads = {t1}
  Grants = {g1}
  Keys = {k1, k2, k3}
  Proposals = {p1}
  MaxGrants = 1
  MaxKeys = 2
INVARIANT KeysBound
