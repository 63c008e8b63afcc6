SPECIFICATION Spec
CONSTANTS
  None = None
  Threads = {t1, t2}
  Grants = {g1}
  Keys = {k1, k2}
  Proposals = {p1}
  MaxGrants = 1
  MaxKeys = 2
INVARIANT OneTimeApproval
