SPECIFICATION Spec
CONSTANTS
  None = None
  Threads = {t1, t2}
  Grants = {g1, g2}
  Keys = {k1, k2}
  Proposals = {p1, p2}
  MaxGrants = 1
  MaxKeys = 2
SYMMETRY Symmetry
INVARIANTS TypeOK ApprovedProposal AuditTellsTruth DoomedNeverPosts
PROPERTY KeepsLedger
