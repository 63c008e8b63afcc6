SPECIFICATION Spec
CONSTANTS
  None = None
  Clients = {c1}
  Tokens = {k1, k2}
  Threads = {t1, t2}
INVARIANT RetiredIsDead
