SPECIFICATION Spec
CONSTANTS
  None = None
  Clients = {c1, c2}
  Tokens = {k1, k2, k3}
  Threads = {t1, t2}
SYMMETRY Symmetry
INVARIANTS TypeOK QuietlyRetiredStaysDead TokenNamesOneClient ObserverNeverWrites
