SPECIFICATION SafeSpec
CONSTANTS
  NoJob = NoJob
  Jobs = {j1, j2, j3}
  Workers = {w1, w2}
  MaxActive = 1
  Capacity = 2
  MaxAge = 1
  Retention = 0
  MaxOps = 1
  Outcome = {"ok"}
SYMMETRY Symmetry
INVARIANTS TypeOK ActiveBound RetainedBound ActiveIsRegistered FinishedIffTerminal OnePlace ComparisonGoesBack
PROPERTIES KeepsLifecycle CancelIsFinal
