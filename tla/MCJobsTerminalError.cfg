SPECIFICATION SafeSpec
CONSTANTS
  NoJob = NoJob
  Jobs = {j1, j2}
  Workers = {w1, w2}
  MaxActive = 2
  Capacity = 3
  MaxAge = 1
  Retention = 0
  MaxOps = 1
  Outcome = {"ok"}
PROPERTY TerminalErrorIsFinal
