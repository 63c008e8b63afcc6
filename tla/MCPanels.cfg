SPECIFICATION PanelsSpec
CONSTANTS
  s1 = s1
  i1 = i1
  i2 = i2
  Service = {s1}
  Group <- MCGroup
  MaxSave = 2
  MaxAsk = 1
  Outcome = {"warning"}
  MaxRun = 2
  Patience = 2
  Input <- MCInput
  All = i1
  MaxQuestion = 2
  MaxCall = 2
INVARIANTS LastSaveWins NoGhostProgress
PROPERTY QuietAgain
CHECK_DEADLOCK FALSE
