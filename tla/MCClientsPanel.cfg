SPECIFICATION Spec
CONSTANTS
  Client = {c1, c2}
  None = None
  MaxCall = 2
  MaxTime = 3
  Scripted = TRUE
INVARIANTS TypeOK OwnResultStays ControlsFollowCalls OutcomeOfNewest
PROPERTY BusyEnds
CHECK_DEADLOCK FALSE
