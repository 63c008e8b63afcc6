SPECIFICATION Spec
CONSTANTS
  Check = {"clients", "catalog"}
  Response <- MCResponse
  MaxVersion = 3
INVARIANTS ReadyIsOneSnapshot ProgressOfNewest ErrorNamesFailures BusyWhileChecking
PROPERTIES NeverGoesBack CheckingEnds
CHECK_DEADLOCK FALSE
