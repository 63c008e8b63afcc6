SPECIFICATION Spec
CONSTANTS
  Read = {d}
  Write = {w}
  Planned = {p}
  Diagnostics = d
  Service = {s}
  Client = {c1}
  None = None
  MaxClicked = 1
  d = d
  w = w
  p = p
  c1 = c1
  Registered <- MCRegistered
INVARIANT NoForbiddenGrant
PROPERTIES RemovedStaysRemoved CreateStartsOver
