CONSTANTS
  c1 = c1
  Clients = {c1}
  MaxSegments = 1
  MaxTries = 1
  GateCapacity = 2
  MaxRestarts = 0
  WritesFail = FALSE
  MovesFail = TRUE
  Drops = FALSE
SPECIFICATION Spec
INVARIANT
  AnnouncedIsRetained
CHECK_DEADLOCK FALSE
