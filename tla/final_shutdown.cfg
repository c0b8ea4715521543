CONSTANTS
  c1 = c1
  c2 = c2
  Clients = {c1, c2}
  MaxSegments = 1
  MaxTries = 1
  GateCapacity = 2
  MaxRestarts = 0
  WritesFail = FALSE
  MovesFail = FALSE
  Drops = TRUE
SPECIFICATION Spec
INVARIANT
  ShutdownPreservesWaiting
CHECK_DEADLOCK FALSE
