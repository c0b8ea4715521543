CONSTANTS
  c1 = c1
  Clients = {c1}
  MaxSegments = 2
  MaxTries = 2
  GateCapacity = 4
  MaxRestarts = 1
  WritesFail = TRUE
  MovesFail = FALSE
  Drops = TRUE
SPECIFICATION FairSpec
INVARIANTS
  PipelineInv
  CaptureOrder
PROPERTY
  EveryFinalSettles
CHECK_DEADLOCK FALSE
