CONSTANTS
  c1 = c1
  c2 = c2
  Clients = {c1, c2}
  MaxSegments = 1
  MaxTries = 2
  GateCapacity = 2
  MaxRestarts = 1
  WritesFail = FALSE
  MovesFail = FALSE
  Drops = TRUE
SPECIFICATION Spec
SYMMETRY ClientSymmetry
INVARIANTS
  TypeOK
  Custody
  PendingExact
PROPERTY
  CustodyRefined
CHECK_DEADLOCK FALSE
