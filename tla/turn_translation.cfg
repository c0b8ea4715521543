CONSTANTS
  MaxTurns = 1
  MaxSegments = 1
  TranslationCapacity = 2
  WritesFail = FALSE
  Conducts = {{}}
SPECIFICATION Spec
INVARIANT
  ExactlyOneJob
CHECK_DEADLOCK FALSE
