CONSTANTS
  MaxTurns = 2
  MaxSegments = 3
  TranslationCapacity = 1
  WritesFail = TRUE
  Conducts = {{}, {"reused_ids", "mixed_modes", "outages"}}
  MaxChunks = 2
  MaxConnections = 3
  NoLine <- NoLineMC
  Lines <- LinesMC
SPECIFICATION MCSpec
INVARIANTS
  TypeOK
  SegmentKeepsTurn
  FinalIsClosed
  AtMostOneJob
  ReplyAnswersRequest
PROPERTIES
  TranslationMatchesSource
  EveryTurnFinalizes
CHECK_DEADLOCK FALSE
