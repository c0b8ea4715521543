CONSTANTS
  Rate = 5
  Window = 2
  MaxSamples = 6
  MaxSpeech = 2
  Heard <- MCHeard
SPECIFICATION MCSpec
INVARIANTS
  TypeOK
  ResolvesLocked
  SegmentTimes
  DecoderGetsEnough
  AnswerReadsAsSegments
  WordsKept
CHECK_DEADLOCK FALSE
