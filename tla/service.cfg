CONSTANTS
  r1 = r1
  r2 = r2
  r3 = r3
  a1 = a1
  m1 = m1
  m2 = m2
  Requests = {r1, r2, r3}
  Warmups = {a1}
  Models = {m1, m2}
  CapuModels = {m1}
  WarmStart = {m2}
  Unknown = Unknown
  NoWorker = NoWorker
  Long = {r3}
  Mortal = {1}
  Chatty = {1}
  Fickle = {r1}
SPECIFICATION MCSpec
INVARIANTS
  TypeOK
  LoadedOnce
  NoStrayChild
  DroppedUnused
  TwoWorkersFailed
  AnswersOwnText
PROPERTY
  EveryAcceptedAnswered
CHECK_DEADLOCK FALSE
