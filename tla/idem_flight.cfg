CONSTANTS
  r1 = r1
  r2 = r2
  r3 = r3
  Requests = {r1, r2, r3}
  k1 = k1
  k2 = k2
  Keys = {k1, k2}
  f1 = f1
  f2 = f2
  Fingerprints = {f1, f2}
  NoRequest = NoRequest
  MaxEntries = 1
  Ttl = 1
  CleanupEvery = 2
  MaxTime = 1
  MaxRestarts = 1
  Cancels = TRUE
  WritesFail = TRUE
SPECIFICATION Spec
INVARIANTS
  TypeOK
  SingleFlight
  AnswersMatch
  MemoryBounded
SYMMETRY Symmetric
CHECK_DEADLOCK FALSE
