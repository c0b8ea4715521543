CONSTANTS
  r1 = r1
  r2 = r2
  r3 = r3
  Requests = {r1, r2, r3}
  k1 = k1
  Keys = {k1}
  f1 = f1
  f2 = f2
  Fingerprints = {f1, f2}
  NoRequest = NoRequest
  MaxEntries = 1
  Ttl = 1
  CleanupEvery = 1
  MaxTime = 1
  MaxRestarts = 0
  Cancels = FALSE
  WritesFail = FALSE
SPECIFICATION FairSpec
PROPERTY
  EveryRequestAnswered
CHECK_DEADLOCK FALSE
