CONSTANTS
  r1 = r1
  r2 = r2
  Requests = {r1, r2}
  k1 = k1
  k2 = k2
  Keys = {k1, k2}
  f1 = f1
  Fingerprints = {f1}
  NoRequest = NoRequest
  MaxEntries = 2
  Ttl = 1
  CleanupEvery = 2
  MaxTime = 0
  MaxRestarts = 0
  Cancels = FALSE
  WritesFail = FALSE
SPECIFICATION Spec
INVARIANT
  SuccessIsDurable
CHECK_DEADLOCK FALSE
