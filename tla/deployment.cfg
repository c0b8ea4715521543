CONSTANTS
  c1 = c1
  c2 = c2
  model = model
  extra = extra
  member = member
  Lock <- MCLock
  Archived = {member}
  Unsourced = {extra}
  Warmed <- MCWarmed
  Clis = {c1, c2}
  Service = stt_http
  MaxMishaps = 2
  Settings = {"first", "second"}
  Default = "first"
SPECIFICATION MCSpec
INVARIANTS
  TypeOK
  ServesLocked
  DownloadDelivers
  SetupPrepares
  NothingOrphaned
PROPERTIES
  ValidStaysValid
  InstallApplies
  ComesUp
CHECK_DEADLOCK FALSE
