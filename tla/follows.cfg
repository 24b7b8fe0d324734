SPECIFICATION FairSpec
CONSTANTS
  r1 = r1  r2 = r2  drain = drain  undrain = undrain
  Instance = {1, 2}
  Overlap = TRUE
  Replica = {r1, r2}
  Request = {drain}
  Wanted <- OnlyDrain
  Lease = 1
  MaxQueue = 1
  CallsMayFail = FALSE
PROPERTIES RowFollowsRun
CHECK_DEADLOCK FALSE
