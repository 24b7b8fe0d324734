SPECIFICATION FairSpec
CONSTANTS
  r1 = r1  r2 = r2  drain = drain  undrain = undrain
  Instance = {1, 2}
  Overlap = FALSE
  Replica = {r1}
  Request = {drain, undrain}
  Wanted <- DrainThenUndrain
  Lease = 2
  MaxQueue = 2
  CallsMayFail = TRUE
INVARIANTS TypeOK
PROPERTIES DrainEndsByRequest OfflineOnlyWhenSilent LaterRunKeepsRow DeadNodeLeaves
CHECK_DEADLOCK FALSE
