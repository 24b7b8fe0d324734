SPECIFICATION Spec
CONSTANTS
  r1 = r1  r2 = r2  drain = drain  undrain = undrain
  Instance = {1}
  Overlap = FALSE
  Replica = {r1}
  Request = {drain}
  Wanted <- OnlyDrain
  Lease = 1
  MaxQueue = 1
  CallsMayFail = FALSE
PROPERTIES DrainTakesEffect
CHECK_DEADLOCK FALSE
