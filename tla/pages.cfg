SPECIFICATION Spec
CONSTANTS
  a = a  u = u  r = r
  NoUpload = NoUpload
  Op = {a}
  Upload = {u}
  UploadOp <- OnlyA
  CallsMayFail = FALSE
  Replica = {r}
  History = 3
  DefaultLimit = 1
  MaxLimit = 2
  Window = 6
  MaxLate = 1
  Limits = {3}
  Filters = {"ANYTHING"}
INVARIANTS PagingMissesNothing
CHECK_DEADLOCK FALSE
