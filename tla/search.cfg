SPECIFICATION FairSpec
CONSTANTS
  a = a  u = u  r = r
  NoUpload = NoUpload
  Op = {a}
  Upload = {u}
  UploadOp <- OnlyA
  CallsMayFail = TRUE
  Replica = {r}
  History = 1
  DefaultLimit = 1
  MaxLimit = 2
  Window = 3
  MaxLate = 1
  Limits = {1, 2}
  Filters = {"ANYTHING", "SUCCEEDED"}
INVARIANTS TypeOK IndexNeverAhead FiltersWork PagingMissesNothing SuccessOnItsWay
PROPERTIES SuccessStaysFound SucceededIsFound
CHECK_DEADLOCK FALSE
