SPECIFICATION FairSpec
CONSTANTS
  a = a  b = b  ua = ua  ub = ub  n1 = n1
  v = v  w = w  x = x  i = i  j = j  l1 = l1
  NoUpload = NoUpload  NotOnline = NotOnline  NoOp = NoOp
  OldConfig = OldConfig  NoConfig = NoConfig
  Op = {a}
  Upload = {ua, ub}
  UploadOp <- BothForA
  Node = {n1}
  OpNode <- OnN1
  Worker = {v, w, x}
  NodeOf <- SameNode
  Instance = {i, j}
  InstanceOf <- SharedInstance
  Mortal = {v, w}
  Exclusive = FALSE
  Location = {l1}
  LocationOf <- OneRoot
  InitialConfig = {OldConfig, NoConfig}
  CallsMayFail = TRUE
INVARIANTS TypeOK SingleExecution AppliesOnlyWhileApplying DeploysFileOfRecord
PROPERTIES StatusNeverRegresses FollowsLifecycle RefusedStaysRefused DispatchedSettlesOrWedges
