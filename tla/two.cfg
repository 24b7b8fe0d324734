SPECIFICATION Spec
CONSTANTS
  a = a  b = b  ua = ua  ub = ub  n1 = n1
  v = v  w = w  x = x  i = i  j = j  l1 = l1
  NoUpload = NoUpload  NotOnline = NotOnline  NoOp = NoOp
  OldConfig = OldConfig  NoConfig = NoConfig
  Op = {a, b}
  Upload = {ua, ub}
  UploadOp <- OnePerOp
  Node = {n1}
  OpNode <- OnN1
  Worker = {v, w}
  NodeOf <- SameNode
  Instance = {i, j}
  InstanceOf <- OwnInstance
  Mortal = {v, w}
  Exclusive = TRUE
  Location = {l1}
  LocationOf <- OneRoot
  InitialConfig = {OldConfig, NoConfig}
  CallsMayFail = TRUE
PROPERTIES SuccessIsLive RolledBackIsRestored HostsDeployAtomically
