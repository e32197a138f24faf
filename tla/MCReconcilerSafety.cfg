SPECIFICATION SafetySpec
CONSTANTS
  net = net
  web = web
  api = api
  odd = odd
  w1 = w1
  w2 = w2
  v1 = v1
  v2 = v2
  bad = bad
  id = id
  unset = unset
  NoKey = NoKey
  NoId = NoId
  Absent = Absent
  NoObj = NoObj
  Fields <- MCFields
  IdField = id
  Bases <- MCBases
  BadBases = {bad}
  Resources <- MCPair
  Networks <- MCPairNet
  Managed <- MCPair
  Offers <- MCPairOnce
  Workers <- MCWorkers
  Ids = {1, 2, 3, 4, 5, 6, 7, 8}
  FaultKinds = {"reply", "start", "vanish", "stop", "unplug"}
  MaxFaults = 1
  MaxWrites = 3
  MayCancel = TRUE
SYMMETRY MCSymmetry
INVARIANTS
  TypeOK
  NoOrphans
  SnapshotCurrent
  StatusNamesTheObject
  IInv
  NameKnown
PROPERTY RemovalIsAsked
CHECK_DEADLOCK FALSE
