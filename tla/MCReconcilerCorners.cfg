SPECIFICATION Spec
CONSTANTS
  net = net
  web = web
  api = api
  odd = odd
  w1 = w1
  w2 = w2
  v1 = v1
  v2 = v2
  bad = bad
  id = id
  unset = unset
  NoKey = NoKey
  NoId = NoId
  Absent = Absent
  NoObj = NoObj
  Fields <- MCFields
  IdField = id
  Bases <- MCBases
  BadBases = {bad}
  Resources <- MCCorner
  Networks = {}
  Managed <- MCOwned
  Offers <- MCCornerOffers
  Workers <- MCWorkers
  Ids = {1, 2, 3, 4, 5, 6, 7, 8}
  FaultKinds = {"store", "crash"}
  MaxFaults = 1
  MaxWrites = 2
  MayCancel = FALSE
PROPERTIES
  EventuallySettled
  DeletionCompletes
CHECK_DEADLOCK FALSE
