SPECIFICATION Spec
CONSTANTS
  net = net
  web = web
  api = api
  odd = odd
  w1 = w1
  w2 = w2
  v1 = v1
  v2 = v2
  bad = bad
  id = id
  unset = unset
  NoKey = NoKey
  NoId = NoId
  Absent = Absent
  NoObj = NoObj
  Fields <- MCFields
  IdField = id
  Bases <- MCBases
  BadBases = {bad}
  Resources <- MCRing
  Networks = {}
  Managed <- MCRing
  Offers <- MCRingOffers
  Workers <- MCOne
  Ids = {1, 2, 3, 4, 5, 6, 7, 8}
  FaultKinds = {}
  MaxFaults = 0
  MaxWrites = 3
  MayCancel = FALSE
PROPERTY CyclesStall
CHECK_DEADLOCK FALSE
