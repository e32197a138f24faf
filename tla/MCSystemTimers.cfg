SPECIFICATION SystemSpec
CONSTANTS
  web = web
  w1 = w1
  w2 = w2
  v1 = v1
  bad = bad
  id = id
  NoKey = NoKey
  NoId = NoId
  Absent = Absent
  NoObj = NoObj
  Keys = {web}
  Workers = {w1, w2}
  Base = 5
  MaxDelay = 1000
  ShiftCap = 20
  MaxInt = 32767
  MaxFails = 2
  MaxTimers = 2
  Networks = {}
  Managed = {web}
  Fields = {id}
  IdField = id
  Bases = {v1, bad}
  BadBases = {bad}
  Ids = {1, 2, 3, 4}
  Offers <- MCOffers
  FaultKinds = {"call", "store", "vanish", "crash"}
  MaxFaults = 1
  MaxWrites = 2
  MayCancel = TRUE
INVARIANT OneTimerPerKey
CHECK_DEADLOCK FALSE
