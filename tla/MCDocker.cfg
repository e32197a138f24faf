SPECIFICATION Spec
CONSTANTS
  net = net
  web = web
  v1 = v1
  v2 = v2
  bad = bad
  NoObj = NoObj
  Resources <- MCResources
  Networks = {net}
  Bases <- MCBases
  BadBases = {bad}
  Ids = {1, 2, 3, 4, 5}
  Wants <- MCWants
  MaxFaults = 2
INVARIANTS
  TypeOK
  IInv
PROPERTIES
  ImplementsProvider
  ForeignUntouched
