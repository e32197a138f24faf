SPECIFICATION Spec
CONSTANTS
  k1 = k1
  k2 = k2
  w1 = w1
  h1 = h1
  h2 = h2
  NoKey = NoKey
  Keys <- MCKeys
  Workers = {w1}
  Handlers <- MCHandlers
  Requests <- MCRequests
  MaxRequests = 3
INVARIANTS
  TypeOK
  NothingOverlooked
PROPERTIES
  WriteIsReconciled
  ExitsPromptly
CHECK_DEADLOCK FALSE
