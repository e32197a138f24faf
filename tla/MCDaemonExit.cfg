SPECIFICATION SafetySpec
CONSTANTS
  k1 = k1
  k2 = k2
  w1 = w1
  h1 = h1
  h2 = h2
  NoKey = NoKey
  Keys <- MCKeys
  Workers = {w1}
  Handlers <- MCHandlers
  Requests <- MCRequests
  MaxRequests = 1
PROPERTY DrainsBeforeExit
CHECK_DEADLOCK FALSE
