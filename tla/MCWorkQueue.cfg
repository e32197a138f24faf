SPECIFICATION Spec
CONSTANTS
  k1 = k1
  k2 = k2
  w1 = w1
  w2 = w2
  NoKey = NoKey
  Keys <- MCKeys
  Workers <- MCWorkers
  Base = 5
  MaxDelay = 1000
  ShiftCap = 20
  MaxInt = 32767
  MaxFails = 2
  MaxTimers = 1
INVARIANTS
  TypeOK
  ReadyIsDirtyIdle
  OneWorkerPerKey
  NoLostWakeup
  FailureIsRetried
  DrainedAtExit
  IInv
  DelayAsMeant
PROPERTIES
  PerItemBackoff
  ImplementsKeyQueue
  ShutdownEnds
CHECK_DEADLOCK FALSE
