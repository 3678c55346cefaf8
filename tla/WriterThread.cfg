SPECIFICATION LoopFairSpec

CONSTANTS
  Minute = 1
  MaxTicks = 1
  Nap = 1

INVARIANTS
  TypeOK
  SocketInUse
  WaitIsTimed
  NotTooSoon
  BackoffGrows
  NearlyInTime

PROPERTIES
  RetryComes
  StopReturns

\* The thread ends.
CHECK_DEADLOCK FALSE
