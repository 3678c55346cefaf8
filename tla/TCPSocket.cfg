SPECIFICATION DeliveryFairSpec

CONSTANTS
  LoginSize = 2
  FrameSize = 2
  MaxFrames = 3
  MaxBytes = 4
  MaxConns = 2
  MaxMessages = 3

INVARIANTS
  TypeOK
  ServerReads
  LinesInOrder
  AtMostOnce
  LossBounded

PROPERTIES
  EndIsNoticed

\* The bound on the connections is reached.
CHECK_DEADLOCK FALSE
