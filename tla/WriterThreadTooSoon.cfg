SPECIFICATION LoopSpec

CONSTANTS
  Minute = 2
  MaxTicks = 1
  Nap = 1

INVARIANT AsAnnounced

CHECK_DEADLOCK FALSE
