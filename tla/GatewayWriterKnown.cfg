SPECIFICATION LogSpec

CONSTANTS
  MaxRuns = 3
  MaxSignals = 2

INVARIANT WriterKnown

\* The program ends.
CHECK_DEADLOCK FALSE
