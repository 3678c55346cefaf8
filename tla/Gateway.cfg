SPECIFICATION LogFairSpec

CONSTANTS
  MaxRuns = 3
  MaxSignals = 2

INVARIANTS
  TypeOK
  Lifetimes
  FaultsExplained
  PublishExplained

PROPERTIES
  SignalEndsRun
  SignalsObeyed

\* The program ends.
CHECK_DEADLOCK FALSE
