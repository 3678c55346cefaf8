SPECIFICATION Spec

CONSTANT
  MaxRuns = 3

INVARIANTS
  TypeOK
  DaemonServes
  DescriptorsExplained
  LostThreadExplained

PROPERTY
  RestartReads

\* The program ends.
CHECK_DEADLOCK FALSE
