SPECIFICATION Spec

CONSTANTS
  Files <- MCFiles
  IntWidth = 20
  LongWidth = 24
  CallsignLength = 2
  LoginRoom = 4

INVARIANTS
  TypeOK
  LastWins
  ValueKept
  AbortExplained

\* The file ends.
CHECK_DEADLOCK FALSE
