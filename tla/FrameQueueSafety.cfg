CONSTANTS
  m0 = m0
  m1 = m1
  m2 = m2
  m3 = m3
  None = None
  Message = {m0, m1, m2}
  Size <- MCSize
  HeaderSize = 2
  BufferSize = 2
  Length = 5
SPECIFICATION Spec
INVARIANTS
  TypeOK
  UnreadIntact
  OnlyExactFit
  LossExplained
PROPERTIES
  FaultsExplained
  ImplementsChannel

\* The program stops when it has aborted, or its thread has ended.
CHECK_DEADLOCK FALSE
