CONSTANTS
  m0 = m0
  m1 = m1
  m2 = m2
  m3 = m3
  None = None
  Message = {m1, m2}
  Size <- MCSize
  HeaderSize = 2
  BufferSize = 1
  Length = 7
SPECIFICATION FairSpec
INVARIANT LossExplained
PROPERTIES
  EventuallySent
  ExitEnds

\* The program stops when it has aborted, or its thread has ended.
CHECK_DEADLOCK FALSE
