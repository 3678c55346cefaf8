CONSTANTS
  m0 = m0
  m1 = m1
  m2 = m2
  m3 = m3
  None = None
  Message = {m1, m2, m3}
  Size <- MCSize
  HeaderSize = 2
  BufferSize = 2
  Length = 6
SPECIFICATION SerialSpec
INVARIANT LengthPositive

\* The program stops when it has aborted, or its thread has ended.
CHECK_DEADLOCK FALSE
