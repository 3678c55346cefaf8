CONSTANTS
  Length = 4
  Element <- MCElement
  Zero = 0
  MaxBatch = 5
SPECIFICATION Spec
INVARIANT TypeOK
PROPERTY ImplementsFifo
