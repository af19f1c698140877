CONSTANTS
  Elem = {a, b}
  Zero = zero
  InitCap = 1
  MaxSize = 5
SPECIFICATION Spec
INVARIANT TypeOK
PROPERTY ImplementsFifo
