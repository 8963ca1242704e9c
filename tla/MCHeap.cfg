CONSTANTS
  Threads = {t1, t2}
  MaxSize = 12
  InitialOffset = 1
  Sizes = {1, 3}
  Aligns = {1, 4}
  Width = 5
  MaxCalls = 2
SPECIFICATION Spec
INVARIANT TypeOK
INVARIANT NoOverlap
PROPERTY HeapNeverShrinks
PROPERTY AllCallsReturn
PROPERTY HeapRefinesAtomic
CHECK_DEADLOCK FALSE
