CONSTANTS
  Width = 5
  Base = 8
  BufSize = 6
  Id = Id
  NullId = NullId
  Sizes = {1, 4}
  Alignments = {0, 2}
  ObjSize = 2
  Counts = {1}
  MaxOps = 4
  HeaderSize = 1
  MinBackendSize = 9
  BackendSizes = {2, 9}
  MaxCalls = 3
  BlockAddr = 5
SPECIFICATION MCSpec



INVARIANT HeldPtrsInAllocator
CHECK_DEADLOCK FALSE
