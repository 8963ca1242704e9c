CONSTANTS
  Values = {v1, v2}
  COUNT = 4
  Width = 3
  Overflow = Overflow
  Underflow = Underflow
SPECIFICATION Spec
INVARIANT TypeOK
PROPERTY RingQueueRefinesFifo
