\* Two attachers, two attaches each; a leftover object from an earlier
\* runtime; sizes below and above the minimum; a header smaller than a
\* page.  Attachers may start at any time, before, during or after shm_init.
CONSTANTS
  Attachers = {a1, a2}
  Sizes = {1, 3}
  MinSize = 2
  Page = 2
  HeaderSize = 1
  OldSize = 2
  MaxAttaches = 2
  None = None
SPECIFICATION Spec
INVARIANTS
  TypeOK
  MappedWithinObject
\* The processes stop once their attaches are used up.
CHECK_DEADLOCK FALSE
