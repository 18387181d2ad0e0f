SPECIFICATION Spec
CONSTANTS
  None = None
  Top = 11
  Prefix = 1
  SubBits = 1
  Trip = 2
  PendInline = 1
  Builds <- All
  MaxBytes = 3
  MaxRefs = 2
INVARIANTS
  HeapSound
  RegionsSound
  RcExact
CHECK_DEADLOCK FALSE
