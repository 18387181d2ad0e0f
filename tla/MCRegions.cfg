SPECIFICATION Spec
CONSTANTS
  None = None
  Slabs = {s1, s2, s3}
  Scopes = {c1, c2}
  Room = {1, 2}
  MaxRoots = 1
  MaxShared = 1
  Programs <- Nestings
SYMMETRY Symmetric
INVARIANTS
  RegionsNest
  SlabsKept
  RootsKept
CHECK_DEADLOCK FALSE
