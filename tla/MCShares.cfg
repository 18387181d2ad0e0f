SPECIFICATION Spec
CONSTANTS
  None = None
  a1 = a1
  a2 = a2
  Actors <- TwoActors
  FixedHeap = {a2}
  Slabs = {s1, s2}
  Objects = {v1, v2}
  PackCap = 2
  WindowCap = 3
  BoxCap = 1
  MaxShares = 2
  Kinds <- EveryWay
SYMMETRY Symmetric
INVARIANTS
  CountsExact
  ReadersKept
  SlabsGoHome
CHECK_DEADLOCK FALSE
