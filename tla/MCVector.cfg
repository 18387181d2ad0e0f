SPECIFICATION Spec
CONSTANTS
  Width = 3
  FirstCap = 1
  None = None
  ManagedPrefix = 2
  MaxDepth = 2
  Programs <- MCPrograms
  MaxLen = 2
  LaneOps <- MCLaneOps
  ZipOps <- MCZipOps
  Limit = 40
INVARIANT StoreExact
INVARIANT CopiesFit
PROPERTY ImplementsRows
CHECK_DEADLOCK FALSE
