SPECIFICATION Spec
CONSTANTS
  Width = 3
  FirstCap = 1
  None = None
  ManagedPrefix = 2
  MaxDepth = 2
  Programs <- ImagePrograms
  MaxLen = 1
  LaneOps = {}
  ZipOps = {}
  Limit = 40
INVARIANT NoForeignCode
CHECK_DEADLOCK FALSE
