SPECIFICATION Spec
CONSTANTS
  N = 9
  r1 = r1
  r2 = r2
  Requesters = {r1, r2}
  None = None
  Pending = Pending
  Cancelled = Cancelled
  Reaper = Reaper
  StackOrder = 0
  StackMax = 6
  TakeOrders <- MCTakeOrders
  Window <- MCWindow
  Ops <- MCOps
  StackAt <- MCStackAt
  QueueMax = 1
  Mortal = {r1}
INVARIANTS
  TypeOK
  ArenaWhole
PROPERTIES
  Answers
CHECK_DEADLOCK FALSE
