SPECIFICATION Spec
CONSTANTS
  Sleepers = {s1}
  Svc = Svc
  None = None
  HartCount = 2
  Spans <- MCSpans
  Detect = 2
  MaxTime = 3
  Sleeps = 2
  Arms = 1
  Pokes = 1
  Steals = 1
INVARIANTS
  SleepSound
PROPERTIES
  NotEarly
  Returns
CHECK_DEADLOCK FALSE
