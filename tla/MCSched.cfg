CONSTANTS
  main = main
  a1 = a1
  a2 = a2
  N = 2
  Actors = {main, a1, a2}
  Main = main
  Pinned = {main, a2}
  RQ_CAP = 1
  DONATE_HI = 1
  XCAP = 2
  Progs <- MCProgs
  NoActor = null
SPECIFICATION Spec
INVARIANTS
  TypeOK
  OneContext
  OneEntry
  NothingLost
  NoLostWake
  NoSleepOnWork
PROPERTY
  StayDead
CHECK_DEADLOCK FALSE
