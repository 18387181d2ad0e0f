CONSTANTS
  l = l
  a1 = a1
  a2 = a2
  a3 = a3
  r1 = r1
  b1 = b1
  b2 = b2
  Actors = {l, a1, a2, a3}
  Launcher = l
  MaxPid = 2
  MaxKilled = 1
  Records = {r1}
  Blocks = {b1, b2}
  Budget = 1
  Stack = 1
  NoActor = noactor
  NoRec = norec
SYMMETRY Symm
SPECIFICATION Spec
INVARIANTS
  TypeOK
  Accounts
  StaysConfined
CHECK_DEADLOCK FALSE
