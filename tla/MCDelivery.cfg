SPECIFICATION Spec
CONSTANTS
  None = None
  s1 = s1
  s2 = s2
  Senders <- TwoSenders
  SendMax <- TwiceAndOnce
  Actors = {a1, a2}
  First = a1
  Blocks = {b1}
  MaxMessages = 2
  MaxBytes = 2
  Size <- OneAndTwo
  RingCap = 1
  MaxCap = 2
  SpawnMax = 1
  Mortal = {s1}
  Kinds = {"copy", "move"}
INVARIANTS
  TypeOK
  ChargesKept
  NothingLeaks
  NoStaleWriter
CHECK_DEADLOCK FALSE
