CONSTANTS
  s1 = s1
  s2 = s2
  s3 = s3
  NoOne = NoOne
  Senders = {s1, s2, s3}
  Boxes <- MCBoxes
  MaxSlots = 3
  MaxSends = 2
  RingMax = 2
  ResultNos = {2}
SPECIFICATION Spec
INVARIANTS
  RingsSound
  NoStrand
  FairTurns
PROPERTIES
  ImplementsInbox
CHECK_DEADLOCK FALSE
