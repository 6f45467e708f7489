SPECIFICATION Spec
CONSTANTS
  Pairs = {p1, p2}
  QueueCapacity = 2
  InitialMs = 20
  MaxMs = 120
  MulX10 = 20
  MaxLinks = 2
  Unread = {p2}
CHECK_DEADLOCK FALSE
INVARIANTS
  MapIsOfThisLink
PROPERTIES
  OldPairsEnd
  LoopUnblocks
