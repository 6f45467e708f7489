SPECIFICATION Spec
CONSTANTS
  Terminals = {t1, t2}
  None = None
  SubCap = 1
  OutCap = 1
  MaxHead = 2
  MaxChunk = 2
  MaxRequests = 2
INVARIANTS SwitchIsClean
PROPERTIES ContiguousUnlessLagged EveryRequestAnswered CatchesUp
CHECK_DEADLOCK FALSE
