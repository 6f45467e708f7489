SPECIFICATION Spec
CONSTANTS
  Calls <- MCCalls
  Op <- MCOp
  QueueCap = 1
  CmdCap = 0
  EventCap = 1
  PumpCap = 1
  MaxEvents = 1
  MaxLosses = 1
CHECK_DEADLOCK FALSE
INVARIANTS EventsOfTheirSession
PROPERTIES ReturnsUnlessWedged OrphanEnds
