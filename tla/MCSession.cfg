SPECIFICATION Spec
CONSTANTS
  Cmds <- MCCmds
  Kind <- MCKind
  Backoff <- MCBackoff
  Relay = TRUE
  Idle = 1
  Limit = 3
  IdMax = 8
  MaxFaults = 2

CHECK_DEADLOCK FALSE
INVARIANTS EachWaitsOnce NotRepeatedAfterSend
PROPERTIES PingHasTime ShutdownEnds KeepsPromise
