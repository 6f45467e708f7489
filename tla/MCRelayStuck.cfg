SPECIFICATION Spec
CONSTANTS
  id1 = id1
  SConns = {s1}
  CConns = {c1}
  ServerIds = {id1}
  ServerOf <- MCServerOf
  Guillotine = Guillotine
  None = None
  QueueCap = 1
  MaxServers = 1
  MaxPairs = 1
  MaxStimuli = 1
  Stalled = {c1}
PROPERTY StuckPairEvicted
CHECK_DEADLOCK FALSE
