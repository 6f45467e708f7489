SPECIFICATION Spec
CONSTANTS
  id1 = id1
  SConns = {s1, s2}
  CConns = {c1}
  ServerIds = {id1}
  ServerOf <- MCServerOf
  Guillotine = Guillotine
  None = None
  QueueCap = 1
  MaxServers = 2
  MaxPairs = 1
  MaxStimuli = 2
  Stalled = {}
INVARIANTS RegistrationLive ClosedPairNotifiesBoth 
PROPERTY GonePairRemoved
CHECK_DEADLOCK FALSE
