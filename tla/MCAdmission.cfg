SPECIFICATION Spec
CONSTANTS
  k1 = k1
  k2 = k2
  Others = {c2}
  Keys = {k1, k2}
  Conns = {c1, c2, c3}
  KeyOf <- MCKeyOf
  None = None
  MaxPairings = 3
  MaxRevocations = 1
  MaxCrashes = 1
INVARIANT AdmissionInv
PROPERTIES PairingLostOnlyIfForgotten RevocationsKept MemoryFollowsDisk RevokedSessionDropped
CHECK_DEADLOCK FALSE
