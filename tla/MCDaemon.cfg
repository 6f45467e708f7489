SPECIFICATION Spec
CONSTANTS
  Conns = {c1, c2}
  Terminals = {t1, t2}
  MaxTerminals = 1
  Sizes = {1, 9}
  DefaultSize = 1
  MaxCapacity = 4
  MaxCrashes = 1
CHECK_DEADLOCK FALSE
INVARIANTS
  NoLostTerminal
  LimitOvershoot
  ConfigSurvives
PROPERTIES
  ExitedReaped
