SPECIFICATION Spec
CONSTANTS
  Connects = {c1, c2}
  Imported = Imported
  None = None
  MaxEvents = 1
  MaxCalls = 3
CHECK_DEADLOCK FALSE
INVARIANTS NullMeansEnded
