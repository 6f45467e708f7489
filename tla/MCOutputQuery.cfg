SPECIFICATION PathSpec
CONSTANTS
  Capacities = {2}
  DefaultInterval = 3
  MaxHead = 16
  MaxWords = 2
CHECK_DEADLOCK FALSE
PROPERTIES
  QueryAnswered
