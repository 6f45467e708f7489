SPECIFICATION InputSpec
CONSTANTS
  Terminals = {t1, t2}
  None = None
  Window = TRUE
  MaxCmds = 3
  MaxOpens = 2
CHECK_DEADLOCK FALSE
INVARIANTS CommandsInOrder NoStaleInput
PROPERTIES Flushed
