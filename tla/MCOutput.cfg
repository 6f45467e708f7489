SPECIFICATION PathSpec
CONSTANTS
  Capacities = {0, 2, 5}
  DefaultInterval = 3
  MaxHead = 16
  MaxWords = 2
CHECK_DEADLOCK FALSE
INVARIANTS
  RingInv
  OverCapacityOnlyWithoutSplit
  BoundedSnapshotReplays
  HistoryPagesTile
  ChunkIndependent
  FiltersWholeWords
  SplitsOutsideSequences
  PrefixRestores
PROPERTIES
  EvictsOnlyWhenFull
