SPECIFICATION FairSpec
CONSTANTS
  ElementsCount <- Singles
  QueueSize = 2
  Ticks = 1
  Counts = 1
  Sectors = 1
  Room = 2
  MaxCritical = 1
  Calls <- AllButSync
INVARIANT TableSaveAlone
INVARIANT AtomicOwnsQueue
PROPERTY LoopEnds
PROPERTY PolicySavesSettle
CHECK_DEADLOCK FALSE
