SPECIFICATION Spec
CONSTANTS
  ElementsCount <- Pair
  QueueSize = 2
  Ticks = 1
  Counts = 1
  Sectors = 1
  Room = 1
  MaxCritical = 1
  Calls <- AllButAtomic
INVARIANT TypeOK
INVARIANT NoRequestLost
INVARIANT ShutdownComplete
CHECK_DEADLOCK FALSE
