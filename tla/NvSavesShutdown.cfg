SPECIFICATION Spec
CONSTANTS
  ElementsCount <- Pair
  QueueSize = 2
  Ticks = 1
  Counts = 1
  Sectors = 1
  Room = 1
  MaxCritical = 0
  Calls = {"interval", "shutdown"}
INVARIANT ShutdownTreatsIntervals
CHECK_DEADLOCK FALSE
