SPECIFICATION StoreSpec
CONSTANTS
  Pair = pair
  Entry = {pair}
  ElementsCount <- Sizes
  Val = {v0, v1}
  PageSize = 10
  QueueSize = 1
  MinimumFree = 4
  Blank = Blank
  Torn = Torn
  NoVal = NoVal
  Calls <- AllCalls
  MaxSaves = 3
  MaxPages = 20
  MaxCrashes = 2
SYMMETRY Symmetry
PROPERTIES
  ImplementsStore
CHECK_DEADLOCK FALSE
