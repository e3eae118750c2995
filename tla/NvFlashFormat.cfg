SPECIFICATION Spec
CONSTANTS
  Pair = pair
  Entry = {pair}
  ElementsCount <- Sizes
  Val = {v0, v1}
  PageSize = 11
  QueueSize = 2
  MinimumFree = 5
  Blank = Blank
  Torn = Torn
  NoVal = NoVal
  Calls <- FullSaveCalls
  MaxSaves = 4
  MaxPages = 20
  MaxCrashes = 0
SYMMETRY Symmetry
INVARIANTS
  ActivePageValid
CHECK_DEADLOCK FALSE
