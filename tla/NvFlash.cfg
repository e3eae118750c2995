SPECIFICATION QuietSpec
CONSTANTS
  Pair = pair
  Entry = {pair}
  ElementsCount <- Sizes
  Val = {v0, v1}
  PageSize = 11
  QueueSize = 2
  MinimumFree = 5
  Blank = Blank
  Torn = Torn
  NoVal = NoVal
  Calls <- AllCalls
  MaxSaves = 3
  MaxPages = 20
  MaxCrashes = 2
INVARIANTS
  TypeOK
  ActivePageValid
  TagsFound
PROPERTIES
  OnlyBlankProgrammed
  CopyKeepsSettled
  CopyMakesRoom
  PendingSavesWritten
CHECK_DEADLOCK FALSE
