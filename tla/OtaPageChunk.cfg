SPECIFICATION Spec
CONSTANTS
  Page = 2
  Sector = 4
  Size = 12
  Blank = Blank
  Zero = Zero
  Junk = Junk
  Modes <- DirectExternal
  Capacity = 3
  MaxConsecutive = 2
  Lengths = {5}
  Chunks = {1, 2}
  Windows = {3}
  MaxImages = 2
  MaxFaults = 0
INVARIANTS CandidateIntact
CHECK_DEADLOCK FALSE
