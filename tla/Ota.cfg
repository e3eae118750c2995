SPECIFICATION FairSpec
CONSTANTS
  Page = 2
  Sector = 4
  Size = 12
  Blank = Blank
  Zero = Zero
  Junk = Junk
  Modes <- AllModes
  Capacity = 3
  MaxConsecutive = 2
  Lengths = {5}
  Chunks = {1, 3}
  Windows = {3}
  MaxImages = 2
  MaxFaults = 1
INVARIANTS TypeOK CandidateIntact ErasedAhead PoolSound PagesInOrder
PROPERTIES QueueServed CommitEnds
CHECK_DEADLOCK FALSE
