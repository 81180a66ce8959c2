CONSTANTS
  Contents <- MCContents
  MaxGen = 3
  MaxUid = 2
  MaxLag = 2
  MaxWrites = 1
  MaxFaults = 1
  None = None
SPECIFICATION FairSpec
INVARIANTS TypeOK ReadyMeansApplied
PROPERTIES UndisturbedIsApplied OrphansCollected
CHECK_DEADLOCK FALSE
