CONSTANTS
  Contents <- MCContents
  MaxGen = 1
  MaxUid = 2
  MaxLag = 2
  MaxWrites = 1
  MaxFaults = 0
  None = None
SPECIFICATION FairSpec
PROPERTIES EventuallyApplied
CHECK_DEADLOCK FALSE
