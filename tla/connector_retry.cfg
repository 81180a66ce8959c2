CONSTANTS
  Streams <- MCStreams
  Keys <- MCKeys
  Values <- MCValues
  PortNames = {"unnamed", "prom"}
  Configs <- MCConfigs
  Specs <- OneSpec
  Deletable = {}
  MaxUid = 2
  MaxGen = 1
  MaxFaults = 1
  Malformed = Malformed
  None = None
SPECIFICATION FairSpec
PROPERTIES EventuallyServed
CHECK_DEADLOCK FALSE
