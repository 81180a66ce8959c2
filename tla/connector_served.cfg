CONSTANTS
  Streams <- MCStreams
  Keys <- MCKeys
  Values <- MCValues
  PortNames = {"unnamed", "prom"}
  Configs <- AnyConfigs
  Specs <- TwoSpecs
  Deletable = {"connector"}
  MaxUid = 2
  MaxGen = 2
  MaxFaults = 1
  Malformed = Malformed
  None = None
SPECIFICATION FairSpec
INVARIANTS OwnConfig
PROPERTIES UndisturbedIsServed ConnectorCleaned
CHECK_DEADLOCK FALSE
