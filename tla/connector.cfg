CONSTANTS
  Streams <- MCStreams
  Keys <- MCKeys
  Values <- MCValues
  PortNames = {"unnamed", "prom"}
  Configs <- MCConfigs
  Specs <- OneSpec
  Deletable = {"connector", "template"}
  MaxUid = 3
  MaxGen = 1
  MaxFaults = 1
  Malformed = Malformed
  None = None
SPECIFICATION Spec
INVARIANTS TypeOK OwnConfig
CHECK_DEADLOCK FALSE
