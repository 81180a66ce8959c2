CONSTANTS
  Specs <- NoConfigSpec
  Templates <- MCTemplates
  Views = {"v1"}
  Lagging = {"ConfigMap"}
  MaxGen = 1
  MaxFaults = 0
  Deletable = FALSE
  GetErrors = FALSE
  None = None
SPECIFICATION Spec
PROPERTIES NShardsStable
CHECK_DEADLOCK FALSE
