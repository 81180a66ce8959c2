CONSTANTS
  Specs <- DeleteSpecs
  Templates <- MCTemplates
  Views = {"v1"}
  Lagging = {"Deployment"}
  MaxGen = 1
  MaxFaults = 0
  Deletable = TRUE
  GetErrors = FALSE
  None = None
SPECIFICATION FairSpec
INVARIANTS TypeOK
PROPERTIES DeletedIsCleaned
CHECK_DEADLOCK FALSE
