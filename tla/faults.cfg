CONSTANTS
  Specs <- FullSpec
  Templates <- MCTemplates
  Views = {"v1"}
  Lagging = {"ConfigMap", "Service", "StatefulSet", "Deployment"}
  MaxGen = 1
  MaxFaults = 2
  Deletable = FALSE
  GetErrors = TRUE
  None = None
SPECIFICATION Spec
INVARIANTS ServerAfterStore ReadyIsEarned BootstrapsFenced InitsFenced
PROPERTIES ConditionsNeverLost BootstrapsRunningStore
CHECK_DEADLOCK FALSE
