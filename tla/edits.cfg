CONSTANTS
  Specs <- EditSpecs
  Templates <- MCTemplates
  Views = {"v1"}
  Lagging = {"ConfigMap", "StatefulSet", "Deployment"}
  MaxGen = 2
  MaxFaults = 1
  Deletable = FALSE
  GetErrors = FALSE
  None = None
SPECIFICATION Spec
INVARIANTS ReadyMeansApplied
PROPERTIES NShardsStable ImplementsLifecycle
CHECK_DEADLOCK FALSE
