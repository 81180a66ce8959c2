CONSTANTS
  Specs <- LiveSpecs
  Templates <- MCTemplates
  Views = {"v1", "v2"}
  Lagging = {"StatefulSet"}
  MaxGen = 2
  MaxFaults = 1
  Deletable = FALSE
  GetErrors = FALSE
  None = None
SPECIFICATION FairSpec
PROPERTIES EventuallyReady Quiesces
CHECK_DEADLOCK FALSE
