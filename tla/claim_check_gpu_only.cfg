SPECIFICATION Spec
CONSTANTS
  Options <- CheckOptions
  MaxRuns = 2
  MaxFaults = 0
  TrapMayFail = FALSE
PROPERTIES
  CheckOnlyPreservesDeployment
CHECK_DEADLOCK FALSE
