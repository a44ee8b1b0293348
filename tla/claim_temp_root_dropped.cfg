SPECIFICATION Spec
CONSTANTS
  Options <- TempOnly
  MaxRuns = 1
  MaxFaults = 1
  TrapMayFail = FALSE
PROPERTIES
  TempRootDroppedAfterRestore
CHECK_DEADLOCK FALSE
