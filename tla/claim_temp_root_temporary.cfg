SPECIFICATION Spec
CONSTANTS
  Options <- TempOnly
  MaxRuns = 1
  MaxFaults = 1
  TrapMayFail = FALSE
INVARIANTS
  TempRootIsTemporary
CHECK_DEADLOCK FALSE
