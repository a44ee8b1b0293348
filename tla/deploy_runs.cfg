SPECIFICATION Spec
CONSTANTS
  Options <- AllOptions
  MaxRuns = 3
  MaxFaults = 2
  TrapMayFail = TRUE
INVARIANTS AppliedRunRestored FailedIsolatedRunLeavesNothing
PROPERTIES CleanStartKeepsLiveRoot DeployedOnConfiguredRoot IsolatedRunLeavesSystemDocker DeployedStackSurvivesTrap
CHECK_DEADLOCK FALSE
