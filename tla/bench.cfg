CONSTANTS
  MaxOthers = 1
  MaxRestarts = 1
  MaxPolls = 2
  Requests <- MCRequests
  RunDirs = {"one"}
  MaxLaunches = 2
  MaxContainers = 2
  MaxEdits = 1
SPECIFICATION ReleaseSpec
INVARIANTS SettledCapturesAreExact CasesAreExact GateNeedsClose EnginesFitTheirModel LadderMeasuresItsProfile
CHECK_DEADLOCK FALSE
