CONSTANTS
  MaxOthers = 0
  MaxRestarts = 0
  MaxPolls = 2
SPECIFICATION Spec
INVARIANT WaitSeesTheCountersSettle
CHECK_DEADLOCK FALSE
