CONSTANTS
  q1 = q1
  q2 = q2
  Reqs = {q1, q2}
  prompt <- Prompts
  Modes <- AllModes
  DrafterMaxLen = 4
  MostAtOnce = 3
  MaxPreempts = 1
  MaxAborts = 1
  MaxAgain = 1
SPECIFICATION Spec
INVARIANTS FedTheRequestsTokens OutputsBelongToTheirSteps
PROPERTIES CachedOutputsNeverShrink StreamsInOrder
