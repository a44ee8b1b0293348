CONSTANTS
  a = a
  b = b
  Reqs = {a, b}
  Configs <- AllConfigs
  MaxSeqs = 2
  MaxTokens = 4
  r1 = r1
  r2 = r2
  none = none
  Ranks = {r1, r2}
  Layers = 2
  NoTensor = none
SPECIFICATION ForwardSpec
INVARIANTS NeverDead ServingGraphsComplete ResolvedModeIsSupported ProfilingLeavesNoTrace SeesOnlyTheBatch StreamIsExact PendingStaysInItsLayer
SYMMETRY Symmetry
