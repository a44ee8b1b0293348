CONSTANTS
  Configs <- MCConfigs
  GgufHeads = 24
  GgufGroup = 3
  AttnConfigs <- MCAttnConfigs
  MaxSeqs = 3
  MaxTokens = 4
  Contexts <- CachedContexts
  MaxLen = 8
  MaxSteps = 1
  BlockSize = 2
  MinBlockM = 4
  MIN_LAUNCH_GRID_SIZE_2D = 2
  NUM_PAR_SOFTMAX_SEGMENTS = 2
  MoeConfigs <- MCMoeConfigs
  CHUNK_SIZE = 2
  FastTopK = 2
  SPARSITY_FACTOR = 4
SPECIFICATION LayerSpec
INVARIANTS AttentionIsExact DeltaNetIsExact FeedForwardIsExact OnlyTheExpertsAreCutInFour TokensSeeTheirKeys ExpertsAreExact
