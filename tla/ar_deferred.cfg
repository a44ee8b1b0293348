CONSTANTS
  Ranks = {r1, r2, r3}
  NoLib = NoLib
  NoPrefix = NoPrefix
  LayerPrefixes <- SomePrefixes
  Lib <- LibCallsite
  Model <- ModelRouted
  Strict = TRUE
  Defer = TRUE
  CaptureOnly = FALSE
  Preinit = FALSE
  SkipContexts = 0
  AfterCapture = TRUE
  AfterPrefill = TRUE
  Graphs = TRUE
  Warmups = 1
  MaxExecutes = 3
  MaxFaults = 2
  BypassSites <- Sites
  BypassOccurrences <- SomeOccurs
  RoutedSites <- Routed
SPECIFICATION Spec
SYMMETRY Symmetry
INVARIANTS RanksStayAlike EnvRestored ServedByLiveWorkers
