CONSTANTS
  Ranks = {r1, r2, r3}
  NoLib = NoLib
  NoPrefix = NoPrefix
  LayerPrefixes <- SomePrefixes
  Lib <- LibKindRoute
  Model <- ModelFused
  Strict = TRUE
  Defer = FALSE
  CaptureOnly = FALSE
  Preinit = TRUE
  SkipContexts = 0
  AfterCapture = FALSE
  AfterPrefill = FALSE
  Graphs = TRUE
  Warmups = 0
  MaxExecutes = 2
  MaxFaults = 2
  BypassSites <- Sites
  BypassOccurrences <- NoNumbers
  RoutedSites <- NoNumbers
SPECIFICATION FairSpec
INVARIANTS TransportAgreement NoCreateWhileRecording
PROPERTIES RanksIssueTheSameCollectives StartupEnds
