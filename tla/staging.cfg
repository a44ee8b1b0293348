CONSTANTS
  Block = {1, 2, 3, 4, 5}
  Whole <- MCWhole
  Releases <- MCReleases
  MaxParts = 3
  MaxFaults = 3
SPECIFICATION FairSpec
INVARIANTS StagedMeansComplete
PROPERTIES OnlyVerifiedModelsAppear CleanRunStages
