SPECIFICATION ProgressSpec
CONSTANTS
  Provider = {"h", "i", "j", "k", "l"}
  Honest = {"h", "i", "j"}
  Answer <- MCAnswer
  Target = "target"
  Required = 3
  Redundancy = 0
  MaxAttempts = 3
  MinRate <- MCMinRate
  StreakThreshold = 2
  MaxFetches = 1
  BucketCount = 4
  MaxCover = 5
  MaxVersions = 2
  MaxBundles = 2
  MaxCuts = 2
CHECK_DEADLOCK FALSE
INVARIANTS PackageIsOneBundle SimulationIsUndone
PROPERTIES FetchEnds CoverIsDrawn DrillPasses
