CONSTANTS
  Keys = {k1, k2}
  Channels = {c1, c2}
  Handlings = {"Allow"}
  TrackerHandlings = {"DebugAssert", "Error", "Ignore", "Allow"}
  DebugBuild = TRUE
  MaxRules = 3
  MaxGeneration = 3
SYMMETRY Symmetry
SPECIFICATION Spec
INVARIANTS CacheSound CombinedAcyclic
PROPERTIES AdditionsJudged CascadesDecided
CHECK_DEADLOCK FALSE
