CONSTANTS
  Keys = {k1, k2, k3}
  Channels = {c1}
  Handlings = {"Allow"}
  TrackerHandlings = {"Error", "Ignore"}
  DebugBuild = FALSE
  MaxRules = 4
  MaxGeneration = 3
SYMMETRY Symmetry
SPECIFICATION Spec
PROPERTIES ReplacementsReport
CHECK_DEADLOCK FALSE
