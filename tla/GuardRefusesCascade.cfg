CONSTANTS
  Keys = {k1, k2}
  Channels = {c1, c2}
  Handlings = {"Allow"}
  TrackerHandlings = {"Error"}
  DebugBuild = FALSE
  MaxRules = 3
  MaxGeneration = 3
SYMMETRY Symmetry
SPECIFICATION Spec
PROPERTIES RefusedCascadeClosesCycle
CHECK_DEADLOCK FALSE
