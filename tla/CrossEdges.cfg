CONSTANTS
  Keys = {k1, k2}
  Channels = {c1, c2}
  MaxEdges = 3
  LastGeneration = 8
SYMMETRY Symmetry
SPECIFICATION EdgesSpec
INVARIANTS MapsAgree CountersServe
PROPERTIES GenerationTellsPairs CallsKeepToArguments
CHECK_DEADLOCK FALSE
