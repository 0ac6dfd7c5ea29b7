CONSTANTS
  Keys = {k1, k2, k3}
  Channels = {c1, c2}
  Handlings = {"DebugAssert", "Error", "Ignore"}
  DebugBuild = TRUE
SPECIFICATION Spec
INVARIANTS TablesConsistent QueriesAgree AcyclicUnlessAllowed
PROPERTIES ImplementsContract CallsKeepToArguments
SYMMETRY Symmetry
