CONSTANTS
  Keys = {k1, k2}
  Channels = {c1, c2}
  Policies = {"Eager", "Lazy"}
  Tracings = {TRUE}
  MaxEdges = 2
SPECIFICATION Spec
INVARIANTS WalkSound Explained
SYMMETRY Symmetry
