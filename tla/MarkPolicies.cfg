CONSTANTS
  Keys = {k1, k2}
  Channels = {c1, c2}
  Policies = {"Eager", "Lazy", "Custom"}
  Tracings = {FALSE}
  MaxEdges = 2
SPECIFICATION Spec
INVARIANTS ReportTells
PROPERTIES ImplementsContract CallsAdvance
SYMMETRY Symmetry
