CONSTANTS
  c1 = c1
  c2 = c2
  Keys = {1, 2}
  Channels = {c1, c2}
  MaxRules = 2
  MaxOrder = 2
SPECIFICATION MCSpec
INVARIANTS WorkDivided DeliversFirst Explained OnePass StalledListed
PROPERTIES KeepsWork BecomesClean
