CONSTANTS
  Keys = {3, 5, 6, 9}
  Channels = {c1, c2}
  SlotsPerEntry = 2
  FreeSlots = 2
  WordBits = 2
  MaxIndex = 1000
  MaxDegree = 1
  MaxEdges = 3
SPECIFICATION Spec
INVARIANTS TablesSound WalkRemembers
PROPERTIES TablesFaithful WalksAnswer
