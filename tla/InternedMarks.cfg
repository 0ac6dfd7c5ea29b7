CONSTANTS
  k1 = k1
  k2 = k2
  k3 = k3
  OwnedKeys = {k1, k2, k3}
  Hash <- MCHash
  MaxChannels = 3
  ChannelsMarked = {0, 2}
  IdLimit = 2
  Generations = 4
  MaxCapacity = 2
  ReadsOn = FALSE
SPECIFICATION MarksSpec
INVARIANTS TokensHold ChannelsExact MarksMeant
