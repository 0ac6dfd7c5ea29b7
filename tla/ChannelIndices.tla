--------------------------- MODULE ChannelIndices ----------------------------
(* Channel (channel.rs): an index below the number of channels, of which    *)
(* there are as many as bits in a ChannelSet, 64 in the code.               *)
EXTENDS Integers

CONSTANT MaxChannels  \* how many channels there can be

ASSUME ChannelIndicesAssumption == MaxChannels \in Nat \ {0}

\* Channel::new admits no other index.
AllChannels == 0..(MaxChannels - 1)

=============================================================================
