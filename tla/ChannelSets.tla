----------------------------- MODULE ChannelSets ------------------------------
(***************************************************************************)
(* ChannelSet (channel.rs): a set of channels as the bits of one number,   *)
(* as wide as there are channels, 64 in the code.  Where other modules     *)
(* speak of a set of channels, this is what the code keeps.                *)
(***************************************************************************)
EXTENDS ChannelIndices, FiniteSets, Sequences, Bitwise

EMPTY == 0
ALL == 2 ^ MaxChannels - 1

\* Channel::into_set.
IntoSet(c) == 2 ^ c

Contains(bits, c) == (bits & IntoSet(c)) # 0

\* Mutant: `^=` instead of `&= !`.
WithoutFlipped(bits, c) == bits ^^ IntoSet(c)

\* insert, remove.
With(bits, c) == bits | IntoSet(c)
Without(bits, c) == bits & (ALL - IntoSet(c))

\* bitor for a set and for a channel, and for two channels; bitand; not.
Either(bits, other) == bits | other
EitherChannel(bits, c) == Either(bits, IntoSet(c))
TwoChannels(c, d) == EitherChannel(IntoSet(c), d)
Both(bits, other) == bits & other
Others(bits) == ALL - bits

\* len: the ones counted.
Count(bits) == Cardinality({i \in AllChannels : (bits \div 2 ^ i) % 2 = 1})

\* Mutant: takes the highest bit off.
FollowingHighest(bits) == bits - 2 ^ (CHOOSE i \in AllChannels : 2 ^ i <= bits /\ bits < 2 ^ (i + 1))

\* ChannelSetIter: trailing_zeros of what is left, and what is left after it.
Lowest(bits) == CHOOSE i \in AllChannels : bits % 2 ^ (i + 1) = 2 ^ i
Following(bits) == bits & (bits - 1)

\* The channels the iterator gives, in its order.
Listing(bits) ==
  LET from[b \in 0..ALL] == IF b = 0 THEN <<>> ELSE <<Lowest(b)>> \o from[Following(b)]
  IN  from[bits]

=============================================================================
