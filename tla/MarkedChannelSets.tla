-------------------------- MODULE MarkedChannelSets --------------------------
(***************************************************************************)
(* The channels in which an InvalidationSet has keys (set.rs, channels),   *)
(* as the bits of a ChannelSet.                                            *)
(***************************************************************************)
EXTENDS InternedMarks, ChannelSets

\* channels: each of all channels in turn is inserted if it has keys.
InvalidatedChannels(s) ==
  LET all == Listing(ALL)
      upTo[n \in 0..MaxChannels] ==
        IF n = 0 THEN EMPTY
        ELSE IF HasInvalidated(s, all[n]) THEN With(upTo[n - 1], all[n]) ELSE upTo[n - 1]
  IN  upTo[MaxChannels]

-----------------------------------------------------------------------------
(* Properties. *)

\* channels lists the channels with invalidated keys, each once and in
\* ascending order (InvalidationSet::channels, ChannelSetIter).
ChannelsListed ==
  LET listed == Listing(InvalidatedChannels(set)) IN
  /\ {listed[i] : i \in DOMAIN listed} = {c \in AllChannels : HasInvalidated(set, c)}
  /\ \A i, j \in DOMAIN listed : i < j => listed[i] < listed[j]
  /\ Len(listed) = Count(InvalidatedChannels(set))
  /\ IsEmpty(set) <=> InvalidatedChannels(set) = EMPTY

\* The operations on the bits of the channels a reader was told of, and of
\* those there are now, come to the operations on the sets they stand for
\* (ChannelSet's operators).
Members(bits) == {c \in AllChannels : Contains(bits, c)}

ChannelSetsExact ==
  LET these == InvalidatedChannels(set)
      those == InvalidatedChannels(seen.set)
  IN
  /\ Members(Either(these, those)) = Members(these) \cup Members(those)
  /\ Members(Both(these, Others(those))) = Members(these) \ Members(those)
  /\ \A c \in AllChannels :
       /\ Members(Without(these, c)) = Members(these) \ {c}
       /\ Members(EitherChannel(these, c)) = Members(these) \cup {c}
       /\ Members(TwoChannels(c, Lowest(Others(EMPTY)))) = {c, 0}

\* The bits are the set of channels they stand for.
ChannelsExact == ChannelsListed /\ ChannelSetsExact

=============================================================================
