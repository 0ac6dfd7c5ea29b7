------------------------- MODULE CrossChannelProofs -------------------------
(***************************************************************************)
(* Proofs about the cross-channel edges and the guard across channels, for *)
(* all finite sets of keys and channels and for any handlings.             *)
(*                                                                         *)
(* First what each operation of CrossEdgeTables makes of the struct it is  *)
(* called on.  A map is only ever read through its entries, so each helper *)
(* on maps gets a lemma that says what it does to the entries, and each    *)
(* operation on the struct one that says what it does to the edges, one    *)
(* for its counters and one for its generation.                            *)
(*                                                                         *)
(* Then CrossChannelEdges: the two maps agree after every call, the        *)
(* counters say what they hold, and the struct implements its contract.    *)
(*                                                                         *)
(* Then CrossChannelGuard, which keeps such a struct: the cached channel   *)
(* reachability is never out of date unnoticed, a search pruned by it      *)
(* finds what a full search would, and so no sequence of guarded calls     *)
(* lets invalidation run in circles.                                       *)
(***************************************************************************)
EXTENDS CrossChannelEdges, CrossChannelGuard, ReachabilityTheorems

\* A map of lists, none of them empty.
IsMap(map) ==
  /\ DOMAIN map \subseteq Pairs
  /\ \A p \in DOMAIN map : map[p] \subseteq Pairs /\ map[p] # {}

Fields == {"forward", "reverse", "sources", "pairs", "generation"}

\* The two maps of a struct t agree.
Agree(t) ==
  /\ DOMAIN t = Fields
  /\ IsMap(t.forward) /\ IsMap(t.reverse)
  /\ Entries(t.reverse) = Flipped(Entries(t.forward))

-----------------------------------------------------------------------------
(* Maps and their entries. *)

\* What an entry is.
LEMMA EntryMember ==
  ASSUME NEW map, NEW e
  PROVE  e \in Entries(map) <=> \E p \in DOMAIN map : \E q \in map[p] : e = <<p, q>>
<1>1. ASSUME e \in Entries(map)
      PROVE  \E p \in DOMAIN map : \E q \in map[p] : e = <<p, q>>
  BY <1>1 DEF Entries
<1>2. ASSUME NEW p \in DOMAIN map, NEW q \in map[p], e = <<p, q>>
      PROVE  e \in Entries(map)
  <2>1. e \in {p} \X map[p]
    BY <1>2
  <2>. QED
    BY <2>1 DEF Entries
<1>. QED
  BY <1>1, <1>2

\* A list holds exactly the second halves of its pair's entries.
LEMMA EntryOf ==
  ASSUME NEW map, NEW p, NEW q
  PROVE  <<p, q>> \in Entries(map) <=> p \in DOMAIN map /\ q \in map[p]
BY EntryMember

\* Flipping is its own inverse, entry for entry.
LEMMA FlippedMember ==
  ASSUME NEW E \in SUBSET (Pairs \X Pairs), NEW p, NEW q
  PROVE  /\ Flipped(E) \in SUBSET (Pairs \X Pairs)
         /\ <<p, q>> \in Flipped(E) <=> <<q, p>> \in E
BY DEF Flipped

\* The entries of a map are pairs of pairs.
LEMMA EntriesType ==
  ASSUME NEW map, IsMap(map)
  PROVE  Entries(map) \in SUBSET (Pairs \X Pairs)
BY EntryMember DEF IsMap

\* Pushing adds its entries and no others.
LEMMA PushedEntries ==
  ASSUME NEW map, IsMap(map), NEW E \in SUBSET (Pairs \X Pairs)
  PROVE  IsMap(Pushed(map, E)) /\ Entries(Pushed(map, E)) = Entries(map) \cup E
<1>. DEFINE after == Pushed(map, E)
            firsts == {e[1] : e \in E}
<1>1. /\ DOMAIN after = DOMAIN map \cup firsts
      /\ \A p \in DOMAIN after :
           after[p] = Listed(map, p) \cup {q \in Pairs : <<p, q>> \in E}
  BY DEF Pushed
<1>2. firsts \subseteq Pairs
  OBVIOUS
<1>3. \A p, q \in Pairs : <<p, q>> \in E => p \in firsts
  OBVIOUS
<1>4. \A p \in firsts : \E q \in Pairs : <<p, q>> \in E
  OBVIOUS
<1>. HIDE DEF after, firsts
<1>5. IsMap(after)
  <2>1. DOMAIN after \subseteq Pairs
    BY <1>1, <1>2 DEF IsMap
  <2>2. ASSUME NEW p \in DOMAIN after
        PROVE  after[p] \subseteq Pairs /\ after[p] # {}
    BY <1>1, <1>4 DEF IsMap, Listed
  <2>. QED
    BY <2>1, <2>2 DEF IsMap
<1>6. ASSUME NEW p \in Pairs, NEW q \in Pairs
      PROVE  <<p, q>> \in Entries(after) <=> <<p, q>> \in Entries(map) \cup E
  <2>1. <<p, q>> \in Entries(after) <=> p \in DOMAIN after /\ q \in after[p]
    BY EntryOf
  <2>2. <<p, q>> \in Entries(map) <=> p \in DOMAIN map /\ q \in map[p]
    BY EntryOf
  <2>. QED
    BY <1>1, <1>3, <2>1, <2>2 DEF Listed
<1>7. Entries(after) = Entries(map) \cup E
  <2>1. Entries(after) \in SUBSET (Pairs \X Pairs) /\ Entries(map) \cup E \in SUBSET (Pairs \X Pairs)
    BY <1>5, EntriesType
  <2>. QED
    BY <1>6, <2>1
<1>. QED
  BY <1>5, <1>7 DEF after

\* Pulling takes its entries out and no others, and leaves no empty list.
LEMMA PulledEntries ==
  ASSUME NEW map, IsMap(map), NEW E \in SUBSET (Pairs \X Pairs)
  PROVE  /\ IsMap(Pulled(map, E))
         /\ Entries(Pulled(map, E)) = Entries(map) \ E
         /\ DOMAIN Pulled(map, E) \subseteq DOMAIN map
<1>. DEFINE left(p) == {q \in map[p] : <<p, q>> \notin E}
            emptied == {p \in DOMAIN map : left(p) = {} /\ \E e \in E : e[1] = p}
            after   == Pulled(map, E)
<1>1. /\ DOMAIN after = DOMAIN map \ emptied
      /\ \A p \in DOMAIN after : after[p] = left(p)
  BY DEF Pulled
<1>2. ASSUME NEW p \in DOMAIN map, p \notin emptied
      PROVE  left(p) # {}
  <2>1. SUFFICES ASSUME ~ \E e \in E : e[1] = p
                 PROVE  left(p) # {}
    BY <1>2
  <2>2. left(p) = map[p]
    BY <2>1
  <2>. QED
    BY <2>2 DEF IsMap
<1>. HIDE DEF after
<1>3. IsMap(after)
  BY <1>1, <1>2 DEF IsMap
<1>4. ASSUME NEW p \in Pairs, NEW q \in Pairs
      PROVE  <<p, q>> \in Entries(after) <=> <<p, q>> \in Entries(map) \ E
  <2>1. <<p, q>> \in Entries(after) <=> p \in DOMAIN after /\ q \in after[p]
    BY EntryOf
  <2>2. <<p, q>> \in Entries(map) <=> p \in DOMAIN map /\ q \in map[p]
    BY EntryOf
  <2>. QED
    BY <1>1, <2>1, <2>2
<1>5. Entries(after) = Entries(map) \ E
  <2>1. Entries(after) \in SUBSET (Pairs \X Pairs) /\ Entries(map) \in SUBSET (Pairs \X Pairs)
    BY <1>3, EntriesType
  <2>. QED
    BY <1>4, <2>1
<1>. QED
  BY <1>1, <1>3, <1>5 DEF after

\* Dropping takes out the entries of the dropped pairs and no others.
LEMMA DroppedEntries ==
  ASSUME NEW map, IsMap(map), NEW ps
  PROVE  /\ IsMap(Dropped(map, ps))
         /\ Entries(Dropped(map, ps)) = {e \in Entries(map) : e[1] \notin ps}
<1>. DEFINE after == Dropped(map, ps)
<1>1. /\ DOMAIN after = DOMAIN map \ ps
      /\ \A p \in DOMAIN after : after[p] = map[p]
  BY DEF Dropped
<1>. HIDE DEF after
<1>2. IsMap(after)
  BY <1>1 DEF IsMap
<1>3. ASSUME NEW p \in Pairs, NEW q \in Pairs
      PROVE  <<p, q>> \in Entries(after) <=> <<p, q>> \in Entries(map) /\ p \notin ps
  BY <1>1, EntryOf
<1>4. Entries(after) = {e \in Entries(map) : e[1] \notin ps}
  <2>1. Entries(after) \in SUBSET (Pairs \X Pairs) /\ Entries(map) \in SUBSET (Pairs \X Pairs)
    BY <1>2, EntriesType
  <2>. QED
    BY <1>3, <2>1
<1>. QED
  BY <1>2, <1>4 DEF after

-----------------------------------------------------------------------------
(* Operations and their edges. *)

\* The counters have no part in the agreement of the maps.
LEMMA CountingKeepsMaps ==
  ASSUME NEW t, Agree(t), NEW E
  PROVE  /\ DOMAIN Counted(t, E) = Fields /\ DOMAIN Uncounted(t, E) = Fields
         /\ Counted(t, E).forward = t.forward /\ Counted(t, E).reverse = t.reverse
         /\ Uncounted(t, E).forward = t.forward /\ Uncounted(t, E).reverse = t.reverse
BY DEF Agree, Fields, Counted, Uncounted

\* Entries taken out of one map and, flipped, out of the other leave the two
\* in agreement; so do entries put in.
LEMMA FlippedSets ==
  ASSUME NEW A \in SUBSET (Pairs \X Pairs), NEW B \in SUBSET (Pairs \X Pairs)
  PROVE  /\ Flipped(A \cup B) = Flipped(A) \cup Flipped(B)
         /\ Flipped(A \ B) = Flipped(A) \ Flipped(B)
         /\ Flipped(Flipped(A)) = A
<1>1. Flipped(A \cup B) = Flipped(A) \cup Flipped(B)
  BY DEF Flipped
<1>2. ASSUME NEW p \in Pairs, NEW q \in Pairs
      PROVE  <<p, q>> \in Flipped(A \ B) <=> <<p, q>> \in Flipped(A) \ Flipped(B)
  <2>1. A \ B \in SUBSET (Pairs \X Pairs)
    OBVIOUS
  <2>2. <<p, q>> \in Flipped(A \ B) <=> <<q, p>> \in A \ B
    BY <2>1, FlippedMember
  <2>3. <<p, q>> \in Flipped(A) <=> <<q, p>> \in A
    BY FlippedMember
  <2>4. <<p, q>> \in Flipped(B) <=> <<q, p>> \in B
    BY FlippedMember
  <2>. QED
    BY <2>2, <2>3, <2>4
<1>3. Flipped(A \ B) = Flipped(A) \ Flipped(B)
  <2>1. Flipped(A \ B) \in SUBSET (Pairs \X Pairs) /\ Flipped(A) \in SUBSET (Pairs \X Pairs)
    BY FlippedMember
  <2>. QED
    BY <1>2, <2>1
<1>4. ASSUME NEW p \in Pairs, NEW q \in Pairs
      PROVE  <<p, q>> \in Flipped(Flipped(A)) <=> <<p, q>> \in A
  BY FlippedMember
<1>5. Flipped(Flipped(A)) = A
  <2>1. Flipped(Flipped(A)) \in SUBSET (Pairs \X Pairs)
    BY FlippedMember
  <2>. QED
    BY <1>4, <2>1
<1>. QED
  BY <1>1, <1>3, <1>5

\* Adding edges from one pair (add_edge).
LEMMA LinkedEdges ==
  ASSUME NEW t, Agree(t), NEW from \in Pairs, NEW targets \in SUBSET Pairs
  PROVE  /\ Agree(Linked(t, from, targets))
         /\ Entries(Linked(t, from, targets).forward)
              = Entries(t.forward) \cup ({from} \X targets)
<1>. DEFINE new   == {from} \X (targets \ Listed(t.forward, from))
            after == Linked(t, from, targets)
<1>1. new \in SUBSET (Pairs \X Pairs) /\ Flipped(new) \in SUBSET (Pairs \X Pairs)
  BY FlippedMember
<1>2. /\ DOMAIN after = Fields
      /\ after.forward = Pushed(t.forward, new)
      /\ after.reverse = Pushed(t.reverse, Flipped(new))
  BY CountingKeepsMaps DEF Linked, Fields
<1>3. \A q \in targets : q \in Listed(t.forward, from) => <<from, q>> \in Entries(t.forward)
  BY EntryOf DEF Listed
<1>4. Entries(t.forward) \cup new = Entries(t.forward) \cup ({from} \X targets)
  BY <1>3
<1>. HIDE DEF new, after
<1>5. /\ IsMap(after.forward) /\ Entries(after.forward) = Entries(t.forward) \cup new
      /\ IsMap(after.reverse) /\ Entries(after.reverse) = Entries(t.reverse) \cup Flipped(new)
  BY <1>1, <1>2, PushedEntries DEF Agree
<1>6. Flipped(Entries(t.forward) \cup new) = Flipped(Entries(t.forward)) \cup Flipped(new)
  BY <1>1, FlippedSets, EntriesType DEF Agree
<1>7. Agree(after)
  BY <1>2, <1>5, <1>6 DEF Agree
<1>. QED
  BY <1>4, <1>5, <1>7 DEF after

\* Removing one edge (remove_edge).
LEMMA UnlinkedEdges ==
  ASSUME NEW t, Agree(t), NEW from \in Pairs, NEW to \in Pairs
  PROVE  /\ Agree(Unlinked(t, from, to))
         /\ Entries(Unlinked(t, from, to).forward) = Entries(t.forward) \ {<<from, to>>}
<1>1. CASE to \notin Listed(t.forward, from)
  <2>1. Unlinked(t, from, to) = t
    BY <1>1 DEF Unlinked
  <2>2. <<from, to>> \notin Entries(t.forward)
    BY <1>1, EntryOf DEF Listed
  <2>. QED
    BY <2>1, <2>2
<1>2. CASE to \in Listed(t.forward, from)
  <2>. DEFINE entry == {<<from, to>>}
              after == Unlinked(t, from, to)
  <2>1. entry \in SUBSET (Pairs \X Pairs) /\ Flipped(entry) \in SUBSET (Pairs \X Pairs)
    BY FlippedMember
  <2>2. /\ DOMAIN after = Fields
        /\ after.forward = Pulled(t.forward, entry)
        /\ after.reverse = Pulled(t.reverse, Flipped(entry))
    BY <1>2, CountingKeepsMaps DEF Unlinked, Fields
  <2>. HIDE DEF entry, after
  <2>3. /\ IsMap(after.forward) /\ Entries(after.forward) = Entries(t.forward) \ entry
        /\ IsMap(after.reverse) /\ Entries(after.reverse) = Entries(t.reverse) \ Flipped(entry)
    BY <2>1, <2>2, PulledEntries DEF Agree
  <2>4. Flipped(Entries(t.forward) \ entry) = Flipped(Entries(t.forward)) \ Flipped(entry)
    <3>1. Entries(t.forward) \in SUBSET (Pairs \X Pairs)
      BY EntriesType DEF Agree
    <3>. QED
      BY <2>1, <3>1, FlippedSets
  <2>5. Agree(after)
    BY <2>2, <2>3, <2>4 DEF Agree
  <2>. QED
    BY <2>3, <2>5 DEF after, entry
<1>. QED
  BY <1>1, <1>2

\* Removing the edges out of some pairs (clear_dependents).
LEMMA WithoutDependentsEdges ==
  ASSUME NEW t, Agree(t), NEW ps \in SUBSET Pairs
  PROVE  /\ Agree(WithoutDependents(t, ps))
         /\ Entries(WithoutDependents(t, ps).forward) = {e \in Entries(t.forward) : e[1] \notin ps}
<1>. DEFINE gone  == {e \in Entries(t.forward) : e[1] \in ps}
            after == WithoutDependents(t, ps)
<1>1. Entries(t.forward) \in SUBSET (Pairs \X Pairs)
  BY EntriesType DEF Agree
<1>2. gone \in SUBSET (Pairs \X Pairs) /\ Flipped(gone) \in SUBSET (Pairs \X Pairs)
  BY <1>1, FlippedMember
<1>3. /\ DOMAIN after = Fields
      /\ after.forward = Dropped(t.forward, ps)
      /\ after.reverse = Pulled(t.reverse, Flipped(gone))
  BY CountingKeepsMaps DEF WithoutDependents, Fields
<1>4. {e \in Entries(t.forward) : e[1] \notin ps} = Entries(t.forward) \ gone
  OBVIOUS
<1>. HIDE DEF gone, after
<1>5. /\ IsMap(after.forward) /\ Entries(after.forward) = Entries(t.forward) \ gone
      /\ IsMap(after.reverse) /\ Entries(after.reverse) = Entries(t.reverse) \ Flipped(gone)
  BY <1>2, <1>3, <1>4, PulledEntries, DroppedEntries DEF Agree
<1>6. Flipped(Entries(t.forward) \ gone) = Flipped(Entries(t.forward)) \ Flipped(gone)
  BY <1>1, <1>2, FlippedSets
<1>7. Agree(after)
  BY <1>3, <1>5, <1>6 DEF Agree
<1>. QED
  BY <1>4, <1>5, <1>7 DEF after

\* Removing the edges into some pairs (clear_dependencies).
LEMMA WithoutDependenciesEdges ==
  ASSUME NEW t, Agree(t), NEW ps \in SUBSET Pairs
  PROVE  /\ Agree(WithoutDependencies(t, ps))
         /\ Entries(WithoutDependencies(t, ps).forward) = {e \in Entries(t.forward) : e[2] \notin ps}
<1>. DEFINE into  == {e \in Entries(t.reverse) : e[1] \in ps}
            gone  == Flipped(into)
            after == WithoutDependencies(t, ps)
<1>1. /\ Entries(t.forward) \in SUBSET (Pairs \X Pairs)
      /\ Entries(t.reverse) \in SUBSET (Pairs \X Pairs)
  BY EntriesType DEF Agree
<1>2. into \in SUBSET (Pairs \X Pairs) /\ gone \in SUBSET (Pairs \X Pairs)
  BY <1>1, FlippedMember
<1>3. /\ DOMAIN after = Fields
      /\ after.forward = Pulled(t.forward, gone)
      /\ after.reverse = Dropped(t.reverse, ps)
  BY CountingKeepsMaps DEF WithoutDependencies, Fields
<1>4. {e \in Entries(t.reverse) : e[1] \notin ps} = Entries(t.reverse) \ into
  OBVIOUS
<1>5. \A p, q \in Pairs : <<p, q>> \in into <=> <<p, q>> \in Entries(t.reverse) /\ p \in ps
  OBVIOUS
<1>. HIDE DEF into, after
<1>6. /\ IsMap(after.forward) /\ Entries(after.forward) = Entries(t.forward) \ gone
      /\ IsMap(after.reverse) /\ Entries(after.reverse) = Entries(t.reverse) \ into
  BY <1>2, <1>3, <1>4, PulledEntries, DroppedEntries DEF Agree
<1>7. Flipped(gone) = into
  BY <1>2, FlippedSets
<1>8. Agree(after)
  <2>1. Flipped(Entries(t.forward) \ gone) = Flipped(Entries(t.forward)) \ Flipped(gone)
    BY <1>1, <1>2, FlippedSets
  <2>. QED
    BY <1>3, <1>6, <1>7, <2>1 DEF Agree
<1>9. ASSUME NEW p \in Pairs, NEW q \in Pairs
      PROVE  <<p, q>> \in Entries(t.forward) \ gone
               <=> <<p, q>> \in Entries(t.forward) /\ q \notin ps
  <2>1. <<p, q>> \in gone <=> <<q, p>> \in into
    BY <1>2, FlippedMember
  <2>2. <<q, p>> \in Entries(t.reverse) <=> <<p, q>> \in Entries(t.forward)
    BY <1>1, FlippedMember DEF Agree
  <2>. QED
    BY <1>5, <2>1, <2>2
<1>10. Entries(t.forward) \ gone = {e \in Entries(t.forward) : e[2] \notin ps}
  <2>. HIDE DEF gone
  <2>. QED
    BY <1>1, <1>9
<1>. QED
  BY <1>6, <1>8, <1>10 DEF after

\* Replacing the edges out of one pair (replace_dependents).
LEMMA RelinkedEdges ==
  ASSUME NEW t, Agree(t), NEW from \in Pairs, NEW targets \in SUBSET Pairs
  PROVE  /\ Agree(Relinked(t, from, targets))
         /\ Entries(Relinked(t, from, targets).forward)
              = {e \in Entries(t.forward) : e[1] # from} \cup ({from} \X targets)
<1>1. CASE Listed(t.forward, from) = targets
  <2>1. Relinked(t, from, targets) = t
    BY <1>1 DEF Relinked
  <2>2. \A q \in Pairs : <<from, q>> \in Entries(t.forward) <=> q \in targets
    BY <1>1, EntryOf DEF Listed
  <2>3. Entries(t.forward) \in SUBSET (Pairs \X Pairs)
    BY EntriesType DEF Agree
  <2>4. Entries(t.forward) = {e \in Entries(t.forward) : e[1] # from} \cup ({from} \X targets)
    BY <2>2, <2>3
  <2>. QED
    BY <2>1, <2>4
<1>2. CASE Listed(t.forward, from) # targets
  <2>. DEFINE cleared == WithoutDependents(t, {from})
  <2>1. Agree(cleared) /\ Entries(cleared.forward) = {e \in Entries(t.forward) : e[1] # from}
    BY WithoutDependentsEdges
  <2>2. Relinked(t, from, targets) = Linked(cleared, from, targets)
    BY <1>2 DEF Relinked
  <2>. HIDE DEF cleared
  <2>. QED
    BY <2>1, <2>2, LinkedEdges
<1>. QED
  BY <1>1, <1>2

\* Removing a key with all its edges (remove_key).
LEMMA WithoutKeyEdges ==
  ASSUME NEW t, Agree(t), NEW key \in Keys
  PROVE  /\ Agree(WithoutKey(t, key))
         /\ Entries(WithoutKey(t, key).forward)
              = {e \in Entries(t.forward) : e[1][1] # key /\ e[2][1] # key}
<1>. DEFINE ps  == {key} \X Channels
            out == WithoutDependents(t, ps)
<1>1. ps \in SUBSET Pairs
  BY DEF Pairs
<1>2. \A p \in Pairs : p \in ps <=> p[1] = key
  BY DEF Pairs
<1>3. WithoutKey(t, key) = WithoutDependencies(out, ps)
  BY DEF WithoutKey
<1>4. Entries(t.forward) \in SUBSET (Pairs \X Pairs)
  BY EntriesType DEF Agree
<1>. HIDE DEF ps
<1>5. Agree(out) /\ Entries(out.forward) = {e \in Entries(t.forward) : e[1] \notin ps}
  BY <1>1, WithoutDependentsEdges
<1>. HIDE DEF out
<1>6. Agree(WithoutDependencies(out, ps))
      /\ Entries(WithoutDependencies(out, ps).forward) = {e \in Entries(out.forward) : e[2] \notin ps}
  BY <1>1, <1>5, WithoutDependenciesEdges
<1>7. {e \in Entries(out.forward) : e[2] \notin ps}
        = {e \in Entries(t.forward) : e[1][1] # key /\ e[2][1] # key}
  <2>1. \A e \in Entries(t.forward) : e[1] \in Pairs /\ e[2] \in Pairs
    BY <1>4
  <2>. QED
    BY <1>2, <1>5, <2>1
<1>. QED
  BY <1>3, <1>6, <1>7

-----------------------------------------------------------------------------
(* The counters. *)

\* How many of some pairs are in each channel.
SourcesOf(ps) == [c \in Channels |-> Cardinality(InChannel(ps, c))]

\* The counters of t say what its maps hold: an entry of `forward` per pair
\* counted, and an edge per edge counted.
Counts(t) ==
  /\ Agree(t)
  /\ t.sources = SourcesOf(DOMAIN t.forward)
  /\ t.pairs = Tally(Entries(t.forward))
  /\ t.generation \in Nat

\* The generation of u, which an operation made of t, tells that it did.
Moves(t, u) ==
  /\ u.generation \in Nat /\ u.generation >= t.generation
  /\ ChannelPairs(u) # ChannelPairs(t) => u.generation > t.generation

\* Whatever is made of the keys and channels in use is finite.
LEMMA FinitePairs ==
  /\ \A S \in SUBSET Pairs : IsFiniteSet(S)
  /\ \A S \in SUBSET (Pairs \X Pairs) : IsFiniteSet(S)
  /\ \A S \in SUBSET (Channels \X Channels) : IsFiniteSet(S)
<1>1. IsFiniteSet(Pairs)
  BY TablesAssumption, FS_Product DEF Pairs
<1>2. IsFiniteSet(Pairs \X Pairs)
  BY <1>1, FS_Product
<1>3. IsFiniteSet(Channels \X Channels)
  BY TablesAssumption, FS_Product
<1>. QED
  BY <1>1, <1>2, <1>3, FS_Subset

\* A tally is a table of natural numbers, positive where there are edges.
LEMMA TallyType ==
  ASSUME NEW E \in SUBSET (Pairs \X Pairs)
  PROVE  /\ Tally(E) \in [Channels -> [Channels -> Nat]]
         /\ \A c, d \in Channels : Tally(E)[c][d] > 0 <=> Between(E, c, d) # {}
<1>1. ASSUME NEW c \in Channels, NEW d \in Channels
      PROVE  /\ Cardinality(Between(E, c, d)) \in Nat
             /\ Cardinality(Between(E, c, d)) > 0 <=> Between(E, c, d) # {}
  <2>1. IsFiniteSet(Between(E, c, d))
    BY FinitePairs DEF Between
  <2>. QED
    BY <2>1, FS_CardinalityType, FS_EmptySet
<1>. QED
  BY <1>1 DEF Tally

\* Tallies add up when the edges are put together.
LEMMA TallyUnion ==
  ASSUME NEW A \in SUBSET (Pairs \X Pairs), NEW B \in SUBSET (Pairs \X Pairs),
         A \cap B = {}
  PROVE  Tally(A \cup B) = [c \in Channels |-> [d \in Channels |-> Tally(A)[c][d] + Tally(B)[c][d]]]
<1>1. ASSUME NEW c \in Channels, NEW d \in Channels
      PROVE  Cardinality(Between(A \cup B, c, d))
               = Cardinality(Between(A, c, d)) + Cardinality(Between(B, c, d))
  <2>. DEFINE S == Between(A, c, d)
              T == Between(B, c, d)
  <2>1. /\ Between(A \cup B, c, d) = S \cup T
        /\ S \cap T = {}
    BY DEF Between
  <2>2. IsFiniteSet(S) /\ IsFiniteSet(T)
    BY FinitePairs DEF Between
  <2>. HIDE DEF S, T
  <2>3. Cardinality(S) \in Nat /\ Cardinality(T) \in Nat
    BY <2>2, FS_CardinalityType
  <2>4. Cardinality(S \cup T) = Cardinality(S) + Cardinality(T) - Cardinality(S \cap T)
    BY <2>2, FS_Union
  <2>5. Cardinality(S \cap T) = 0
    BY <2>1, FS_EmptySet
  <2>6. Cardinality(S \cup T) = Cardinality(S) + Cardinality(T)
    BY <2>3, <2>4, <2>5
  <2>. QED
    BY <2>1, <2>6 DEF S, T
<1>. QED
  BY <1>1 DEF Tally

\* And what is left when some of them go is counted by the difference.
LEMMA TallyWithout ==
  ASSUME NEW A \in SUBSET (Pairs \X Pairs), NEW B \in SUBSET A
  PROVE  Tally(A \ B) = [c \in Channels |-> [d \in Channels |-> Tally(A)[c][d] - Tally(B)[c][d]]]
<1>. DEFINE rest == A \ B
            left == Tally(rest)
            gone == Tally(B)
<1>1. rest \in SUBSET (Pairs \X Pairs) /\ B \in SUBSET (Pairs \X Pairs)
      /\ rest \cap B = {} /\ rest \cup B = A
  OBVIOUS
<1>2. left \in [Channels -> [Channels -> Nat]] /\ gone \in [Channels -> [Channels -> Nat]]
  <2>. HIDE DEF rest
  <2>. QED
    BY <1>1, TallyType
<1>3. Tally(rest \cup B) = [c \in Channels |-> [d \in Channels |-> left[c][d] + gone[c][d]]]
  <2>. HIDE DEF rest
  <2>. QED
    BY <1>1, TallyUnion
<1>. DEFINE all == Tally(A)
<1>4. all = [c \in Channels |-> [d \in Channels |-> left[c][d] + gone[c][d]]]
  <2>1. Tally(A) = Tally(rest \cup B)
    BY <1>1
  <2>. QED
    BY <1>3, <2>1
<1>. HIDE DEF left, gone, all
<1>5. ASSUME NEW c \in Channels, NEW d \in Channels
      PROVE  all[c][d] - gone[c][d] = left[c][d]
  <2>1. left[c][d] \in Nat /\ gone[c][d] \in Nat
    BY <1>2
  <2>2. all[c][d] = left[c][d] + gone[c][d]
    BY <1>4
  <2>. QED
    BY <2>1, <2>2
<1>6. left = [c \in Channels |-> [d \in Channels |-> left[c][d]]]
  BY <1>2
<1>7. left = [c \in Channels |-> [d \in Channels |-> all[c][d] - gone[c][d]]]
  BY <1>5, <1>6
<1>. QED
  BY <1>7 DEF left, gone, all

\* The generation moves on by the number of channel pairs whose count came
\* from or went to zero, so it does when there is one (PairCounts).
LEMMA TurnedTells ==
  ASSUME NEW P \in [Channels -> [Channels -> Nat]], NEW Q \in [Channels -> [Channels -> Nat]]
  PROVE  /\ Turned(P, Q) \in Nat
         /\ {cd \in Channels \X Channels : P[cd[1]][cd[2]] > 0}
              # {cd \in Channels \X Channels : Q[cd[1]][cd[2]] > 0} => Turned(P, Q) > 0
<1>. DEFINE turned == {cd \in Channels \X Channels :
                         (P[cd[1]][cd[2]] = 0) # (Q[cd[1]][cd[2]] = 0)}
<1>1. IsFiniteSet(turned)
  <2>1. turned \in SUBSET (Channels \X Channels)
    OBVIOUS
  <2>. QED
    BY <2>1, FinitePairs
<1>2. Turned(P, Q) = Cardinality(turned)
  BY DEF Turned
<1>3. ASSUME turned = {}, NEW cd \in Channels \X Channels
      PROVE  P[cd[1]][cd[2]] > 0 <=> Q[cd[1]][cd[2]] > 0
  <2>1. (P[cd[1]][cd[2]] = 0) = (Q[cd[1]][cd[2]] = 0)
    BY <1>3
  <2>2. cd[1] \in Channels /\ cd[2] \in Channels
    OBVIOUS
  <2>3. P[cd[1]][cd[2]] \in Nat /\ Q[cd[1]][cd[2]] \in Nat
    BY <2>2
  <2>. QED
    BY <2>1, <2>3
<1>. HIDE DEF turned
<1>4. Cardinality(turned) \in Nat /\ (turned # {} => Cardinality(turned) > 0)
  BY <1>1, FS_CardinalityType, FS_EmptySet
<1>. QED
  BY <1>2, <1>3, <1>4

\* Counting edges that were not there counts what is there with them, and
\* the generation tells.
LEMMA CountedTables ==
  ASSUME NEW t, Counts(t), NEW E \in SUBSET (Pairs \X Pairs), E \cap Entries(t.forward) = {}
  PROVE  /\ Counted(t, E).pairs = Tally(Entries(t.forward) \cup E)
         /\ Counted(t, E).sources = t.sources
         /\ Moves(t, Counted(t, E))
<1>. DEFINE after == Counted(t, E)
            held  == Entries(t.forward)
            P     == Tally(held)
            Q     == Tally(held \cup E)
<1>1. held \in SUBSET (Pairs \X Pairs)
  BY EntriesType DEF Counts, Agree
<1>2. P \in [Channels -> [Channels -> Nat]] /\ Q \in [Channels -> [Channels -> Nat]]
  BY <1>1, TallyType
<1>3. Q = [c \in Channels |-> [d \in Channels |-> t.pairs[c][d] + Tally(E)[c][d]]]
  BY <1>1, TallyUnion DEF Counts
<1>4. t.pairs = P /\ t.generation \in Nat /\ DOMAIN t = Fields
  BY DEF Counts, Agree
<1>. HIDE DEF held, P, Q
<1>5. after.pairs = Q /\ after.sources = t.sources /\ after.generation = t.generation + Turned(P, Q)
  BY <1>3, <1>4 DEF Counted, Fields
<1>. HIDE DEF after
<1>6. Moves(t, after)
  <2>1. /\ ChannelPairs(t) = {cd \in Channels \X Channels : P[cd[1]][cd[2]] > 0}
        /\ ChannelPairs(after) = {cd \in Channels \X Channels : Q[cd[1]][cd[2]] > 0}
    BY <1>4, <1>5 DEF ChannelPairs
  <2>2. Turned(P, Q) \in Nat /\ (ChannelPairs(after) # ChannelPairs(t) => Turned(P, Q) > 0)
    BY <1>2, <2>1, TurnedTells
  <2>. QED
    BY <1>4, <1>5, <2>2 DEF Moves
<1>. QED
  BY <1>5, <1>6 DEF after, held, Q

\* Counting out edges that were there counts what is left, and the
\* generation tells.
LEMMA UncountedTables ==
  ASSUME NEW t, Counts(t), NEW E \in SUBSET Entries(t.forward)
  PROVE  /\ Uncounted(t, E).pairs = Tally(Entries(t.forward) \ E)
         /\ Uncounted(t, E).sources = t.sources
         /\ Moves(t, Uncounted(t, E))
<1>. DEFINE after == Uncounted(t, E)
            held  == Entries(t.forward)
            P     == Tally(held)
            Q     == Tally(held \ E)
<1>1. held \in SUBSET (Pairs \X Pairs)
  BY EntriesType DEF Counts, Agree
<1>2. P \in [Channels -> [Channels -> Nat]] /\ Q \in [Channels -> [Channels -> Nat]]
  BY <1>1, TallyType
<1>3. Q = [c \in Channels |-> [d \in Channels |-> t.pairs[c][d] - Tally(E)[c][d]]]
  BY <1>1, TallyWithout DEF Counts
<1>4. t.pairs = P /\ t.generation \in Nat /\ DOMAIN t = Fields
  BY DEF Counts, Agree
<1>. HIDE DEF held, P, Q
<1>5. after.pairs = Q /\ after.sources = t.sources /\ after.generation = t.generation + Turned(P, Q)
  BY <1>3, <1>4 DEF Uncounted, Fields
<1>. HIDE DEF after
<1>6. Moves(t, after)
  <2>1. /\ ChannelPairs(t) = {cd \in Channels \X Channels : P[cd[1]][cd[2]] > 0}
        /\ ChannelPairs(after) = {cd \in Channels \X Channels : Q[cd[1]][cd[2]] > 0}
    BY <1>4, <1>5 DEF ChannelPairs
  <2>2. Turned(P, Q) \in Nat /\ (ChannelPairs(after) # ChannelPairs(t) => Turned(P, Q) > 0)
    BY <1>2, <2>1, TurnedTells
  <2>. QED
    BY <1>4, <1>5, <2>2 DEF Moves
<1>. QED
  BY <1>5, <1>6 DEF after, held, Q

\* The same for the counters of entries per channel.
LEMMA SourcesTables ==
  ASSUME NEW ps \in SUBSET Pairs, NEW qs \in SUBSET Pairs
  PROVE  /\ SourcesOf(ps) \in [Channels -> Nat]
         /\ \A c \in Channels : SourcesOf(ps)[c] > 0 <=> InChannel(ps, c) # {}
         /\ ps \cap qs = {} => WithSources(SourcesOf(ps), qs) = SourcesOf(ps \cup qs)
         /\ qs \subseteq ps => WithoutSources(SourcesOf(ps), qs) = SourcesOf(ps \ qs)
<1>1. ASSUME NEW c \in Channels
      PROVE  /\ Cardinality(InChannel(ps, c)) \in Nat
             /\ Cardinality(InChannel(ps, c)) > 0 <=> InChannel(ps, c) # {}
             /\ ps \cap qs = {} => Cardinality(InChannel(ps \cup qs, c))
                                     = Cardinality(InChannel(ps, c)) + Cardinality(InChannel(qs, c))
             /\ qs \subseteq ps => Cardinality(InChannel(ps \ qs, c))
                                     = Cardinality(InChannel(ps, c)) - Cardinality(InChannel(qs, c))
  <2>. DEFINE S == InChannel(ps, c)
              T == InChannel(qs, c)
  <2>1. /\ InChannel(ps \cup qs, c) = S \cup T /\ InChannel(ps \ qs, c) = S \ T
        /\ ps \cap qs = {} => S \cap T = {}
        /\ qs \subseteq ps => S \cap T = T
    BY DEF InChannel
  <2>2. IsFiniteSet(S) /\ IsFiniteSet(T)
    BY FinitePairs DEF InChannel
  <2>. HIDE DEF S, T
  <2>3. Cardinality(S) \in Nat /\ Cardinality(T) \in Nat
    BY <2>2, FS_CardinalityType
  <2>4. Cardinality(S) > 0 <=> S # {}
    BY <2>2, <2>3, FS_EmptySet
  <2>5. Cardinality(S \cup T) = Cardinality(S) + Cardinality(T) - Cardinality(S \cap T)
    BY <2>2, FS_Union
  <2>6. Cardinality(S \ T) = Cardinality(S) - Cardinality(S \cap T)
    BY <2>2, FS_Difference
  <2>7. Cardinality({}) = 0
    BY FS_EmptySet
  <2>8. ASSUME S \cap T = {}
        PROVE  Cardinality(S \cup T) = Cardinality(S) + Cardinality(T)
    <3>1. Cardinality(S \cap T) = 0
      BY <2>7, <2>8
    <3>. QED
      BY <2>3, <2>5, <3>1
  <2>. QED
    BY <2>1, <2>3, <2>4, <2>6, <2>8 DEF S, T
<1>2. /\ SourcesOf(ps) \in [Channels -> Nat]
      /\ \A c \in Channels : SourcesOf(ps)[c] > 0 <=> InChannel(ps, c) # {}
  BY <1>1 DEF SourcesOf
<1>3. ASSUME ps \cap qs = {}
      PROVE  WithSources(SourcesOf(ps), qs) = SourcesOf(ps \cup qs)
  BY <1>1, <1>3 DEF SourcesOf, WithSources
<1>4. ASSUME qs \subseteq ps
      PROVE  WithoutSources(SourcesOf(ps), qs) = SourcesOf(ps \ qs)
  BY <1>1, <1>4 DEF SourcesOf, WithoutSources
<1>. QED
  BY <1>2, <1>3, <1>4

-----------------------------------------------------------------------------
(* Operations, their counters and their generation. *)

\* An operation that leaves the struct alone need not tell anything, and what
\* two operations tell in turn they tell together.
LEMMA MovesInTurn ==
  ASSUME NEW t, Counts(t)
  PROVE  /\ Moves(t, t)
         /\ \A u, v : Moves(t, u) /\ Moves(u, v) => Moves(t, v)
BY DEF Moves, Counts

\* Adding edges from one pair counts them, and the pair if it had no list.
LEMMA LinkedCounts ==
  ASSUME NEW t, Counts(t), NEW from \in Pairs, NEW targets \in SUBSET Pairs
  PROVE  Counts(Linked(t, from, targets)) /\ Moves(t, Linked(t, from, targets))
<1>. DEFINE old     == Entries(t.forward)
            new     == {from} \X (targets \ Listed(t.forward, from))
            counted == Counted(t, new)
            after   == Linked(t, from, targets)
            had     == DOMAIN t.forward
<1>1. Agree(t) /\ Agree(after) /\ Entries(after.forward) = old \cup ({from} \X targets)
  BY LinkedEdges DEF Counts
<1>2. new \in SUBSET (Pairs \X Pairs)
  OBVIOUS
<1>3. \A q \in targets : q \in Listed(t.forward, from) <=> <<from, q>> \in old
  BY EntryOf DEF Listed
<1>4. new \cap old = {} /\ old \cup new = old \cup ({from} \X targets)
  BY <1>3
<1>5. had \in SUBSET Pairs /\ t.sources = SourcesOf(had) /\ IsMap(t.forward)
  BY <1>1 DEF Agree, IsMap, Counts
<1>6. DOMAIN after.forward = had \cup {e[1] : e \in new}
  BY <1>1, CountingKeepsMaps DEF Linked, Fields, Pushed
<1>7. /\ after.pairs = counted.pairs /\ after.generation = counted.generation
      /\ after.sources = IF targets = {} \/ from \in had THEN counted.sources
                         ELSE WithSources(counted.sources, {from})
  BY <1>1, CountingKeepsMaps DEF Linked, Fields
<1>8. counted.pairs = Tally(old \cup new) /\ counted.sources = SourcesOf(had) /\ Moves(t, counted)
  <2>. HIDE DEF new
  <2>. QED
    BY <1>2, <1>4, <1>5, CountedTables
<1>9. after.sources = SourcesOf(DOMAIN after.forward)
  <2>1. CASE targets = {} \/ from \in had
    <3>1. DOMAIN after.forward = had
      BY <1>6, <2>1
    <3>. QED
      BY <1>7, <1>8, <2>1, <3>1
  <2>2. CASE targets # {} /\ from \notin had
    <3>1. new = {from} \X targets
      BY <2>2 DEF Listed
    <3>2. {e[1] : e \in new} = {from}
      <4>1. PICK q \in targets : TRUE
        BY <2>2
      <4>2. <<from, q>> \in new /\ \A e \in new : e[1] = from
        BY <3>1
      <4>3. from \in {e[1] : e \in new}
        BY <4>2
      <4>. QED
        BY <4>2, <4>3
    <3>3. WithSources(SourcesOf(had), {from}) = SourcesOf(had \cup {from})
      BY <1>5, <2>2, SourcesTables
    <3>. HIDE DEF after, new, counted, had
    <3>. QED
      BY <1>6, <1>7, <1>8, <2>2, <3>2, <3>3
  <2>. QED
    BY <2>1, <2>2
<1>. HIDE DEF after, counted, new, old, had
<1>10. Moves(t, after)
  BY <1>7, <1>8 DEF Moves, ChannelPairs
<1>. QED
  BY <1>1, <1>4, <1>7, <1>8, <1>9, <1>10 DEF Counts, Moves, after, old

\* What a removal leaves is counted if the edges counted out are those gone
\* from `forward`, and the sources those whose list went.
LEMMA RemovalCounts ==
  ASSUME NEW t, Counts(t), NEW u, Agree(u), NEW E \in SUBSET Entries(t.forward),
         Entries(u.forward) = Entries(t.forward) \ E,
         u.pairs = Uncounted(t, E).pairs,
         u.generation = Uncounted(t, E).generation,
         DOMAIN u.forward \subseteq DOMAIN t.forward,
         u.sources = WithoutSources(t.sources, DOMAIN t.forward \ DOMAIN u.forward)
  PROVE  Counts(u) /\ Moves(t, u)
<1>. DEFINE had  == DOMAIN t.forward
            have == DOMAIN u.forward
            counted == Uncounted(t, E)
<1>1. had \in SUBSET Pairs /\ t.sources = SourcesOf(had)
  BY DEF Agree, IsMap, Counts
<1>2. u.sources = SourcesOf(have)
  <2>1. had \ (had \ have) = have
    OBVIOUS
  <2>2. WithoutSources(SourcesOf(had), had \ have) = SourcesOf(had \ (had \ have))
    BY <1>1, SourcesTables
  <2>. QED
    BY <1>1, <2>1, <2>2
<1>3. counted.pairs = Tally(Entries(t.forward) \ E) /\ Moves(t, counted)
  BY UncountedTables
<1>. HIDE DEF counted
<1>4. Moves(t, u)
  BY <1>3 DEF Moves, ChannelPairs, counted
<1>5. u.pairs = Tally(Entries(u.forward))
  BY <1>3 DEF counted
<1>. QED
  BY <1>2, <1>4, <1>5 DEF Counts, Moves

\* Removing one edge counts it out, and its pair with the last.
LEMMA UnlinkedCounts ==
  ASSUME NEW t, Counts(t), NEW from \in Pairs, NEW to \in Pairs
  PROVE  Counts(Unlinked(t, from, to)) /\ Moves(t, Unlinked(t, from, to))
<1>1. CASE to \notin Listed(t.forward, from)
  BY <1>1, MovesInTurn DEF Unlinked
<1>2. CASE to \in Listed(t.forward, from)
  <2>. DEFINE entry == {<<from, to>>}
              left  == Pulled(t.forward, entry)
              after == Unlinked(t, from, to)
  <2>1. Agree(after) /\ Entries(after.forward) = Entries(t.forward) \ entry
    BY UnlinkedEdges DEF Counts
  <2>2. entry \in SUBSET Entries(t.forward)
    BY <1>2, EntryOf DEF Listed
  <2>3. /\ after.forward = left
        /\ after.pairs = Uncounted(t, entry).pairs
        /\ after.generation = Uncounted(t, entry).generation
        /\ after.sources = IF from \in DOMAIN left THEN Uncounted(t, entry).sources
                           ELSE WithoutSources(Uncounted(t, entry).sources, {from})
    BY <1>2, CountingKeepsMaps DEF Unlinked, Fields, Counts
  <2>4. /\ DOMAIN left \subseteq DOMAIN t.forward
        /\ DOMAIN t.forward \ DOMAIN left \subseteq {from}
    BY DEF Pulled
  <2>5. from \in DOMAIN t.forward /\ DOMAIN t.forward \in SUBSET Pairs
    BY <1>2 DEF Listed, Counts, Agree, IsMap
  <2>6. Uncounted(t, entry).sources = t.sources /\ t.sources = SourcesOf(DOMAIN t.forward)
    BY <2>2, UncountedTables DEF Counts
  <2>. HIDE DEF left, after, entry
  <2>7. after.sources = WithoutSources(t.sources, DOMAIN t.forward \ DOMAIN after.forward)
    <3>1. CASE from \in DOMAIN left
      <4>1. DOMAIN t.forward \ DOMAIN left = {}
        BY <2>4, <3>1
      <4>2. WithoutSources(SourcesOf(DOMAIN t.forward), {}) = SourcesOf(DOMAIN t.forward \ {})
        BY <2>5, SourcesTables
      <4>3. DOMAIN t.forward \ {} = DOMAIN t.forward
        OBVIOUS
      <4>. QED
        BY <2>3, <2>6, <3>1, <4>1, <4>2, <4>3
    <3>2. CASE from \notin DOMAIN left
      <4>1. DOMAIN t.forward \ DOMAIN left = {from}
        BY <2>4, <2>5, <3>2
      <4>. QED
        BY <2>3, <2>6, <3>2, <4>1
    <3>. QED
      BY <3>1, <3>2
  <2>8. Counts(after) /\ Moves(t, after)
    BY <2>1, <2>2, <2>3, <2>4, <2>7, RemovalCounts
  <2>. QED
    BY <2>8 DEF after
<1>. QED
  BY <1>1, <1>2

\* Removing the edges out of some pairs counts them out, and the pairs.
LEMMA WithoutDependentsCounts ==
  ASSUME NEW t, Counts(t), NEW ps \in SUBSET Pairs
  PROVE  Counts(WithoutDependents(t, ps)) /\ Moves(t, WithoutDependents(t, ps))
<1>. DEFINE gone  == {e \in Entries(t.forward) : e[1] \in ps}
            after == WithoutDependents(t, ps)
<1>1. Agree(after) /\ Entries(after.forward) = {e \in Entries(t.forward) : e[1] \notin ps}
  BY WithoutDependentsEdges DEF Counts
<1>2. gone \in SUBSET Entries(t.forward) /\ Entries(after.forward) = Entries(t.forward) \ gone
  BY <1>1
<1>3. /\ after.forward = Dropped(t.forward, ps)
      /\ after.pairs = Uncounted(t, gone).pairs
      /\ after.generation = Uncounted(t, gone).generation
      /\ after.sources = WithoutSources(Uncounted(t, gone).sources, ps \cap DOMAIN t.forward)
  BY CountingKeepsMaps DEF WithoutDependents, Fields, Counts
<1>4. Uncounted(t, gone).sources = t.sources
  <2>. HIDE DEF gone
  <2>. QED
    BY <1>2, UncountedTables
<1>5. DOMAIN after.forward = DOMAIN t.forward \ ps
  BY <1>3 DEF Dropped
<1>. HIDE DEF gone, after
<1>6. ps \cap DOMAIN t.forward = DOMAIN t.forward \ DOMAIN after.forward
  BY <1>5
<1>7. Counts(after) /\ Moves(t, after)
  BY <1>1, <1>2, <1>3, <1>4, <1>5, <1>6, RemovalCounts
<1>. QED
  BY <1>7 DEF after

\* Removing the edges into some pairs counts them out, and each pair that
\* loses its last edge so.
LEMMA WithoutDependenciesCounts ==
  ASSUME NEW t, Counts(t), NEW ps \in SUBSET Pairs
  PROVE  Counts(WithoutDependencies(t, ps)) /\ Moves(t, WithoutDependencies(t, ps))
<1>. DEFINE gone  == Flipped({e \in Entries(t.reverse) : e[1] \in ps})
            out   == gone \cap Entries(t.forward)
            left  == Pulled(t.forward, gone)
            after == WithoutDependencies(t, ps)
<1>1. Agree(after) /\ Agree(t)
  BY WithoutDependenciesEdges DEF Counts
<1>2. gone \in SUBSET (Pairs \X Pairs) /\ IsMap(t.forward)
  <2>1. {e \in Entries(t.reverse) : e[1] \in ps} \in SUBSET (Pairs \X Pairs)
    BY <1>1, EntriesType DEF Agree
  <2>. QED
    BY <1>1, <2>1, FlippedMember DEF Agree
<1>3. /\ after.forward = left
      /\ after.pairs = Uncounted(t, out).pairs
      /\ after.generation = Uncounted(t, out).generation
      /\ after.sources = WithoutSources(Uncounted(t, out).sources, DOMAIN t.forward \ DOMAIN left)
  BY <1>1, CountingKeepsMaps DEF WithoutDependencies, Fields
<1>. HIDE DEF gone, left, after
<1>4. Entries(left) = Entries(t.forward) \ gone /\ DOMAIN left \subseteq DOMAIN t.forward
  BY <1>2, PulledEntries DEF left
<1>5. out \in SUBSET Entries(t.forward) /\ Entries(t.forward) \ gone = Entries(t.forward) \ out
  OBVIOUS
<1>. HIDE DEF out
<1>6. Uncounted(t, out).sources = t.sources
  BY <1>5, UncountedTables
<1>7. Counts(after) /\ Moves(t, after)
  BY <1>1, <1>3, <1>4, <1>5, <1>6, RemovalCounts
<1>. QED
  BY <1>7 DEF after

\* A replacement is a removal and an addition.
LEMMA RelinkedCounts ==
  ASSUME NEW t, Counts(t), NEW from \in Pairs, NEW targets \in SUBSET Pairs
  PROVE  Counts(Relinked(t, from, targets)) /\ Moves(t, Relinked(t, from, targets))
<1>1. CASE Listed(t.forward, from) = targets
  BY <1>1, MovesInTurn DEF Relinked
<1>2. CASE Listed(t.forward, from) # targets
  <2>. DEFINE cleared == WithoutDependents(t, {from})
  <2>1. Counts(cleared) /\ Moves(t, cleared)
    BY WithoutDependentsCounts
  <2>2. Relinked(t, from, targets) = Linked(cleared, from, targets)
    BY <1>2 DEF Relinked
  <2>. HIDE DEF cleared
  <2>. QED
    BY <2>1, <2>2, LinkedCounts, MovesInTurn
<1>. QED
  BY <1>1, <1>2

\* Removing a key is a removal of the edges out of it and one of those into
\* it; an edge from the key to itself is counted out by the first alone.
LEMMA WithoutKeyCounts ==
  ASSUME NEW t, Counts(t), NEW key \in Keys
  PROVE  Counts(WithoutKey(t, key)) /\ Moves(t, WithoutKey(t, key))
<1>. DEFINE ps  == {key} \X Channels
            out == WithoutDependents(t, ps)
<1>1. ps \in SUBSET Pairs
  BY DEF Pairs
<1>2. WithoutKey(t, key) = WithoutDependencies(out, ps)
  BY DEF WithoutKey
<1>. HIDE DEF ps
<1>3. Counts(out) /\ Moves(t, out)
  BY <1>1, WithoutDependentsCounts
<1>. HIDE DEF out
<1>4. Counts(WithoutDependencies(out, ps)) /\ Moves(out, WithoutDependencies(out, ps))
  BY <1>1, <1>3, WithoutDependenciesCounts
<1>. QED
  BY <1>2, <1>3, <1>4, MovesInTurn

\* An empty struct agrees with itself.
LEMMA NoEdgesAgree == Agree(NoEdges) /\ Entries(NoEdges.forward) = {}
BY DEF NoEdges, Agree, Fields, IsMap, Entries, Flipped

\* And its counters are right.
LEMMA NoEdgesCount == Counts(NoEdges) /\ NoEdges.generation = 0
<1>. DEFINE none == [p \in {} |-> {}]
<1>1. NoEdges.forward = none /\ DOMAIN none = {} /\ NoEdges.generation = 0
  BY DEF NoEdges
<1>2. \A c, d \in Channels : Between({}, c, d) = {} /\ InChannel({}, c) = {}
  BY DEF Between, InChannel
<1>3. Cardinality({}) = 0
  BY FS_EmptySet
<1>4. NoEdges.sources = SourcesOf({}) /\ NoEdges.pairs = Tally({})
  BY <1>2, <1>3 DEF NoEdges, SourcesOf, Tally
<1>. QED
  BY <1>1, <1>4, NoEdgesAgree DEF Counts

-----------------------------------------------------------------------------
(* The struct under every sequence of calls (CrossChannelEdges). *)

\* What a call may assume: the struct is one of the calls' results.
EdgesInv == Counts(table) /\ returned \in {"true", "false", "nothing"}

\* Every call keeps the counters right, and the generation tells of it.
LEMMA StepKeepsInv ==
  ASSUME EdgesInv, [EdgesNext]_edgesVars
  PROVE  EdgesInv' /\ Moves(table, table')
<1>. Bool(TRUE) = "true" /\ Bool(FALSE) = "false"
  BY DEF Bool
<1>. Counts(table)
  BY DEF EdgesInv
<1>1. ASSUME NEW from \in Pairs, NEW to \in Pairs, AddEdge(from, to)
      PROVE  EdgesInv' /\ Moves(table, table')
  BY <1>1, LinkedCounts DEF AddEdge, Bool, EdgesInv
<1>2. ASSUME NEW from \in Pairs, NEW to \in Pairs, RemoveEdge(from, to)
      PROVE  EdgesInv' /\ Moves(table, table')
  BY <1>2, UnlinkedCounts DEF RemoveEdge, Bool, EdgesInv
<1>3. ASSUME NEW from \in Pairs, NEW targets \in SUBSET Pairs, ReplaceDependents(from, targets)
      PROVE  EdgesInv' /\ Moves(table, table')
  BY <1>3, RelinkedCounts DEF ReplaceDependents, Bool, EdgesInv
<1>4. ASSUME NEW p \in Pairs, ClearDependents(p)
      PROVE  EdgesInv' /\ Moves(table, table')
  BY <1>4, WithoutDependentsCounts DEF ClearDependents, Bool, EdgesInv
<1>5. ASSUME NEW p \in Pairs, ClearDependencies(p)
      PROVE  EdgesInv' /\ Moves(table, table')
  BY <1>5, WithoutDependenciesCounts DEF ClearDependencies, Bool, EdgesInv
<1>6. ASSUME NEW key \in Keys, RemoveKeyEdges(key)
      PROVE  EdgesInv' /\ Moves(table, table')
  BY <1>6, WithoutKeyCounts DEF RemoveKeyEdges, EdgesInv
<1>7. CASE UNCHANGED edgesVars
  BY <1>7, MovesInTurn DEF edgesVars, EdgesInv
<1>. QED
  BY <1>1, <1>2, <1>3, <1>4, <1>5, <1>6, <1>7 DEF EdgesNext

\* The invariant holds throughout.
LEMMA Invariant == EdgesSpec => []EdgesInv
<1>1. EdgesInit => EdgesInv
  BY NoEdgesCount DEF EdgesInit, EdgesInv
<1>. QED
  BY <1>1, StepKeepsInv, PTL DEF EdgesSpec

\* The forward and the reverse map hold the same edges, and no empty list,
\* after every sequence of calls (cross_channel.rs, every operation).
THEOREM MapsAlwaysAgree == EdgesSpec => []MapsAgree
<1>1. EdgesInv => MapsAgree
  BY DEF EdgesInv, Counts, Agree, IsMap, MapsAgree
<1>. QED
  BY <1>1, Invariant, PTL

\* A pair has an entry in `forward` exactly if an edge leads from it.
LEMMA SourcesOfEdges ==
  ASSUME EdgesInv
  PROVE  /\ DOMAIN table.forward = {e[1] : e \in Edges}
         /\ DOMAIN table.forward \in SUBSET Pairs
<1>1. /\ DOMAIN table.forward \in SUBSET Pairs
      /\ \A p \in DOMAIN table.forward : table.forward[p] # {}
  BY DEF EdgesInv, Counts, Agree, IsMap
<1>2. ASSUME NEW p \in DOMAIN table.forward
      PROVE  \E e \in Edges : e[1] = p
  <2>1. PICK q \in table.forward[p] : TRUE
    BY <1>1
  <2>2. <<p, q>> \in Edges
    BY EntryOf DEF Edges
  <2>. QED
    BY <2>2
<1>3. ASSUME NEW e \in Edges
      PROVE  e[1] \in DOMAIN table.forward
  BY EntryMember DEF Edges
<1>. QED
  BY <1>1, <1>2, <1>3

\* The counters say what the edges are.
LEMMA CountersAreExact ==
  ASSUME EdgesInv
  PROVE  CountersExact
<1>1. table.sources = SourcesOf(DOMAIN table.forward) /\ table.pairs = Tally(Edges)
  BY DEF EdgesInv, Counts, Edges
<1>2. table.sources = SourcesOf({e[1] : e \in Edges})
  BY <1>1, SourcesOfEdges
<1>3. \A c \in Channels : table.sources[c] = Cardinality(InChannel({e[1] : e \in Edges}, c))
  BY <1>2, Zenon DEF SourcesOf
<1>4. \A c, d \in Channels : table.pairs[c][d] = Cardinality(Between(Edges, c, d))
  BY <1>1 DEF Tally
<1>. QED
  BY <1>3, <1>4 DEF CountersExact

\* So the queries tell of the edges.
LEMMA QueriesDoAnswer ==
  ASSUME EdgesInv
  PROVE  QueriesAnswer
<1>. DEFINE froms == {e[1] : e \in Edges}
<1>1. Edges \in SUBSET (Pairs \X Pairs)
  BY EntriesType DEF EdgesInv, Counts, Agree, Edges
<1>2. froms \in SUBSET Pairs /\ DOMAIN table.forward = froms
  BY SourcesOfEdges
<1>3. table.sources = SourcesOf(froms) /\ table.pairs = Tally(Edges)
  BY <1>2 DEF EdgesInv, Counts, Edges
<1>4. IsEmpty(table) <=> Edges = {}
  BY <1>2 DEF IsEmpty
<1>5. ASSUME NEW c \in Channels
      PROVE  HasSourcesIn(table, c) <=> \E e \in Edges : e[1][2] = c
  <2>1. HasSourcesIn(table, c) <=> InChannel(froms, c) # {}
    <3>. HIDE DEF froms
    <3>. QED
      BY <1>2, <1>3, SourcesTables DEF HasSourcesIn
  <2>2. InChannel(froms, c) # {} <=> \E e \in Edges : e[1][2] = c
    BY DEF InChannel
  <2>. QED
    BY <2>1, <2>2
<1>6. SourceChannels(table) = {e[1][2] : e \in Edges}
  <2>1. \A e \in Edges : e[1][2] \in Channels
    BY <1>1 DEF Pairs
  <2>. QED
    BY <1>5, <2>1 DEF SourceChannels
<1>7. ChannelPairs(table) = {<<e[1][2], e[2][2]>> : e \in Edges}
  <2>1. \A c, d \in Channels : table.pairs[c][d] > 0 <=> Between(Edges, c, d) # {}
    BY <1>1, <1>3, TallyType
  <2>2. \A c, d \in Channels : Between(Edges, c, d) # {} <=>
                                 <<c, d>> \in {<<e[1][2], e[2][2]>> : e \in Edges}
    BY DEF Between
  <2>3. {<<e[1][2], e[2][2]>> : e \in Edges} \subseteq Channels \X Channels
    BY <1>1 DEF Pairs
  <2>4. \A c, d \in Channels : <<c, d>> \in ChannelPairs(table) <=> table.pairs[c][d] > 0
    BY DEF ChannelPairs
  <2>5. ChannelPairs(table) \subseteq Channels \X Channels
    BY DEF ChannelPairs
  <2>. QED
    BY <2>1, <2>2, <2>3, <2>4, <2>5
<1>8. ASSUME NEW p \in Pairs, NEW q \in Pairs
      PROVE  /\ q \in Dependents(table, p) <=> <<p, q>> \in Edges
             /\ p \in Dependencies(table, q) <=> <<p, q>> \in Edges
  <2>1. q \in Dependents(table, p) <=> <<p, q>> \in Edges
    BY EntryOf DEF Dependents, Listed, Edges
  <2>2. p \in Dependencies(table, q) <=> <<q, p>> \in Entries(table.reverse)
    BY EntryOf DEF Dependencies, Listed
  <2>3. Entries(table.reverse) = Flipped(Edges)
    BY DEF EdgesInv, Counts, Agree, Edges
  <2>. QED
    BY <1>1, <2>1, <2>2, <2>3, FlippedMember
<1>. QED
  BY <1>4, <1>5, <1>6, <1>7, <1>8 DEF QueriesAnswer

\* No sequence of calls makes a counter wrong, drops one below zero, or lets
\* a query answer otherwise than by the edges there are (cross_channel.rs,
\* PairCounts and the sources of every removal).
THEOREM CountersAlwaysServe == EdgesSpec => []CountersServe
<1>1. ASSUME EdgesInv
      PROVE  EdgesTypeOK
  <2>1. /\ table.sources = SourcesOf(DOMAIN table.forward)
        /\ table.pairs = Tally(Edges) /\ table.generation \in Nat
        /\ DOMAIN table.forward \in SUBSET Pairs /\ DOMAIN table.reverse \in SUBSET Pairs
        /\ Edges \in SUBSET (Pairs \X Pairs) /\ Entries(table.reverse) \in SUBSET (Pairs \X Pairs)
    BY <1>1, EntriesType DEF EdgesInv, Counts, Agree, IsMap, Edges
  <2>2. table.sources \in [Channels -> Nat]
    BY <2>1, SourcesTables
  <2>3. table.pairs \in [Channels -> [Channels -> Nat]]
    BY <2>1, TallyType
  <2>. QED
    BY <1>1, <2>1, <2>2, <2>3 DEF EdgesTypeOK, EdgesInv, Edges
<1>2. EdgesInv => CountersServe
  BY <1>1, CountersAreExact, QueriesDoAnswer DEF CountersServe
<1>. QED
  BY <1>2, Invariant, PTL

\* Whatever a call does to the channel pairs, the generation moves on with it,
\* so a cache that kept the generation kept the pairs (cross_channel.rs,
\* pair_generation).
THEOREM GenerationAlwaysTells == EdgesSpec => GenerationTellsPairs
<1>1. ASSUME EdgesInv, [EdgesNext]_edgesVars
      PROVE  /\ table'.generation >= table.generation
             /\ ChannelPairs(table') # ChannelPairs(table) => table'.generation > table.generation
  BY <1>1, StepKeepsInv DEF Moves
<1>. QED
  BY <1>1, Invariant, PTL DEF EdgesSpec, GenerationTellsPairs

-----------------------------------------------------------------------------
(* Refinement of the contract. *)

\* add_edge is the contract's operation of that name: it changes the set of
\* edges as promised, and answers "true" just when that is a change.
LEMMA AddImplements ==
  ASSUME EdgesInv, NEW from \in Pairs, NEW to \in Pairs, AddEdge(from, to)
  PROVE  Contract!Add(from, to)
<1>1. Edges' = Edges \cup {<<from, to>>}
  <2>1. Edges' = Edges \cup ({from} \X {to})
    BY LinkedEdges DEF AddEdge, EdgesInv, Counts, Edges
  <2>. QED
    BY <2>1
<1>2. to \in Listed(table.forward, from) <=> Edges \cup {<<from, to>>} = Edges
  BY EntryOf DEF Listed, Edges
<1>. QED
  BY <1>1, <1>2 DEF AddEdge, Bool, Contract!Add, Contract!Becomes

\* The same for remove_edge.
LEMMA RemoveImplements ==
  ASSUME EdgesInv, NEW from \in Pairs, NEW to \in Pairs, RemoveEdge(from, to)
  PROVE  Contract!Remove(from, to)
<1>1. Edges' = Edges \ {<<from, to>>}
  BY UnlinkedEdges DEF RemoveEdge, EdgesInv, Counts, Edges
<1>2. to \in Listed(table.forward, from) <=> Edges \ {<<from, to>>} # Edges
  BY EntryOf DEF Listed, Edges
<1>. QED
  BY <1>1, <1>2 DEF RemoveEdge, Bool, Contract!Remove, Contract!Becomes

\* The same for replace_dependents, which leaves the edges of other pairs alone.
LEMMA ReplaceImplements ==
  ASSUME EdgesInv, NEW from \in Pairs, NEW targets \in SUBSET Pairs, ReplaceDependents(from, targets)
  PROVE  Contract!Replace(from, targets)
<1>. DEFINE next == {e \in Edges : e[1] # from} \cup ({from} \X targets)
<1>1. Edges' = next
  BY RelinkedEdges DEF ReplaceDependents, EdgesInv, Counts, Edges
<1>2. Edges \in SUBSET (Pairs \X Pairs)
  BY EntriesType DEF EdgesInv, Counts, Agree, Edges
<1>3. \A q : <<from, q>> \in Edges <=> q \in Listed(table.forward, from)
  BY EntryOf DEF Listed, Edges
<1>4. \A q : <<from, q>> \in next <=> q \in targets
  OBVIOUS
<1>5. ASSUME next = Edges
      PROVE  Listed(table.forward, from) = targets
  BY <1>3, <1>4, <1>5
<1>6. ASSUME Listed(table.forward, from) = targets
      PROVE  next = Edges
  <2>1. \A p, q \in Pairs : <<p, q>> \in next <=> <<p, q>> \in Edges
    BY <1>3, <1>6
  <2>2. next \in SUBSET (Pairs \X Pairs)
    BY <1>2
  <2>. QED
    BY <1>2, <2>1, <2>2
<1>. HIDE DEF next
<1>7. returned' = IF next = Edges THEN "false" ELSE "true"
  BY <1>5, <1>6 DEF ReplaceDependents, Bool
<1>. QED
  BY <1>1, <1>7 DEF next, Contract!Replace, Contract!Becomes

\* The same for clear_dependents: a list is there just when an edge is.
LEMMA ClearDependentsImplements ==
  ASSUME EdgesInv, NEW from \in Pairs, ClearDependents(from)
  PROVE  Contract!ClearDependents(from)
<1>. DEFINE next == {e \in Edges : e[1] # from}
<1>1. Edges' = next
  BY WithoutDependentsEdges DEF ClearDependents, EdgesInv, Counts, Edges
<1>2. from \in DOMAIN table.forward <=> \E q : <<from, q>> \in Edges
  BY EntryOf DEF EdgesInv, Counts, Agree, IsMap, Edges
<1>3. Edges \in SUBSET (Pairs \X Pairs)
  BY EntriesType DEF EdgesInv, Counts, Agree, Edges
<1>4. next = Edges <=> ~ \E q : <<from, q>> \in Edges
  <2>1. ASSUME NEW q, <<from, q>> \in Edges
        PROVE  next # Edges
    <3>1. <<from, q>> \notin next
      OBVIOUS
    <3>. QED
      BY <2>1, <3>1
  <2>2. ASSUME ~ \E q : <<from, q>> \in Edges
        PROVE  next = Edges
    <3>1. ASSUME NEW e \in Edges
          PROVE  e[1] # from
      <4>1. e = <<e[1], e[2]>>
        BY <1>3
      <4>. QED
        BY <2>2, <4>1
    <3>. QED
      BY <3>1
  <2>. QED
    BY <2>1, <2>2
<1>. HIDE DEF next
<1>5. returned' = IF next = Edges THEN "false" ELSE "true"
  BY <1>2, <1>4 DEF ClearDependents, Bool
<1>. QED
  BY <1>1, <1>5 DEF next, Contract!ClearDependents, Contract!Becomes

\* The same for clear_dependencies, which asks the reverse map.
LEMMA ClearDependenciesImplements ==
  ASSUME EdgesInv, NEW to \in Pairs, ClearDependencies(to)
  PROVE  Contract!ClearDependencies(to)
<1>. DEFINE next == {e \in Edges : e[2] # to}
<1>1. Edges' = next
  BY WithoutDependenciesEdges DEF ClearDependencies, EdgesInv, Counts, Edges
<1>2. to \in DOMAIN table.reverse <=> \E p : <<to, p>> \in Entries(table.reverse)
  BY EntryOf DEF EdgesInv, Counts, Agree, IsMap
<1>3. Edges \in SUBSET (Pairs \X Pairs) /\ Entries(table.reverse) = Flipped(Edges)
  BY EntriesType DEF EdgesInv, Counts, Agree, Edges
<1>4. \A p : <<to, p>> \in Entries(table.reverse) <=> <<p, to>> \in Edges
  BY <1>3 DEF Flipped
<1>5. next = Edges <=> ~ \E p : <<p, to>> \in Edges
  <2>1. ASSUME NEW p, <<p, to>> \in Edges
        PROVE  next # Edges
    <3>1. <<p, to>> \notin next
      OBVIOUS
    <3>. QED
      BY <2>1, <3>1
  <2>2. ASSUME ~ \E p : <<p, to>> \in Edges
        PROVE  next = Edges
    <3>1. ASSUME NEW e \in Edges
          PROVE  e[2] # to
      <4>1. e = <<e[1], e[2]>>
        BY <1>3
      <4>. QED
        BY <2>2, <4>1
    <3>. QED
      BY <3>1
  <2>. QED
    BY <2>1, <2>2
<1>. HIDE DEF next
<1>6. returned' = IF next = Edges THEN "false" ELSE "true"
  BY <1>2, <1>4, <1>5 DEF ClearDependencies, Bool
<1>. QED
  BY <1>1, <1>6 DEF next, Contract!ClearDependencies, Contract!Becomes

\* The same for remove_key, which answers nothing.
LEMMA RemoveKeyImplements ==
  ASSUME EdgesInv, NEW key \in Keys, RemoveKeyEdges(key)
  PROVE  Contract!RemoveKey(key)
BY WithoutKeyEdges DEF RemoveKeyEdges, EdgesInv, Counts, Edges, Contract!RemoveKey

\* The struct does what its documentation promises of a set of edges
\* (cross_channel.rs, every operation), for any keys and channels.
THEOREM CrossEdgesImplementContract == EdgesSpec => ImplementsContract
<1>1. EdgesInit => Contract!Init
  BY NoEdgesAgree DEF EdgesInit, Contract!Init, Edges
<1>2. ASSUME EdgesInv, [EdgesNext]_edgesVars
      PROVE  [Contract!Next]_<<Edges, returned>>
  <2>1. Contract!Pairs = Pairs
    BY DEF Contract!Pairs, Pairs
  <2>2. ASSUME NEW from \in Pairs, NEW to \in Pairs, AddEdge(from, to)
        PROVE  Contract!Next
    BY <1>2, <2>1, <2>2, AddImplements DEF Contract!Next
  <2>3. ASSUME NEW from \in Pairs, NEW to \in Pairs, RemoveEdge(from, to)
        PROVE  Contract!Next
    BY <1>2, <2>1, <2>3, RemoveImplements DEF Contract!Next
  <2>4. ASSUME NEW from \in Pairs, NEW targets \in SUBSET Pairs, ReplaceDependents(from, targets)
        PROVE  Contract!Next
    BY <1>2, <2>1, <2>4, ReplaceImplements DEF Contract!Next
  <2>5. ASSUME NEW p \in Pairs, ClearDependents(p)
        PROVE  Contract!Next
    BY <1>2, <2>1, <2>5, ClearDependentsImplements DEF Contract!Next
  <2>6. ASSUME NEW p \in Pairs, ClearDependencies(p)
        PROVE  Contract!Next
    BY <1>2, <2>1, <2>6, ClearDependenciesImplements DEF Contract!Next
  <2>7. ASSUME NEW key \in Keys, RemoveKeyEdges(key)
        PROVE  Contract!Next
    BY <1>2, <2>7, RemoveKeyImplements DEF Contract!Next
  <2>8. CASE UNCHANGED edgesVars
    BY <2>8 DEF edgesVars, Edges
  <2>. QED
    BY <1>2, <2>2, <2>3, <2>4, <2>5, <2>6, <2>7, <2>8 DEF EdgesNext
<1>. QED
  BY <1>1, <1>2, Invariant, PTL DEF EdgesSpec, ImplementsContract, Contract!Spec

\* And it does so for the arguments of each call, so that no answer is the
\* right one of another call.
THEOREM CrossEdgesKeepToArguments == EdgesSpec => CallsKeepToArguments
<1>1. ASSUME EdgesInv
      PROVE  KeepsToArguments
  BY <1>1, AddImplements, RemoveImplements, ReplaceImplements, ClearDependentsImplements,
     ClearDependenciesImplements, RemoveKeyImplements DEF KeepsToArguments
<1>. QED
  BY <1>1, Invariant, PTL DEF EdgesSpec, CallsKeepToArguments

-----------------------------------------------------------------------------
(* The combined relation and its projection on the channels.               *)
(*                                                                         *)
(* The lemmas are about any rules; AreRules says what they are.            *)

AreRules(deps, casc, edges) ==
  /\ deps \in [Channels -> [Keys -> SUBSET Keys]]
  /\ casc \in [Channels -> SUBSET Channels]
  /\ Counts(edges)

\* An arrow of the combined relation is a rule of one of the three kinds.
LEMMA FlowMember ==
  ASSUME NEW deps, NEW casc, NEW edges, AreRules(deps, casc, edges)
  PROVE  /\ Flows(deps, casc, edges) \in [Pairs -> SUBSET Pairs]
         /\ \A p, q \in Pairs :
              q \in Flows(deps, casc, edges)[p] <=>
                \/ q[2] = p[2] /\ p[1] \in deps[p[2]][q[1]]
                \/ q[1] = p[1] /\ q[2] \in casc[p[2]]
                \/ <<p, q>> \in Entries(edges.forward)
<1>. DEFINE within(p)   == {q \in Pairs : q[2] = p[2] /\ p[1] \in deps[p[2]][q[1]]}
            cascaded(p) == {<<p[1], d>> : d \in casc[p[2]]}
            crossed(p)  == Listed(edges.forward, p)
<1>1. ASSUME NEW p \in Pairs
      PROVE  /\ crossed(p) \in SUBSET Pairs
             /\ \A q \in Pairs : q \in crossed(p) <=> <<p, q>> \in Entries(edges.forward)
  <2>1. IsMap(edges.forward)
    BY DEF AreRules, Counts, Agree
  <2>. QED
    BY <2>1, EntryOf DEF IsMap, Listed
<1>2. ASSUME NEW p \in Pairs
      PROVE  /\ cascaded(p) \in SUBSET Pairs
             /\ \A q \in Pairs : q \in cascaded(p) <=> q[1] = p[1] /\ q[2] \in casc[p[2]]
  <2>1. p[1] \in Keys /\ p[2] \in Channels /\ casc[p[2]] \in SUBSET Channels
    BY DEF Pairs, AreRules
  <2>2. ASSUME NEW q \in Pairs
        PROVE  q \in cascaded(p) <=> q[1] = p[1] /\ q[2] \in casc[p[2]]
    <3>1. q = <<q[1], q[2]>>
      BY DEF Pairs
    <3>. QED
      BY <3>1
  <2>. QED
    BY <2>1, <2>2 DEF Pairs
<1>3. Flows(deps, casc, edges) = [p \in Pairs |-> within(p) \cup cascaded(p) \cup crossed(p)]
  BY DEF Flows
<1>. HIDE DEF crossed, cascaded
<1>. QED
  BY <1>1, <1>2, <1>3

\* A counted edge is one its channel pair is counted for.
LEMMA EdgeCounted ==
  ASSUME NEW edges, Counts(edges), NEW p \in Pairs, NEW q \in Pairs,
         <<p, q>> \in Entries(edges.forward)
  PROVE  p[2] \in Channels /\ q[2] \in Channels /\ edges.pairs[p[2]][q[2]] > 0
<1>1. Entries(edges.forward) \in SUBSET (Pairs \X Pairs) /\ edges.pairs = Tally(Entries(edges.forward))
  BY EntriesType DEF Counts, Agree
<1>2. p[2] \in Channels /\ q[2] \in Channels
  BY DEF Pairs
<1>3. <<p, q>> \in Between(Entries(edges.forward), p[2], q[2])
  BY DEF Between
<1>. QED
  BY <1>1, <1>2, <1>3, TallyType

\* What the channel-level relation is.
LEMMA ArrowMember ==
  ASSUME NEW deps, NEW casc, NEW edges, AreRules(deps, casc, edges)
  PROVE  /\ ChannelArrows(casc, edges) \in [Channels -> SUBSET Channels]
         /\ \A c, d \in Channels :
              d \in ChannelArrows(casc, edges)[c] <=> d \in casc[c] \/ edges.pairs[c][d] > 0
         /\ \A p, q \in Pairs : q \in Flows(deps, casc, edges)[p] =>
              q[2] = p[2] \/ q[2] \in ChannelArrows(casc, edges)[p[2]]
<1>1. ChannelArrows(casc, edges) \in [Channels -> SUBSET Channels]
  BY DEF ChannelArrows, AreRules
<1>2. ASSUME NEW c \in Channels, NEW d \in Channels
      PROVE  d \in ChannelArrows(casc, edges)[c] <=> d \in casc[c] \/ edges.pairs[c][d] > 0
  <2>1. <<c, d>> \in ChannelPairs(edges) <=> edges.pairs[c][d] > 0
    BY DEF ChannelPairs
  <2>. QED
    BY <2>1 DEF ChannelArrows
<1>3. ASSUME NEW p \in Pairs, NEW q \in Pairs, q \in Flows(deps, casc, edges)[p]
      PROVE  q[2] = p[2] \/ q[2] \in ChannelArrows(casc, edges)[p[2]]
  <2>1. p[2] \in Channels /\ q[2] \in Channels
    BY DEF Pairs
  <2>. QED
    BY <1>2, <1>3, <2>1, FlowMember, EdgeCounted DEF AreRules
<1>. QED
  BY <1>1, <1>2, <1>3

\* ChannelReach::new, field by field.
LEMMA ReachOfMember ==
  ASSUME NEW deps, NEW casc, NEW edges, AreRules(deps, casc, edges)
  PROVE  LET cache  == ReachOf(casc, edges)
             arrows == ChannelArrows(casc, edges)
         IN  /\ cache \in Reaching /\ cache.generation = edges.generation
             /\ \A c, d \in Channels :
                  /\ d \in cache.reach[c] <=> Reaches(arrows, c, d)
                  /\ d \in cache.crossing[c] <=>
                       \E s, e \in Channels : /\ Reaches(arrows, c, s)
                                              /\ edges.pairs[s][e] > 0
                                              /\ Reaches(arrows, e, d)
<1>. DEFINE cache   == ReachOf(casc, edges)
            arrows  == ChannelArrows(casc, edges)
            from(c) == ReachableFrom(arrows, {c})
            steps(c) == {d \in Channels : \E s \in from(c) : edges.pairs[s][d] > 0}
<1>1. arrows \in [Channels -> SUBSET Channels]
  BY ArrowMember
<1>. HIDE DEF arrows
<1>2. \A c \in Channels : from(c) \in SUBSET Channels
                          /\ \A d \in Channels : d \in from(c) <=> Reaches(arrows, c, d)
  BY <1>1, ReachableFromOne DEF ReachableFrom
<1>. HIDE DEF from
<1>3. cache = [generation |-> edges.generation,
               reach      |-> [c \in Channels |-> from(c)],
               crossing   |-> [c \in Channels |-> UNION {from(d) : d \in steps(c)}]]
  BY DEF ReachOf, from, arrows
<1>4. edges.generation \in Nat
  BY DEF AreRules, Counts
<1>5. ASSUME NEW c \in Channels
      PROVE  UNION {from(d) : d \in steps(c)} \in SUBSET Channels
  BY <1>2
<1>6. cache \in Reaching
  BY <1>2, <1>3, <1>4, <1>5 DEF Reaching
<1>7. ASSUME NEW c \in Channels, NEW d \in Channels
      PROVE  d \in UNION {from(e) : e \in steps(c)} <=>
               \E s, e \in Channels : /\ Reaches(arrows, c, s)
                                      /\ edges.pairs[s][e] > 0
                                      /\ Reaches(arrows, e, d)
  <2>1. d \in UNION {from(e) : e \in steps(c)} <=> \E e \in steps(c) : d \in from(e)
    OBVIOUS
  <2>2. \A e : e \in steps(c) <=>
               e \in Channels /\ \E s \in Channels : Reaches(arrows, c, s) /\ edges.pairs[s][e] > 0
    BY <1>2
  <2>. QED
    BY <1>2, <2>1, <2>2
<1>. HIDE DEF cache
<1>8. cache.generation = edges.generation
      /\ \A c, d \in Channels :
           /\ d \in cache.reach[c] <=> Reaches(arrows, c, d)
           /\ d \in cache.crossing[c] <=>
                \E s, e \in Channels : /\ Reaches(arrows, c, s)
                                       /\ edges.pairs[s][e] > 0
                                       /\ Reaches(arrows, e, d)
  BY <1>2, <1>3, <1>7
<1>. QED
  BY <1>6, <1>8 DEF cache, arrows

-----------------------------------------------------------------------------
(* What a search finds. *)

\* A chain of pairs is a chain of their channels.
LEMMA FlowProjects ==
  ASSUME NEW deps, NEW casc, NEW edges, AreRules(deps, casc, edges),
         NEW p \in Pairs, NEW q \in Pairs, Reaches(Flows(deps, casc, edges), p, q)
  PROVE  Reaches(ChannelArrows(casc, edges), p[2], q[2])
<1>. DEFINE flows  == Flows(deps, casc, edges)
            arrows == ChannelArrows(casc, edges)
            T      == {r \in Pairs : Reaches(arrows, p[2], r[2])}
<1>1. /\ flows \in [Pairs -> SUBSET Pairs]
      /\ arrows \in [Channels -> SUBSET Channels]
      /\ \A r, s \in Pairs : s \in flows[r] => s[2] = r[2] \/ s[2] \in arrows[r[2]]
  BY FlowMember, ArrowMember
<1>2. \A r \in Pairs : r[2] \in Channels
  BY DEF Pairs
<1>. HIDE DEF flows, arrows
<1>3. ASSUME NEW r \in T, NEW s \in flows[r]
      PROVE  s \in T
  <2>1. r \in Pairs /\ s \in Pairs
    BY <1>1
  <2>. QED
    BY <1>1, <1>2, <2>1, ReachesStep
<1>4. ClosedUnder(flows, T) /\ p \in T /\ T \in SUBSET Pairs
  BY <1>3, ReachesSelf DEF ClosedUnder
<1>5. q \in T
  <2>. HIDE DEF T
  <2>. QED
    BY <1>1, <1>4 DEF Reaches, flows
<1>. QED
  BY <1>5 DEF arrows

\* A search that only visits pairs from whose channel the cache says the
\* goal's channel can be reached finds a chain whenever there is one, and no
\* other: the cache only saves work (cycles.rs, flow_path).
LEMMA PruningLosesNothing ==
  ASSUME NEW deps, NEW casc, NEW edges, AreRules(deps, casc, edges),
         NEW start \in Pairs, NEW goal \in Pairs
  PROVE  FlowPath(ReachOf(casc, edges), Flows(deps, casc, edges), start, goal)
           <=> Reaches(Flows(deps, casc, edges), start, goal)
<1>. DEFINE flows   == Flows(deps, casc, edges)
            arrows  == ChannelArrows(casc, edges)
            cache   == ReachOf(casc, edges)
            hopeful == {p \in Pairs : CanReach(cache, p[2], goal[2])}
            pruned  == [p \in Pairs |-> flows[p] \cap hopeful]
<1>1. \A p \in Pairs : p[2] \in Channels
  BY DEF Pairs
<1>2. \A p \in Pairs : p \in hopeful <=> Reaches(arrows, p[2], goal[2])
  BY <1>1, ReachOfMember DEF CanReach
<1>3. /\ flows \in [Pairs -> SUBSET Pairs]
      /\ arrows \in [Channels -> SUBSET Channels]
      /\ \A r, s \in Pairs : s \in flows[r] => s[2] = r[2] \/ s[2] \in arrows[r[2]]
  BY FlowMember, ArrowMember
<1>4. FlowPath(cache, flows, start, goal) <=> start \in hopeful /\ Reaches(pruned, start, goal)
  BY DEF FlowPath
<1>5. hopeful \in SUBSET Pairs
  OBVIOUS
<1>. HIDE DEF flows, arrows, cache, hopeful
<1>6. pruned \in [Pairs -> SUBSET Pairs] /\ \A p \in Pairs : pruned[p] \subseteq flows[p]
  BY <1>3
<1>7. ASSUME Reaches(pruned, start, goal)
      PROVE  Reaches(flows, start, goal)
  <2>. HIDE DEF pruned
  <2>. QED
    BY <1>3, <1>6, <1>7, ReachesMonotone
<1>8. ASSUME Reaches(flows, start, goal)
      PROVE  start \in hopeful /\ Reaches(pruned, start, goal)
  <2>1. start \in hopeful /\ goal \in hopeful
    BY <1>1, <1>2, <1>8, FlowProjects, ReachesSelf DEF flows, arrows
  <2>2. ASSUME NEW S \in SUBSET Pairs, start \in S, ClosedUnder(pruned, S)
        PROVE  goal \in S
    <3>. DEFINE T == S \cup (Pairs \ hopeful)
    <3>1. ASSUME NEW p \in T, NEW q \in flows[p]
          PROVE  q \in T
      <4>1. p \in Pairs /\ q \in Pairs /\ p[2] \in Channels /\ q[2] \in Channels
        BY <1>1, <1>3
      <4>2. CASE p \in S
        BY <2>2, <4>1, <4>2 DEF ClosedUnder
      <4>3. CASE p \notin hopeful
        <5>1. q[2] = p[2] \/ q[2] \in arrows[p[2]]
          BY <1>3, <4>1
        <5>2. q \notin hopeful
          BY <1>2, <1>3, <4>1, <4>3, <5>1, ReachesFirst
        <5>. QED
          BY <4>1, <5>2
      <4>. QED
        BY <4>2, <4>3
    <3>2. T \in SUBSET Pairs /\ start \in T /\ ClosedUnder(flows, T)
      BY <2>2, <3>1 DEF ClosedUnder
    <3>3. goal \in T
      <4>. HIDE DEF T
      <4>. QED
        BY <1>3, <1>8, <3>2 DEF Reaches
    <3>. QED
      BY <2>1, <3>3
  <2>3. DOMAIN pruned = Pairs
    OBVIOUS
  <2>. HIDE DEF pruned
  <2>4. Reaches(pruned, start, goal)
    BY <2>2, <2>3 DEF Reaches
  <2>. QED
    BY <2>1, <2>4
<1>9. FlowPath(cache, flows, start, goal) <=> Reaches(flows, start, goal)
  BY <1>4, <1>7, <1>8
<1>. QED
  BY <1>9 DEF cache, flows

\* What a channel reaches it reaches by cascades alone, or through a
\* cross-channel edge, which the cache keeps apart as `crossing`.
LEMMA ReachSplits ==
  ASSUME NEW deps, NEW casc, NEW edges, AreRules(deps, casc, edges),
         NEW c \in Channels, NEW d \in Channels,
         Reaches(ChannelArrows(casc, edges), c, d)
  PROVE  Reaches(casc, c, d) \/ d \in ReachOf(casc, edges).crossing[c]
<1>. DEFINE arrows   == ChannelArrows(casc, edges)
            crossing == ReachOf(casc, edges).crossing[c]
            T        == {e \in Channels : Reaches(casc, c, e)} \cup crossing
<1>1. /\ arrows \in [Channels -> SUBSET Channels]
      /\ \A a, b \in Channels : b \in arrows[a] <=> b \in casc[a] \/ edges.pairs[a][b] > 0
      /\ casc \in [Channels -> SUBSET Channels]
  BY ArrowMember DEF AreRules
<1>2. /\ crossing \in SUBSET Channels
      /\ \A b \in Channels : b \in crossing <=>
           \E s, e \in Channels : /\ Reaches(arrows, c, s)
                                  /\ edges.pairs[s][e] > 0
                                  /\ Reaches(arrows, e, b)
  BY ReachOfMember DEF Reaching
<1>. HIDE DEF arrows, crossing
<1>3. ASSUME NEW a \in T, NEW b \in arrows[a]
      PROVE  b \in T
  <2>1. a \in Channels /\ b \in Channels
    BY <1>1, <1>2
  <2>2. CASE a \in crossing
    <3>1. PICK s \in Channels, e \in Channels : /\ Reaches(arrows, c, s)
                                                /\ edges.pairs[s][e] > 0
                                                /\ Reaches(arrows, e, a)
      BY <1>2, <2>1, <2>2
    <3>2. Reaches(arrows, e, b)
      BY <1>1, <2>1, <3>1, ReachesStep
    <3>. QED
      BY <1>2, <2>1, <3>1, <3>2
  <2>3. CASE Reaches(casc, c, a) /\ b \in casc[a]
    BY <1>1, <2>1, <2>3, ReachesStep
  <2>4. CASE Reaches(casc, c, a) /\ edges.pairs[a][b] > 0
    <3>1. Reaches(arrows, c, a)
      BY <1>1, <2>4, ReachesMonotone
    <3>. QED
      BY <1>2, <2>1, <2>4, <3>1, ReachesSelf
  <2>. QED
    BY <1>1, <2>1, <2>2, <2>3, <2>4
<1>4. T \in SUBSET Channels /\ c \in T /\ ClosedUnder(arrows, T)
  BY <1>2, <1>3, ReachesSelf DEF ClosedUnder
<1>5. d \in T
  <2>. HIDE DEF T
  <2>. QED
    BY <1>1, <1>4 DEF Reaches, arrows
<1>. QED
  BY <1>5 DEF crossing

\* The graph of one channel is part of the combined relation, turned round.
LEMMA DependencyFlows ==
  ASSUME NEW deps, NEW casc, NEW edges, AreRules(deps, casc, edges),
         NEW c \in Channels, NEW a \in Keys, NEW b \in Keys, Reaches(deps[c], b, a)
  PROVE  Reaches(Flows(deps, casc, edges), <<a, c>>, <<b, c>>)
<1>. DEFINE flows == Flows(deps, casc, edges)
<1>1. /\ flows \in [Pairs -> SUBSET Pairs]
      /\ \A k, j \in Keys : j \in deps[c][k] => <<k, c>> \in flows[<<j, c>>]
  <2>1. \A k \in Keys : <<k, c>> \in Pairs
    BY DEF Pairs
  <2>. QED
    BY <2>1, FlowMember
<1>2. deps[c] \in [Keys -> SUBSET Keys]
  BY DEF AreRules
<1>. HIDE DEF flows
<1>3. ASSUME NEW S \in SUBSET Pairs, <<a, c>> \in S, ClosedUnder(flows, S)
      PROVE  <<b, c>> \in S
  <2>. DEFINE U == {k \in Keys : <<k, c>> \notin S}
  <2>1. ClosedUnder(deps[c], U)
    BY <1>1, <1>2, <1>3 DEF ClosedUnder
  <2>2. U \in SUBSET Keys /\ a \notin U
    BY <1>3
  <2>3. b \notin U
    <3>. HIDE DEF U
    <3>. QED
      BY <1>2, <2>1, <2>2 DEF Reaches
  <2>. QED
    BY <2>3
<1>4. DOMAIN flows = Pairs
  BY <1>1
<1>5. Reaches(flows, <<a, c>>, <<b, c>>)
  BY <1>3, <1>4 DEF Reaches
<1>. QED
  BY <1>5 DEF flows

\* Where no cross-channel edge can take a chain out of a channel and back, a
\* chain between two pairs of the channel is one of its dependencies: the
\* graph's own check is enough (tracker.rs, crossing_flow).
LEMMA ChainStaysInChannel ==
  ASSUME NEW deps, NEW casc, NEW edges, AreRules(deps, casc, edges), Acyclic(casc),
         NEW c \in Channels, c \notin ReachOf(casc, edges).crossing[c],
         NEW a \in Keys, NEW b \in Keys,
         Reaches(Flows(deps, casc, edges), <<a, c>>, <<b, c>>)
  PROVE  Reaches(deps[c], b, a)
<1>. DEFINE flows    == Flows(deps, casc, edges)
            arrows   == ChannelArrows(casc, edges)
            crossing == ReachOf(casc, edges).crossing[c]
<1>1. /\ flows \in [Pairs -> SUBSET Pairs]
      /\ arrows \in [Channels -> SUBSET Channels]
      /\ deps[c] \in [Keys -> SUBSET Keys] /\ casc \in [Channels -> SUBSET Channels]
      /\ \A p, q \in Pairs : q \in flows[p] =>
           q[2] = p[2] \/ q[2] \in arrows[p[2]]
  BY FlowMember, ArrowMember DEF AreRules
<1>2. \A p \in Pairs : p = <<p[1], p[2]>> /\ p[1] \in Keys /\ p[2] \in Channels
  BY DEF Pairs
<1>3. <<a, c>> \in Pairs /\ <<b, c>> \in Pairs
  BY DEF Pairs
\* Nothing that c reaches leads back to c.
<1>4. ASSUME NEW s \in Channels, Reaches(arrows, c, s)
      PROVE  /\ \A d \in Channels : edges.pairs[s][d] > 0 => d # c
             /\ c \notin casc[s]
  <2>1. ASSUME NEW d \in Channels, edges.pairs[s][d] > 0
        PROVE  d # c
    BY <1>4, <2>1, ReachOfMember, ReachesSelf
  <2>2. ASSUME c \in casc[s]
        PROVE  FALSE
    <3>1. CASE Reaches(casc, c, s)
      BY <1>1, <2>2, <3>1 DEF Acyclic
    <3>2. CASE s \in crossing
      <4>1. PICK x \in Channels, e \in Channels : /\ Reaches(arrows, c, x)
                                                  /\ edges.pairs[x][e] > 0
                                                  /\ Reaches(arrows, e, s)
        BY <3>2, ReachOfMember
      <4>2. c \in arrows[s]
        BY <2>2, ArrowMember
      <4>. HIDE DEF arrows
      <4>3. Reaches(arrows, e, c)
        BY <1>1, <4>1, <4>2, ReachesStep
      <4>. QED
        BY <4>1, <4>3, ReachOfMember DEF arrows
    <3>. QED
      BY <1>4, <3>1, <3>2, ReachSplits
  <2>. QED
    BY <2>1, <2>2
<1>5. \A p, q \in Pairs : q \in flows[p] =>
        \/ q[2] = p[2] /\ p[1] \in deps[p[2]][q[1]]
        \/ q[2] \in casc[p[2]]
        \/ edges.pairs[p[2]][q[2]] > 0
  BY FlowMember, EdgeCounted DEF AreRules
<1>. HIDE DEF flows, arrows
<1>6. ASSUME NEW S \in SUBSET Keys, b \in S, ClosedUnder(deps[c], S), a \notin S
      PROVE  FALSE
  <2>. DEFINE T == {p \in Pairs : Reaches(arrows, c, p[2]) /\ (p[2] = c => p[1] \notin S)}
  <2>1. ASSUME NEW p \in T, NEW q \in flows[p]
        PROVE  q \in T
    <3>1. p \in Pairs /\ q \in Pairs /\ p[2] \in Channels /\ q[2] \in Channels
          /\ p[1] \in Keys /\ q[1] \in Keys /\ Reaches(arrows, c, p[2])
      BY <1>1, <1>2
    <3>2. Reaches(arrows, c, q[2])
      BY <1>1, <3>1, ReachesStep
    <3>3. CASE q[2] = p[2] /\ p[1] \in deps[p[2]][q[1]]
      BY <1>6, <3>1, <3>2, <3>3 DEF ClosedUnder
    <3>4. CASE q[2] \in casc[p[2]]
      BY <1>4, <3>1, <3>2, <3>4
    <3>5. CASE edges.pairs[p[2]][q[2]] > 0
      BY <1>4, <3>1, <3>2, <3>5
    <3>. QED
      BY <1>5, <3>1, <3>3, <3>4, <3>5
  <2>2. <<a, c>> \in T /\ <<b, c>> \notin T /\ T \in SUBSET Pairs
    BY <1>3, <1>6, ReachesSelf
  <2>3. ClosedUnder(flows, T)
    BY <2>1 DEF ClosedUnder
  <2>. HIDE DEF T
  <2>. QED
    BY <1>1, <2>2, <2>3 DEF Reaches, flows
<1>7. DOMAIN deps[c] = Keys
  BY <1>1
<1>. QED
  BY <1>6, <1>7 DEF Reaches

\* A cascade goes in unless the cache says a chain may lead from its end back
\* to its start across channels and some cross-channel edge does lie on a
\* cycle.  Then no key's invalidation comes back (tracker.rs, add_cascade).
LEMMA CascadeSearched ==
  ASSUME NEW deps, NEW casc, NEW added, NEW edges, AreRules(deps, casc, edges),
         NEW from \in Channels, NEW to \in Channels,
         added = [casc EXCEPT ![from] = @ \cup {to}],
         ~Reaches(casc, to, from),
         \/ ~ReachesCrossing(ReachOf(added, edges), to, from)
         \/ ~ \E e \in Entries(edges.forward) :
                FlowPath(ReachOf(added, edges), Flows(deps, added, edges), e[2], e[1]),
         NEW k \in Keys
  PROVE  ~Reaches(Flows(deps, added, edges), <<k, to>>, <<k, from>>)
<1>. DEFINE flows  == Flows(deps, added, edges)
            start  == <<k, to>>
            goal   == <<k, from>>
<1>1. AreRules(deps, added, edges)
  BY DEF AreRules
<1>2. ~Reaches(added, to, from)
  <2>. DEFINE new == casc[from] \cup {to}
  <2>1. casc \in [Channels -> SUBSET Channels] /\ new \in SUBSET Channels
        /\ added = [casc EXCEPT ![from] = new]
    BY DEF AreRules
  <2>. HIDE DEF new
  <2>. QED
    BY <2>1, InsertKeepsReachingSource
<1>3. /\ flows \in [Pairs -> SUBSET Pairs] /\ added \in [Channels -> SUBSET Channels]
      /\ start \in Pairs /\ goal \in Pairs /\ start[2] = to /\ goal[2] = from
      /\ \A p \in Pairs : p[2] \in Channels
  BY <1>1, FlowMember DEF AreRules, Pairs
<1>4. \A c \in Channels : \A d \in added[c] : Reaches(added, to, c) => Reaches(added, to, d)
  <2>1. added \in [Channels -> SUBSET Channels]
    BY <1>3
  <2>. QED
    BY <2>1, ReachesStep
<1>5. CASE ~ReachesCrossing(ReachOf(added, edges), to, from)
  <2>. SUFFICES ASSUME Reaches(flows, start, goal)
                PROVE  FALSE
    OBVIOUS
  <2>1. Reaches(ChannelArrows(added, edges), to, from)
    <3>. HIDE DEF start, goal
    <3>. QED
      BY <1>1, <1>3, FlowProjects
  <2>. QED
    BY <1>1, <1>2, <1>5, <2>1, ReachSplits DEF ReachesCrossing
<1>6. CASE ~ \E e \in Entries(edges.forward) : FlowPath(ReachOf(added, edges), flows, e[2], e[1])
  <2>. DEFINE edge(p, q) == <<p, q>> \in Entries(edges.forward)
  <2>1. \A p, q \in Pairs : edge(p, q) => ~Reaches(flows, q, p)
    BY <1>1, <1>6, PruningLosesNothing
  <2>2. \A p, q \in Pairs : q \in flows[p] => q[2] = p[2] \/ q[2] \in added[p[2]] \/ edge(p, q)
    BY <1>1, FlowMember
  <2>. HIDE DEF flows, start, goal, edge
  <2>. SUFFICES ASSUME Reaches(flows, start, goal)
                PROVE  FALSE
    BY DEF flows, start, goal
  <2>3. Reaches(flows, goal, start)
    <3>1. start \in flows[goal]
      BY <1>1, <1>3, FlowMember DEF AreRules, flows, start, goal
    <3>. QED
      BY <1>3, <3>1, ReachesSelf, ReachesFirst
  \* What start reaches by cascades alone, or that does not lead to goal.
  <2>. DEFINE T == {p \in Pairs : /\ Reaches(flows, start, p)
                                  /\ Reaches(added, to, p[2]) \/ ~Reaches(flows, p, goal)}
  <2>4. ASSUME NEW p \in T, NEW q \in flows[p]
        PROVE  q \in T
    <3>1. p \in Pairs /\ q \in Pairs /\ p[2] \in Channels /\ q[2] \in Channels
      BY <1>3
    <3>2. Reaches(flows, start, q)
      BY <1>3, <3>1, ReachesStep
    <3>3. CASE ~Reaches(flows, p, goal)
      BY <1>3, <3>1, <3>2, <3>3, ReachesFirst
    <3>4. CASE Reaches(added, to, p[2]) /\ q[2] = p[2]
      BY <3>1, <3>2, <3>4
    <3>5. CASE Reaches(added, to, p[2]) /\ q[2] \in added[p[2]]
      <4>1. Reaches(added, to, q[2])
        BY <1>4, <3>1, <3>5
      <4>. QED
        BY <3>1, <3>2, <4>1
    <3>6. CASE edge(p, q)
      <4>1. ~Reaches(flows, q, goal)
        BY <2>1, <2>3, <3>1, <3>6, ReachesTransitive
      <4>. QED
        BY <3>1, <3>2, <4>1
    <3>. QED
      BY <2>2, <3>1, <3>3, <3>4, <3>5, <3>6
  <2>5. T \in SUBSET Pairs /\ start \in T /\ ClosedUnder(flows, T)
    BY <1>3, <2>4, ReachesSelf DEF ClosedUnder
  <2>6. goal \notin T
    BY <1>2, <1>3, ReachesSelf
  <2>. HIDE DEF T
  <2>. QED
    BY <1>3, <2>5, <2>6 DEF Reaches
<1>. QED
  BY <1>5, <1>6

-----------------------------------------------------------------------------
(* Fewer rules, and one more. *)

\* Taking rules away takes arrows away.
LEMMA FewerFlows ==
  ASSUME NEW deps, NEW casc, NEW edges, AreRules(deps, casc, edges),
         NEW deps2, NEW casc2, NEW edges2, AreRules(deps2, casc2, edges2),
         \A c \in Channels : \A k \in Keys : deps2[c][k] \subseteq deps[c][k],
         \A c \in Channels : casc2[c] \subseteq casc[c],
         Entries(edges2.forward) \subseteq Entries(edges.forward)
  PROVE  \A p \in Pairs : Flows(deps2, casc2, edges2)[p] \subseteq Flows(deps, casc, edges)[p]
<1>. SUFFICES ASSUME NEW p \in Pairs, NEW q \in Flows(deps2, casc2, edges2)[p]
              PROVE  q \in Flows(deps, casc, edges)[p]
  OBVIOUS
<1>1. q \in Pairs
  BY FlowMember
<1>2. p[1] \in Keys /\ p[2] \in Channels /\ q[1] \in Keys /\ q[2] \in Channels
  BY <1>1 DEF Pairs
<1>3. \/ q[2] = p[2] /\ p[1] \in deps2[p[2]][q[1]]
      \/ q[1] = p[1] /\ q[2] \in casc2[p[2]]
      \/ <<p, q>> \in Entries(edges2.forward)
  BY <1>1, FlowMember
<1>4. \/ q[2] = p[2] /\ p[1] \in deps[p[2]][q[1]]
      \/ q[1] = p[1] /\ q[2] \in casc[p[2]]
      \/ <<p, q>> \in Entries(edges.forward)
  BY <1>2, <1>3
<1>. QED
  BY <1>1, <1>4, FlowMember

\* So it closes no cycle, and makes no chain that was not there.
LEMMA FewerRules ==
  ASSUME NEW deps, NEW casc, NEW edges, AreRules(deps, casc, edges),
         NEW deps2, NEW casc2, NEW edges2, AreRules(deps2, casc2, edges2),
         \A c \in Channels : \A k \in Keys : deps2[c][k] \subseteq deps[c][k],
         \A c \in Channels : casc2[c] \subseteq casc[c],
         Entries(edges2.forward) \subseteq Entries(edges.forward)
  PROVE  /\ Acyclic(Flows(deps, casc, edges)) => Acyclic(Flows(deps2, casc2, edges2))
         /\ \A p, q : Reaches(Flows(deps2, casc2, edges2), p, q)
                        => Reaches(Flows(deps, casc, edges), p, q)
<1>. DEFINE D == Flows(deps, casc, edges)
            E == Flows(deps2, casc2, edges2)
<1>1. D \in [Pairs -> SUBSET Pairs] /\ E \in [Pairs -> SUBSET Pairs]
  BY FlowMember
<1>2. \A p \in Pairs : E[p] \subseteq D[p]
  BY FewerFlows
<1>. HIDE DEF D, E
<1>3. Acyclic(D) => Acyclic(E)
  BY <1>1, <1>2, SubrelationAcyclic
<1>4. \A p, q : Reaches(E, p, q) => Reaches(D, p, q)
  BY <1>1, <1>2, ReachesMonotone
<1>. QED
  BY <1>3, <1>4 DEF D, E

\* One dependency more, if the combined relation has no chain that it closes.
LEMMA OneMoreDependency ==
  ASSUME NEW deps, NEW casc, NEW edges, AreRules(deps, casc, edges),
         NEW deps2, AreRules(deps2, casc, edges),
         NEW c \in Channels, NEW from \in Keys, NEW to \in Keys,
         \A d \in Channels : \A k \in Keys : \A j \in deps2[d][k] :
           j \in deps[d][k] \/ (d = c /\ k = from /\ j = to),
         Acyclic(Flows(deps, casc, edges)),
         ~Reaches(Flows(deps, casc, edges), <<from, c>>, <<to, c>>)
  PROVE  Acyclic(Flows(deps2, casc, edges))
<1>. DEFINE D == Flows(deps, casc, edges)
            E == Flows(deps2, casc, edges)
            a == <<to, c>>
            b == <<from, c>>
<1>1. D \in [Pairs -> SUBSET Pairs] /\ E \in [Pairs -> SUBSET Pairs] /\ a \in Pairs /\ b \in Pairs
  BY FlowMember DEF Pairs
<1>2. ASSUME NEW p \in Pairs, NEW q \in E[p]
      PROVE  q \in D[p] \/ (p = a /\ q = b)
  <2>1. q \in Pairs
    BY <1>1
  <2>2. /\ p[1] \in Keys /\ p[2] \in Channels /\ q[1] \in Keys /\ q[2] \in Channels
        /\ p = <<p[1], p[2]>> /\ q = <<q[1], q[2]>>
    BY <2>1 DEF Pairs
  <2>3. \/ q[2] = p[2] /\ p[1] \in deps2[p[2]][q[1]]
        \/ q[1] = p[1] /\ q[2] \in casc[p[2]]
        \/ <<p, q>> \in Entries(edges.forward)
    BY <1>2, <2>1, FlowMember
  <2>4. \/ q[2] = p[2] /\ p[1] \in deps[p[2]][q[1]]
        \/ q[1] = p[1] /\ q[2] \in casc[p[2]]
        \/ <<p, q>> \in Entries(edges.forward)
        \/ q[2] = c /\ p[2] = c /\ q[1] = from /\ p[1] = to
    BY <2>2, <2>3
  <2>. QED
    BY <2>1, <2>2, <2>4, FlowMember
<1>. HIDE DEF D, E
<1>3. \A p \in Pairs : \A q \in E[p] : q \in D[p] \/ (p = a /\ q = b)
  BY <1>2
<1>4. Acyclic(D) /\ ~Reaches(D, b, a)
  BY DEF D
<1>. HIDE DEF a, b
<1>5. Acyclic(E)
  BY <1>1, <1>3, <1>4, InsertArrowAcyclic
<1>. QED
  BY <1>5 DEF E

\* One cross-channel edge more.
LEMMA OneMoreEdge ==
  ASSUME NEW deps, NEW casc, NEW edges, AreRules(deps, casc, edges),
         NEW edges2, AreRules(deps, casc, edges2),
         NEW from \in Pairs, NEW to \in Pairs,
         Entries(edges2.forward) \subseteq Entries(edges.forward) \cup {<<from, to>>},
         Acyclic(Flows(deps, casc, edges)),
         ~Reaches(Flows(deps, casc, edges), to, from)
  PROVE  Acyclic(Flows(deps, casc, edges2))
<1>. DEFINE D == Flows(deps, casc, edges)
            E == Flows(deps, casc, edges2)
<1>1. D \in [Pairs -> SUBSET Pairs] /\ E \in [Pairs -> SUBSET Pairs]
  BY FlowMember
<1>2. ASSUME NEW p \in Pairs, NEW q \in E[p]
      PROVE  q \in D[p] \/ (p = from /\ q = to)
  <2>1. q \in Pairs
    BY <1>1
  <2>2. \/ q[2] = p[2] /\ p[1] \in deps[p[2]][q[1]]
        \/ q[1] = p[1] /\ q[2] \in casc[p[2]]
        \/ <<p, q>> \in Entries(edges2.forward)
    BY <1>2, <2>1, FlowMember
  <2>3. <<p, q>> \in Entries(edges2.forward) =>
          <<p, q>> \in Entries(edges.forward) \/ (p = from /\ q = to)
    OBVIOUS
  <2>. QED
    BY <2>1, <2>2, <2>3, FlowMember
<1>. HIDE DEF D, E
<1>3. \A p \in Pairs : \A q \in E[p] : q \in D[p] \/ (p = from /\ q = to)
  BY <1>2
<1>4. Acyclic(E)
  BY <1>1, <1>3, InsertArrowAcyclic DEF D
<1>. QED
  BY <1>4 DEF E

\* One cascade more, an arrow for every key.
LEMMA OneMoreCascade ==
  ASSUME NEW deps, NEW casc, NEW added, NEW edges, AreRules(deps, casc, edges),
         NEW from \in Channels, NEW to \in Channels,
         added = [casc EXCEPT ![from] = @ \cup {to}],
         Acyclic(Flows(deps, casc, edges)),
         \A k \in Keys : ~Reaches(Flows(deps, added, edges), <<k, to>>, <<k, from>>)
  PROVE  Acyclic(Flows(deps, added, edges))
<1>. DEFINE D == Flows(deps, casc, edges)
            E == Flows(deps, added, edges)
<1>1. AreRules(deps, added, edges)
  BY DEF AreRules
<1>2. D \in [Pairs -> SUBSET Pairs] /\ E \in [Pairs -> SUBSET Pairs]
  BY <1>1, FlowMember
<1>3. ASSUME NEW p \in Pairs, NEW q \in Pairs
      PROVE  /\ q \in D[p] => q \in E[p]
             /\ q \in E[p] /\ q \notin D[p] => \E k \in Keys : p = <<k, from>> /\ q = <<k, to>>
  <2>1. /\ p[1] \in Keys /\ p[2] \in Channels /\ q[1] \in Keys /\ q[2] \in Channels
        /\ p = <<p[1], p[2]>> /\ q = <<q[1], q[2]>>
    BY DEF Pairs
  <2>2. /\ q[2] \in casc[p[2]] => q[2] \in added[p[2]]
        /\ q[2] \in added[p[2]] => q[2] \in casc[p[2]] \/ (p[2] = from /\ q[2] = to)
    BY <2>1 DEF AreRules
  <2>3. q \in D[p] <=> \/ q[2] = p[2] /\ p[1] \in deps[p[2]][q[1]]
                       \/ q[1] = p[1] /\ q[2] \in casc[p[2]]
                       \/ <<p, q>> \in Entries(edges.forward)
    BY FlowMember
  <2>4. q \in E[p] <=> \/ q[2] = p[2] /\ p[1] \in deps[p[2]][q[1]]
                       \/ q[1] = p[1] /\ q[2] \in added[p[2]]
                       \/ <<p, q>> \in Entries(edges.forward)
    BY <1>1, FlowMember
  <2>. QED
    BY <2>1, <2>2, <2>3, <2>4
<1>. HIDE DEF D, E
<1>4. \A p \in Pairs : D[p] \subseteq E[p]
  BY <1>2, <1>3
<1>5. ASSUME NEW p \in Pairs, NEW q \in E[p] \ D[p]
      PROVE  ~Reaches(E, q, p)
  <2>1. PICK k \in Keys : p = <<k, from>> /\ q = <<k, to>>
    BY <1>2, <1>3
  <2>. QED
    BY <2>1 DEF E
<1>6. Acyclic(E)
  BY <1>2, <1>4, <1>5, InsertManyAcyclic DEF D
<1>. QED
  BY <1>6 DEF E

-----------------------------------------------------------------------------
(* The inductive invariant. *)

\* The rules are rules, and the cascades' own check keeps those acyclic.
RulesInv == AreRules(dependencies, cascades, cross) /\ Acyclic(cascades)

\* A cache of an earlier generation, or of now and then a true one.
IsCache(cache, casc, edges) ==
  /\ cache = NoReach \/ cache \in Reaching
  /\ cache.generation <= edges.generation
  /\ cache.generation = edges.generation => cache = ReachOf(casc, edges)

CacheInv == IsCache(reach, cascades, cross)

Results ==
  [tag     : Tags,
   added   : SUBSET (Keys \cup Pairs),
   removed : SUBSET (Keys \cup Pairs),
   ignored : SUBSET (Keys \cup Pairs)]

TrackerInv ==
  /\ handling \in TrackerHandlings /\ guarded \in BOOLEAN
  /\ guarded => handling # "Allow"
  /\ outcome \in Results

Before == AreRules(job.before[1], job.before[2], job.before[3])

\* A replacement of dependencies: all it changes is the set it owns, of which
\* it knows what was there before, what is new and what is not yet checked.
DependenciesJob ==
  /\ DOMAIN job = {"op", "from", "channel", "handling", "old", "before", "toCheck", "changes"}
  /\ job.op = "dependencies" /\ job.from \in Keys /\ job.channel \in Channels
  /\ job.handling # "Allow"
  /\ job.old \in SUBSET Keys /\ job.toCheck \in SUBSET Keys
  /\ job.changes \in Results /\ job.changes.tag = "Replaced"
  /\ job.before = <<[dependencies EXCEPT ![job.channel][job.from] = job.old], cascades, cross>>
  /\ job.toCheck \cup job.changes.added = Owned \ job.old
  /\ job.toCheck \cap job.changes.added = {}
  /\ job.changes.removed = job.old \ Owned
  /\ job.changes.ignored \cap Owned = {}

\* A replacement of cross-channel edges: the same, for the edges of one pair.
CrossJob ==
  /\ DOMAIN job = {"op", "from", "old", "before", "toRemove", "toAdd", "changes"}
  /\ job.op = "cross" /\ job.from \in Pairs
  /\ job.old \in SUBSET Pairs /\ job.toRemove \in SUBSET Pairs /\ job.toAdd \in SUBSET Pairs
  /\ job.changes \in Results /\ job.changes.tag = "Replaced"
  /\ job.before[1] = dependencies /\ job.before[2] = cascades
  /\ Entries(job.before[3].forward)
       = {e \in Entries(cross.forward) : e[1] # job.from} \cup ({job.from} \X job.old)
  /\ job.toRemove \subseteq job.changes.removed /\ job.toRemove \subseteq Owned
  /\ job.changes.removed \ job.toRemove = job.old \ Owned
  /\ job.changes.removed \subseteq job.old
  /\ job.changes.added = Owned \ job.old
  /\ job.toAdd \cap (Owned \cup job.old) = {}
  /\ job.changes.ignored \cap (Owned \cup job.toAdd) = {}

JobInv == job = NoJob \/ (Before /\ (DependenciesJob \/ CrossJob))

\* The dependencies without those a replacement has not checked yet.
Checked ==
  [dependencies EXCEPT ![job.channel][job.from] = @ \ job.toCheck]

\* What no guarded call has broken: the combined relation has no cycle.  A
\* replacement of dependencies may hold one, of edges the graph has added and
\* the tracker not yet checked; without these there is none, nor within the
\* channel, nor had the rules a replacement may go back to one.
GuardedInv ==
  guarded =>
    /\ job.op # "dependencies" => Acyclic(CurrentFlows)
    /\ job.op = "dependencies" =>
         /\ Acyclic(dependencies[job.channel])
         /\ Acyclic(Flows(Checked, cascades, cross))
    /\ job # NoJob => Acyclic(Flows(job.before[1], job.before[2], job.before[3]))

Inv == RulesInv /\ CacheInv /\ TrackerInv /\ JobInv /\ GuardedInv

-----------------------------------------------------------------------------
(* What the invariant says of the parts. *)

\* The graph's contract and this module mean the same by reaching.
LEMMA GraphReaches ==
  ASSUME NEW D, NEW a, NEW b
  PROVE  Graph!Reaches(D, a, b) <=> Reaches(D, a, b)
BY Zenon DEF Graph!Reaches, Graph!ClosedUnder, Reaches, ClosedUnder

\* The values calls return.
LEMMA PlainResults ==
  /\ \A tag \in Tags : Graph!Plain(tag) \in Results
  /\ \A tag : Graph!Plain(tag).tag = tag
  /\ \A h : CycleVerdict(h) \in {"Panicked", "CycleIgnored", "CycleError"}
<1>1. \A tag \in Tags : Graph!Plain(tag) \in Results
  BY DEF Graph!Plain, Graph!Returned, Results
<1>2. \A tag : Graph!Plain(tag).tag = tag
  BY DEF Graph!Plain, Graph!Returned
<1>3. \A h : CycleVerdict(h) \in {"Panicked", "CycleIgnored", "CycleError"}
  BY DEF CycleVerdict, Graph!CycleVerdict
<1>. QED
  BY <1>1, <1>2, <1>3

\* Edges that come or go without the generation telling change nothing that a
\* cache is about; those it tells of make the cache one of an earlier
\* generation.
LEMMA CacheKept ==
  ASSUME NEW deps, NEW casc, NEW edges, AreRules(deps, casc, edges),
         NEW deps2, NEW edges2, AreRules(deps2, casc, edges2),
         Moves(edges, edges2), NEW cache, IsCache(cache, casc, edges)
  PROVE  IsCache(cache, casc, edges2)
<1>1. edges.generation \in Nat /\ edges2.generation \in Nat /\ edges2.generation >= edges.generation
  BY DEF AreRules, Counts, Moves
<1>2. cache.generation \in Int /\ cache.generation <= edges.generation
  BY DEF IsCache, NoReach, Reaching
<1>3. CASE cache.generation # edges2.generation
  BY <1>1, <1>2, <1>3 DEF IsCache
<1>4. CASE cache.generation = edges2.generation
  <2>1. edges2.generation = edges.generation /\ cache = ReachOf(casc, edges)
    BY <1>1, <1>2, <1>4 DEF IsCache
  <2>2. ChannelPairs(edges2) = ChannelPairs(edges)
    BY <1>1, <2>1 DEF Moves
  <2>3. ChannelArrows(casc, edges2) = ChannelArrows(casc, edges)
    BY <2>2 DEF ChannelArrows
  <2>4. \A c, d \in Channels : edges2.pairs[c][d] > 0 <=> edges.pairs[c][d] > 0
    <3>1. \A c, d \in Channels : /\ <<c, d>> \in ChannelPairs(edges) <=> edges.pairs[c][d] > 0
                                 /\ <<c, d>> \in ChannelPairs(edges2) <=> edges2.pairs[c][d] > 0
      BY DEF ChannelPairs
    <3>. QED
      BY <2>2, <3>1
  <2>. DEFINE one == ReachOf(casc, edges)
              two == ReachOf(casc, edges2)
  <2>5. /\ one \in Reaching /\ two \in Reaching
        /\ one.generation = edges.generation /\ two.generation = edges2.generation
        /\ \A c, d \in Channels :
             /\ d \in one.reach[c] <=> d \in two.reach[c]
             /\ d \in one.crossing[c] <=> d \in two.crossing[c]
    BY <2>3, <2>4, ReachOfMember
  <2>. HIDE DEF one, two
  <2>6. \A c \in Channels : one.reach[c] = two.reach[c] /\ one.crossing[c] = two.crossing[c]
    BY <2>5 DEF Reaching
  <2>7. one.reach = two.reach /\ one.crossing = two.crossing
    BY <2>5, <2>6 DEF Reaching
  <2>8. one = two
    BY <2>1, <2>5, <2>7 DEF Reaching
  <2>. QED
    BY <2>1, <2>8, <1>4 DEF IsCache, one, two
<1>. QED
  BY <1>3, <1>4

\* A fresh cache is a cache.
LEMMA FreshCache ==
  ASSUME NEW deps, NEW casc, NEW edges, AreRules(deps, casc, edges)
  PROVE  IsCache(ReachOf(casc, edges), casc, edges) /\ IsCache(NoReach, casc, edges)
<1>1. edges.generation \in Nat
  BY DEF AreRules, Counts
<1>. QED
  BY <1>1, ReachOfMember DEF IsCache, NoReach

\* So the cache a search prunes by is a true one (tracker.rs, ensure_reach).
LEMMA EnsuredIsTrue ==
  ASSUME RulesInv, CacheInv
  PROVE  /\ EnsuredReach = ReachOf(cascades, cross)
         /\ IsCache(EnsuredReach, cascades, cross)
BY FreshCache DEF RulesInv, CacheInv, IsCache, EnsuredReach, IsCurrent

\* flow() finds a chain if and only if there is one.
LEMMA FlowJudges ==
  ASSUME RulesInv, CacheInv, NEW start \in Pairs, NEW goal \in Pairs
  PROVE  Flow(start, goal) <=> Reaches(CurrentFlows, start, goal)
BY EnsuredIsTrue, PruningLosesNothing, ReachesSelf DEF RulesInv, Flow, CurrentFlows

\* And crossing_flow() any that the graph's own check does not.
LEMMA CrossingFlowJudges ==
  ASSUME RulesInv, CacheInv, NEW c \in Channels, NEW from \in Keys, NEW to \in Keys
  PROVE  CrossingFlow(c, from, to) \/ Reaches(dependencies[c], to, from)
           <=> Reaches(CurrentFlows, <<from, c>>, <<to, c>>)
<1>1. <<from, c>> \in Pairs /\ <<to, c>> \in Pairs
  BY DEF Pairs
<1>2. CrossingFlow(c, from, to) =>
        Reaches(CurrentFlows, <<from, c>>, <<to, c>>)
  BY <1>1, FlowJudges DEF CrossingFlow
<1>3. Reaches(dependencies[c], to, from) => Reaches(CurrentFlows, <<from, c>>, <<to, c>>)
  BY DependencyFlows DEF RulesInv, CurrentFlows
<1>4. ASSUME Reaches(CurrentFlows, <<from, c>>, <<to, c>>), ~CrossingFlow(c, from, to)
      PROVE  Reaches(dependencies[c], to, from)
  <2>1. Flow(<<from, c>>, <<to, c>>)
    BY <1>1, <1>4, FlowJudges
  <2>2. c \notin ReachOf(cascades, cross).crossing[c]
    BY <1>4, <2>1, EnsuredIsTrue DEF CrossingFlow, ReachesCrossing
  <2>. QED
    BY <1>4, <2>2, ChainStaysInChannel DEF RulesInv, CurrentFlows
<1>. QED
  BY <1>2, <1>3, <1>4

\* The graph of each channel is part of a relation without cycles.
LEMMA ChannelsAcyclic ==
  ASSUME NEW deps, NEW casc, NEW edges, AreRules(deps, casc, edges),
         Acyclic(Flows(deps, casc, edges)), NEW c \in Channels
  PROVE  Acyclic(deps[c])
<1>. DEFINE flows == Flows(deps, casc, edges)
<1>1. deps[c] \in [Keys -> SUBSET Keys] /\ flows \in [Pairs -> SUBSET Pairs]
  BY FlowMember DEF AreRules
<1>2. ASSUME NEW x \in Keys, NEW y \in deps[c][x]
      PROVE  ~Reaches(deps[c], y, x)
  <2>1. y \in Keys /\ <<x, c>> \in Pairs /\ <<y, c>> \in Pairs
    BY <1>1 DEF Pairs
  <2>2. <<x, c>> \in flows[<<y, c>>]
    BY <2>1, FlowMember
  <2>3. ~Reaches(flows, <<x, c>>, <<y, c>>)
    <3>. HIDE DEF flows
    <3>. QED
      BY <1>1, <2>1, <2>2 DEF Acyclic, flows
  <2>. QED
    BY <2>1, <2>3, DependencyFlows
<1>. QED
  BY <1>1, <1>2 DEF Acyclic

\* The job in progress, by its kind.
LEMMA JobKinds ==
  ASSUME JobInv
  PROVE  /\ job.op \in {"none", "dependencies", "cross"}
         /\ job.op = "dependencies" => Before /\ DependenciesJob /\ job # NoJob
         /\ job.op = "cross" => Before /\ CrossJob /\ job # NoJob
         /\ job = NoJob <=> job.op = "none"
BY DEF JobInv, DependenciesJob, CrossJob, NoJob

\* A step that leaves the rules and the job alone, and asks for no more than
\* was guarded, breaks nothing.
LEMMA GuardedStays ==
  ASSUME GuardedInv, UNCHANGED <<rules, job>>, guarded' => guarded
  PROVE  GuardedInv'
BY DEF GuardedInv, rules, CurrentFlows, Checked

\* The same for the job.
LEMMA JobStays ==
  ASSUME JobInv, UNCHANGED <<rules, job>>
  PROVE  JobInv'
<1>1. UNCHANGED <<dependencies, cascades, cross, job>>
  BY DEF rules
<1>2. UNCHANGED Owned /\ UNCHANGED Before
  BY <1>1 DEF Owned, Before
<1>3. UNCHANGED DependenciesJob /\ UNCHANGED CrossJob
  BY <1>1, <1>2 DEF DependenciesJob, CrossJob
<1>. QED
  BY <1>1, <1>2, <1>3 DEF JobInv

\* Without a job there is no more to say of one.
LEMMA NoJobStays ==
  ASSUME job' = NoJob
  PROVE  JobInv' /\ (GuardedInv' <=> (guarded => Acyclic(CurrentFlows))')
BY DEF JobInv, GuardedInv, NoJob

-----------------------------------------------------------------------------
(* Dependencies. *)

\* The caller reads what was returned; nothing else changes.
LEMMA ReadOutcomeKeeps ==
  ASSUME Inv, ReadOutcome
  PROVE  Inv'
<1>1. UNCHANGED <<dependencies, cascades, cross, reach, handling, guarded, job>>
      /\ outcome' = Graph!NotCalled
  BY DEF ReadOutcome, Graph!ReadOutcome, tracker
<1>2. outcome' \in Results
  BY <1>1, PlainResults DEF Graph!NotCalled, Tags
<1>3. RulesInv' /\ CacheInv' /\ TrackerInv'
  BY <1>1, <1>2 DEF Inv, RulesInv, CacheInv, TrackerInv
<1>. QED
  BY <1>1, <1>3, GuardedStays, JobStays DEF Inv, rules

\* A call on the graph changes neither the other rules nor the cache but to
\* bring it up to date.
LEMMA GraphCallKeeps ==
  ASSUME Inv, dependencies' \in [Channels -> [Keys -> SUBSET Keys]],
         UNCHANGED <<cascades, cross>>, reach' = reach \/ reach' = EnsuredReach
  PROVE  RulesInv' /\ CacheInv'
<1>1. RulesInv'
  BY DEF Inv, RulesInv, AreRules
<1>2. IsCache(reach', cascades, cross)
  BY EnsuredIsTrue DEF Inv, CacheInv
<1>. QED
  BY <1>1, <1>2 DEF CacheInv

\* One more dependency in one list, in the terms of the rules.
LEMMA AddedDependency ==
  ASSUME NEW deps \in [Channels -> [Keys -> SUBSET Keys]],
         NEW c \in Channels, NEW from \in Keys, NEW to \in Keys
  PROVE  LET added == [deps EXCEPT ![c][from] = @ \cup {to}] IN
         /\ added \in [Channels -> [Keys -> SUBSET Keys]]
         /\ \A d \in Channels : \A k \in Keys : \A j \in added[d][k] :
              j \in deps[d][k] \/ (d = c /\ k = from /\ j = to)
OBVIOUS

\* A dependency goes in if neither the tracker nor the graph finds a chain
\* that it would close (add_dependency_with).
LEMMA AddDependencyKeeps ==
  ASSUME Inv, NEW from \in Keys, NEW to \in Keys, NEW c \in Channels, NEW h \in Asked,
         AddDependencyWith(from, to, c, h)
  PROVE  Inv'
<1>. DEFINE added == [dependencies EXCEPT ![c][from] = @ \cup {to}]
<1>1. /\ job = NoJob /\ UNCHANGED <<cascades, cross, job, handling>>
      /\ reach' = reach \/ reach' = EnsuredReach
      /\ guarded' = (guarded /\ h # "Allow")
  BY DEF AddDependencyWith, Free, CalledWith
<1>2. /\ \/ dependencies' = dependencies
         \/ /\ dependencies' = added
            /\ h # "Allow" => ~CrossingFlow(c, from, to) /\ ~Reaches(dependencies[c], to, from)
      /\ outcome' \in Results
  <2>1. CASE h # "Allow" /\ from # to /\ CrossingFlow(c, from, to)
    <3>1. dependencies' = dependencies
          /\ \E tag \in Tags : outcome' = Graph!Plain(tag)
      BY <2>1, PlainResults DEF AddDependencyWith, Returns, Tags
    <3>. QED
      BY <3>1, PlainResults
  <2>2. CASE ~(h # "Allow" /\ from # to /\ CrossingFlow(c, from, to))
    <3>1. Graph!AddDependency(from, to, c, h)
      BY <2>2 DEF AddDependencyWith
    <3>2. \E tag \in Tags : outcome' = Graph!Plain(tag)
      BY <3>1, PlainResults DEF Graph!AddDependency, CycleVerdict, Tags
    <3>3. dependencies' = dependencies \/ (dependencies' = added /\ ~Graph!Refused(dependencies[c], from, to, h))
      BY <3>1 DEF Graph!AddDependency
    <3>4. ~Graph!Refused(dependencies[c], from, to, h) /\ h # "Allow"
            => from # to /\ ~Reaches(dependencies[c], to, from)
      BY GraphReaches DEF Graph!Refused
    <3>. QED
      BY <2>2, <3>2, <3>3, <3>4, PlainResults
  <2>. QED
    BY <2>1, <2>2
<1>3. dependencies \in [Channels -> [Keys -> SUBSET Keys]] /\ AreRules(dependencies, cascades, cross)
  BY DEF Inv, RulesInv, AreRules
<1>4. /\ added \in [Channels -> [Keys -> SUBSET Keys]]
      /\ \A d \in Channels : \A k \in Keys : \A j \in added[d][k] :
           j \in dependencies[d][k] \/ (d = c /\ k = from /\ j = to)
  BY <1>3, AddedDependency
<1>. HIDE DEF added
<1>5. RulesInv' /\ CacheInv'
  BY <1>1, <1>2, <1>3, <1>4, GraphCallKeeps
<1>6. TrackerInv'
  BY <1>1, <1>2 DEF Inv, TrackerInv
<1>7. ASSUME guarded'
      PROVE  Acyclic(CurrentFlows)'
  <2>1. guarded /\ h # "Allow" /\ Acyclic(CurrentFlows)
    BY <1>1, <1>7 DEF Inv, GuardedInv, NoJob
  <2>2. CASE dependencies' = dependencies
    BY <1>1, <2>1, <2>2 DEF CurrentFlows
  <2>3. CASE dependencies' = added /\ ~CrossingFlow(c, from, to) /\ ~Reaches(dependencies[c], to, from)
    <3>1. ~Reaches(CurrentFlows, <<from, c>>, <<to, c>>)
      BY <2>3, CrossingFlowJudges DEF Inv
    <3>2. AreRules(added, cascades, cross)
      BY <1>3, <1>4 DEF AreRules
    <3>3. Acyclic(Flows(added, cascades, cross))
      BY <1>3, <1>4, <2>1, <3>1, <3>2, OneMoreDependency DEF CurrentFlows
    <3>. QED
      BY <1>1, <2>3, <3>3 DEF CurrentFlows
  <2>. QED
    BY <1>2, <2>1, <2>2, <2>3
<1>. QED
  BY <1>1, <1>5, <1>6, <1>7, NoJobStays DEF Inv

\* Removing a dependency takes arrows away.
LEMMA RemoveDependencyKeeps ==
  ASSUME Inv, NEW from \in Keys, NEW to \in Keys, NEW c \in Channels,
         RemoveDependency(from, to, c)
  PROVE  Inv'
<1>1. /\ job = NoJob /\ UNCHANGED <<cascades, cross, reach, job, handling, guarded>>
      /\ dependencies' = [dependencies EXCEPT ![c][from] = @ \ {to}]
      /\ outcome' \in Results
  BY PlainResults DEF RemoveDependency, Free, Graph!RemoveDependency, tracker, Tags
<1>2. AreRules(dependencies, cascades, cross)
  BY DEF Inv, RulesInv
<1>3. /\ dependencies' \in [Channels -> [Keys -> SUBSET Keys]]
      /\ \A d \in Channels : \A k \in Keys : dependencies'[d][k] \subseteq dependencies[d][k]
  BY <1>1, <1>2 DEF AreRules
<1>4. RulesInv' /\ CacheInv'
  BY <1>1, <1>3, GraphCallKeeps
<1>5. TrackerInv'
  BY <1>1 DEF Inv, TrackerInv
<1>6. ASSUME guarded'
      PROVE  Acyclic(CurrentFlows)'
  <2>1. Acyclic(Flows(dependencies, cascades, cross))
    BY <1>1, <1>6 DEF Inv, GuardedInv, NoJob, CurrentFlows
  <2>2. AreRules(dependencies', cascades, cross)
    BY <1>2, <1>3 DEF AreRules
  <2>3. Acyclic(Flows(dependencies', cascades, cross))
    BY <1>2, <1>3, <2>1, <2>2, FewerRules
  <2>. QED
    BY <1>1, <2>3 DEF CurrentFlows
<1>. QED
  BY <1>1, <1>4, <1>5, <1>6, NoJobStays DEF Inv

-----------------------------------------------------------------------------
(* Replacing the dependencies of a key. *)

\* The graph's own check of a replacement, which it makes with the stale
\* dependencies gone: what it lets in closes no cycle within the channel
\* (graph.rs, replace_dependencies).
LEMMA GraphReplaces ==
  ASSUME NEW D \in [Keys -> SUBSET Keys], Acyclic(D), NEW from \in Keys, NEW to \in SUBSET Keys,
         NEW new \in SUBSET Keys,
         \A d \in new \ D[from] : ~Reaches([D EXCEPT ![from] = @ \cap to], d, from)
  PROVE  Acyclic([D EXCEPT ![from] = new])
<1>. DEFINE left == D[from] \cap new
            less == [D EXCEPT ![from] = left]
            E    == [D EXCEPT ![from] = new]
            kept == [D EXCEPT ![from] = @ \cap to]
<1>1. /\ less \in [Keys -> SUBSET Keys] /\ E \in [Keys -> SUBSET Keys]
      /\ \A x \in Keys : less[x] \subseteq D[x] /\ less[x] \subseteq E[x]
      /\ \A x \in Keys : \A y \in E[x] \ less[x] : x = from /\ y \in new \ D[from]
  OBVIOUS
<1>2. \A d \in Keys : Reaches(E, d, from) <=> Reaches(D, d, from)
  BY InsertKeepsReachingSource
<1>3. \A d \in Keys : Reaches(kept, d, from) <=> Reaches(D, d, from)
  <2>. DEFINE both == D[from] \cap to
  <2>1. both \in SUBSET Keys /\ kept = [D EXCEPT ![from] = both]
    OBVIOUS
  <2>. HIDE DEF both, kept
  <2>. QED
    BY <2>1, InsertKeepsReachingSource
<1>4. \A d \in new \ D[from] : d \in Keys /\ ~Reaches(kept, d, from)
  OBVIOUS
<1>. HIDE DEF less, E, kept
<1>5. Acyclic(less)
  BY <1>1, SubrelationAcyclic
<1>6. Acyclic(E)
  BY <1>1, <1>2, <1>3, <1>4, <1>5, InsertManyAcyclic
<1>. QED
  BY <1>6 DEF E

\* The graph's part of a replacement.
LEMMA GraphReplacement ==
  ASSUME NEW from \in Keys, NEW c \in Channels, NEW to \in SUBSET Keys, NEW h \in Asked,
         dependencies \in [Channels -> [Keys -> SUBSET Keys]],
         Graph!ReplaceDependencies(from, c, to, h)
  PROVE  LET old == dependencies[c][from] IN
         /\ outcome' \in Results
         /\ \E new \in SUBSET Keys :
              /\ dependencies' = [dependencies EXCEPT ![c][from] = new]
              /\ outcome'.tag = "Replaced" =>
                   /\ outcome'.added = new \ old
                   /\ outcome'.removed = old \ new
                   /\ outcome'.ignored \cap new = {}
                   /\ h # "Allow" =>
                        \A d \in new \ old :
                          ~Reaches([dependencies[c] EXCEPT ![from] = @ \cap to], d, from)
              /\ outcome'.tag # "Replaced" => outcome'.tag \in {"CycleError", "Panicked"}
         /\ outcome'.tag = "CycleError" => dependencies' = dependencies
<1>. DEFINE old     == dependencies[c][from]
            refused == Graph!RefusedAdditions(from, c, to, h)
            kept    == [dependencies[c] EXCEPT ![from] = @ \cap to]
<1>1. /\ old \in SUBSET Keys /\ refused \in SUBSET (to \ old)
      /\ h # "Allow" => \A d \in (to \ old) \ refused : ~Reaches(kept, d, from)
  BY GraphReaches DEF Graph!RefusedAdditions, Graph!Refused
<1>. HIDE DEF refused
<1>2. CASE /\ dependencies' = [dependencies EXCEPT ![c][from] = to \ refused]
           /\ outcome' = Graph!Returned("Replaced", to \ (old \cup refused), old \ to, refused)
  <2>. DEFINE new == to \ refused
  <2>1. /\ outcome'.tag = "Replaced" /\ outcome'.added = new \ old
        /\ outcome'.removed = old \ new /\ outcome'.ignored \cap new = {}
        /\ outcome' \in Results
    BY <1>1, <1>2 DEF Graph!Returned, Results, Tags
  <2>2. new \in SUBSET to /\ dependencies' = [dependencies EXCEPT ![c][from] = new]
        /\ new \ old \subseteq (to \ old) \ refused
    BY <1>2
  <2>. HIDE DEF new, old, kept
  <2>3. h # "Allow" => \A d \in new \ old : ~Reaches(kept, d, from)
    BY <1>1, <2>2
  <2>. QED
    BY <2>1, <2>2, <2>3 DEF old, kept
<1>3. CASE outcome' = Graph!Plain("CycleError") /\ UNCHANGED dependencies
  <2>1. outcome' \in Results /\ outcome'.tag = "CycleError"
    BY <1>3, PlainResults DEF Tags
  <2>2. dependencies' = [dependencies EXCEPT ![c][from] = old]
    BY <1>3
  <2>. HIDE DEF old
  <2>. QED
    BY <1>1, <1>3, <2>1, <2>2
<1>4. CASE /\ outcome' = Graph!Plain("Panicked")
           /\ \E made \in SUBSET (to \ (old \cup refused)) :
                dependencies' = [dependencies EXCEPT ![c][from] = (old \cap to) \cup made]
  <2>1. outcome' \in Results /\ outcome'.tag = "Panicked"
    BY <1>4, PlainResults DEF Tags
  <2>2. PICK new \in SUBSET Keys : dependencies' = [dependencies EXCEPT ![c][from] = new]
    BY <1>4
  <2>. QED
    BY <2>1, <2>2
<1>5. \/ /\ dependencies' = [dependencies EXCEPT ![c][from] = to \ refused]
         /\ outcome' = Graph!Returned("Replaced", to \ (old \cup refused), old \ to, refused)
      \/ outcome' = Graph!Plain("CycleError") /\ UNCHANGED dependencies
      \/ /\ outcome' = Graph!Plain("Panicked")
         /\ \E made \in SUBSET (to \ (old \cup refused)) :
              dependencies' = [dependencies EXCEPT ![c][from] = (old \cap to) \cup made]
  BY DEF Graph!ReplaceDependencies, refused
<1>. QED
  BY <1>2, <1>3, <1>4, <1>5

\* A replacement of dependencies keeps what the graph lets in and has it
\* checked across channels next; the rules it may go back to are those from
\* before (replace_dependencies_with).
LEMMA ReplaceDependenciesKeeps ==
  ASSUME Inv, NEW from \in Keys, NEW c \in Channels, NEW to \in SUBSET Keys, NEW h \in Asked,
         ReplaceDependenciesWith(from, c, to, h)
  PROVE  Inv'
<1>. DEFINE old == dependencies[c][from]
<1>1. /\ job = NoJob /\ UNCHANGED <<cascades, cross, reach, handling>>
      /\ guarded' = (guarded /\ h # "Allow" /\ outcome'.tag # "Panicked")
  BY DEF ReplaceDependenciesWith, Free
<1>2. /\ AreRules(dependencies, cascades, cross)
      /\ dependencies \in [Channels -> [Keys -> SUBSET Keys]]
  BY DEF Inv, RulesInv, AreRules
<1>3. Graph!ReplaceDependencies(from, c, to, h)
  BY DEF ReplaceDependenciesWith
<1>4. PICK new \in SUBSET Keys :
        /\ dependencies' = [dependencies EXCEPT ![c][from] = new]
        /\ outcome'.tag = "Replaced" =>
             /\ outcome'.added = new \ old
             /\ outcome'.removed = old \ new
             /\ outcome'.ignored \cap new = {}
             /\ h # "Allow" =>
                  \A d \in new \ old :
                    ~Reaches([dependencies[c] EXCEPT ![from] = @ \cap to], d, from)
        /\ outcome'.tag # "Replaced" => outcome'.tag \in {"CycleError", "Panicked"}
  <2>. HIDE DEF old
  <2>. QED
    BY <1>2, <1>3, GraphReplacement DEF old
<1>5. outcome' \in Results /\ (outcome'.tag = "CycleError" => dependencies' = dependencies)
  BY <1>2, <1>3, GraphReplacement
<1>6. /\ dependencies' \in [Channels -> [Keys -> SUBSET Keys]]
      /\ dependencies'[c] = [dependencies[c] EXCEPT ![from] = new]
      /\ dependencies'[c][from] = new
      /\ \A d \in Channels, k \in Keys : d # c \/ k # from => dependencies'[d][k] = dependencies[d][k]
      /\ [dependencies' EXCEPT ![c][from] = old] = dependencies
      /\ \A more \in SUBSET Keys :
           [dependencies' EXCEPT ![c][from] = more] = [dependencies EXCEPT ![c][from] = more]
  <2>1. dependencies' = [dependencies EXCEPT ![c][from] = new]
    BY <1>4
  <2>. QED
    BY <1>2, <2>1
<1>7. RulesInv' /\ CacheInv'
  BY <1>1, <1>6, GraphCallKeeps
<1>8. TrackerInv'
  BY <1>1, <1>5 DEF Inv, TrackerInv
<1>9. AreRules(dependencies', cascades, cross)
  BY <1>2, <1>6 DEF AreRules
<1>10. guarded' => guarded /\ h # "Allow" /\ Acyclic(Flows(dependencies, cascades, cross))
  BY <1>1 DEF Inv, GuardedInv, NoJob, CurrentFlows
\* Without those it added the list is no longer than it was.
<1>11. ASSUME guarded', NEW less \in SUBSET Keys, less \subseteq old
       PROVE  Acyclic(Flows([dependencies EXCEPT ![c][from] = less], cascades, cross))
  <2>. DEFINE fewer == [dependencies EXCEPT ![c][from] = less]
  <2>1. /\ fewer \in [Channels -> [Keys -> SUBSET Keys]]
        /\ \A d \in Channels : \A k \in Keys : fewer[d][k] \subseteq dependencies[d][k]
    BY <1>2, <1>11
  <2>. HIDE DEF fewer, old
  <2>2. AreRules(fewer, cascades, cross)
    BY <1>2, <2>1 DEF AreRules
  <2>3. Acyclic(Flows(fewer, cascades, cross))
    BY <1>2, <1>10, <1>11, <2>1, <2>2, FewerRules
  <2>. QED
    BY <2>3 DEF fewer
<1>12. CASE outcome'.tag = "Replaced" /\ h # "Allow" /\ outcome'.added # {}
  <2>1. job' = [op |-> "dependencies", from |-> from, channel |-> c, handling |-> h,
                old |-> old, before |-> rules,
                toCheck |-> outcome'.added, changes |-> [outcome' EXCEPT !.added = {}]]
    BY <1>12 DEF ReplaceDependenciesWith
  <2>. DEFINE changes == [outcome' EXCEPT !.added = {}]
  <2>2. /\ changes \in Results /\ changes.tag = "Replaced" /\ changes.added = {}
        /\ changes.removed = old \ new /\ changes.ignored \cap new = {}
    BY <1>4, <1>5, <1>12 DEF Results
  <2>. HIDE DEF changes
  <2>3. /\ DOMAIN job' = {"op", "from", "channel", "handling", "old", "before", "toCheck", "changes"}
        /\ job'.op = "dependencies" /\ job'.from = from /\ job'.channel = c /\ job'.handling = h
        /\ job'.old = old /\ job'.before = <<dependencies, cascades, cross>>
        /\ job'.toCheck = new \ old /\ job'.changes = changes
    BY <1>4, <1>12, <2>1 DEF rules, changes
  <2>4. Owned' = new
    BY <1>6, <2>3 DEF Owned
  <2>5. old \in SUBSET Keys
    BY <1>2
  <2>. HIDE DEF old
  <2>6. DependenciesJob'
    BY <1>1, <1>6, <1>12, <2>2, <2>3, <2>4, <2>5 DEF DependenciesJob
  <2>7. Before'
    BY <1>2, <2>3 DEF Before
  <2>8. ASSUME guarded'
        PROVE  /\ Acyclic(dependencies'[c])
               /\ Acyclic(Flows(Checked', cascades, cross))
               /\ Acyclic(Flows(dependencies, cascades, cross))
    <3>1. Acyclic(dependencies[c])
      BY <1>2, <1>10, <2>8, ChannelsAcyclic
    <3>2. dependencies[c] \in [Keys -> SUBSET Keys]
      BY <1>2
    <3>3. Acyclic([dependencies[c] EXCEPT ![from] = new])
      <4>1. \A d \in new \ dependencies[c][from] :
              ~Reaches([dependencies[c] EXCEPT ![from] = @ \cap to], d, from)
        BY <1>4, <1>12 DEF old
      <4>. QED
        BY <3>1, <3>2, <4>1, GraphReplaces
    <3>4. Checked' = [dependencies EXCEPT ![c][from] = new \ (new \ old)]
      <4>1. Checked' = [dependencies' EXCEPT ![c][from] = new \ (new \ old)]
        BY <1>6, <2>3 DEF Checked
      <4>. QED
        BY <1>6, <4>1
    <3>5. Acyclic(Flows(Checked', cascades, cross))
      <4>1. new \ (new \ old) \in SUBSET Keys /\ new \ (new \ old) \subseteq old
        OBVIOUS
      <4>. QED
        BY <1>11, <2>8, <3>4, <4>1
    <3>. QED
      BY <1>6, <1>10, <2>8, <3>3, <3>5
  <2>9. GuardedInv'
    BY <1>1, <2>3, <2>8 DEF GuardedInv
  <2>. QED
    BY <1>7, <1>8, <2>6, <2>7, <2>9 DEF Inv, JobInv
<1>13. CASE ~(outcome'.tag = "Replaced" /\ h # "Allow" /\ outcome'.added # {})
  <2>1. job' = NoJob
    BY <1>13 DEF ReplaceDependenciesWith
  <2>2. ASSUME guarded'
        PROVE  Acyclic(CurrentFlows)'
    <3>1. CASE outcome'.tag = "CycleError"
      BY <1>1, <1>5, <1>10, <2>2, <3>1 DEF CurrentFlows
    <3>2. CASE outcome'.tag = "Replaced"
      <4>1. new \subseteq old
        BY <1>4, <1>10, <1>13, <2>2, <3>2
      <4>2. Acyclic(Flows([dependencies EXCEPT ![c][from] = new], cascades, cross))
        BY <1>11, <2>2, <4>1
      <4>. QED
        BY <1>1, <1>4, <4>2 DEF CurrentFlows
    <3>. QED
      BY <1>1, <1>4, <2>2, <3>1, <3>2
  <2>. QED
    BY <1>7, <1>8, <2>1, <2>2, NoJobStays DEF Inv
<1>. QED
  BY <1>12, <1>13

\* The replacement in progress, when its checking loop is at dep.
LEMMA CheckingLoop ==
  ASSUME Inv, NEW dep \in Keys, NEW cyclic \in BOOLEAN, Checking(dep, cyclic)
  PROVE  /\ job.op = "dependencies" /\ job # NoJob /\ Before /\ DependenciesJob
         /\ dep \in job.toCheck /\ dep \in Owned /\ dep \notin job.old
         /\ CrossingFlow(job.channel, job.from, dep) = cyclic
         /\ UNCHANGED <<cascades, cross>>
         /\ reach' = EnsuredReach
         /\ dependencies \in [Channels -> [Keys -> SUBSET Keys]]
         /\ AreRules(dependencies, cascades, cross)
<1>1. job.op = "dependencies" /\ dep \in job.toCheck /\ reach' = EnsuredReach
      /\ CrossingFlow(job.channel, job.from, dep) = cyclic
      /\ UNCHANGED <<cascades, cross>>
  BY DEF Checking
<1>2. job # NoJob /\ Before /\ DependenciesJob
  BY <1>1, JobKinds DEF Inv
<1>3. dep \in Owned /\ dep \notin job.old
  BY <1>1, <1>2 DEF DependenciesJob
<1>4. AreRules(dependencies, cascades, cross)
  BY DEF Inv, RulesInv
<1>. QED
  BY <1>1, <1>2, <1>3, <1>4 DEF AreRules

\* A dependency stays if nothing comes back to it across channels either.
LEMMA KeepAddedKeeps ==
  ASSUME Inv, NEW dep \in Keys, KeepAdded(dep)
  PROVE  Inv'
<1>. DEFINE c     == job.channel
            from  == job.from
            left  == job.toCheck \ {dep}
            added == job.changes.added \cup {dep}
<1>1. Checking(dep, FALSE) /\ UNCHANGED <<dependencies, handling, guarded, outcome>>
  BY DEF KeepAdded, tracker
<1>2. /\ job.op = "dependencies" /\ job # NoJob /\ Before /\ DependenciesJob
      /\ dep \in job.toCheck /\ dep \in Owned /\ dep \notin job.old
      /\ ~CrossingFlow(c, from, dep)
      /\ UNCHANGED <<cascades, cross>> /\ reach' = EnsuredReach
      /\ dependencies \in [Channels -> [Keys -> SUBSET Keys]]
      /\ AreRules(dependencies, cascades, cross)
  BY <1>1, CheckingLoop
<1>3. RulesInv' /\ CacheInv' /\ TrackerInv'
  BY <1>1, <1>2, GraphCallKeeps DEF Inv, TrackerInv
<1>4. /\ c \in Channels /\ from \in Keys /\ job.changes \in Results /\ Owned = dependencies[c][from]
  BY <1>2 DEF DependenciesJob, Owned
<1>5. job' = [job EXCEPT !.toCheck = left, !.changes = [@ EXCEPT !.added = added]]
  BY DEF KeepAdded
<1>6. /\ DOMAIN job' = DOMAIN job /\ job'.op = job.op /\ job'.from = from /\ job'.channel = c
      /\ job'.handling = job.handling /\ job'.old = job.old /\ job'.before = job.before
      /\ job'.toCheck = left /\ job'.changes = [job.changes EXCEPT !.added = added]
  BY <1>2, <1>5 DEF DependenciesJob
<1>. DEFINE changes == [job.changes EXCEPT !.added = added]
<1>7. /\ changes \in Results /\ changes.tag = job.changes.tag /\ changes.added = added
      /\ changes.removed = job.changes.removed /\ changes.ignored = job.changes.ignored
  BY <1>4 DEF Results
<1>8. Owned' = Owned
  BY <1>1, <1>2, <1>6 DEF Owned
<1>9. job'.changes = changes
  BY <1>6
<1>10. left \cup added = job.toCheck \cup job.changes.added /\ left \cap added = {}
       /\ left \in SUBSET Keys
  BY <1>2 DEF DependenciesJob
<1>. HIDE DEF changes, left, added, c, from
<1>11. DependenciesJob'
  BY <1>1, <1>2, <1>4, <1>6, <1>7, <1>8, <1>9, <1>10 DEF DependenciesJob, c, from
<1>12. Before'
  BY <1>2, <1>6 DEF Before
<1>13. ASSUME guarded'
       PROVE  Acyclic(Flows(Checked', cascades, cross))
  <2>1. Acyclic(dependencies[c]) /\ Acyclic(Flows(Checked, cascades, cross))
    BY <1>1, <1>2, <1>13 DEF Inv, GuardedInv, c
  <2>2. Checked = [dependencies EXCEPT ![c][from] = @ \ job.toCheck]
        /\ Checked' = [dependencies EXCEPT ![c][from] = @ \ left]
    BY <1>1, <1>6 DEF Checked, c, from
  <2>3. /\ Checked \in [Channels -> [Keys -> SUBSET Keys]]
        /\ Checked' \in [Channels -> [Keys -> SUBSET Keys]]
        /\ \A d \in Channels : \A k \in Keys : Checked[d][k] \subseteq dependencies[d][k]
    BY <1>2, <1>4, <2>2
  <2>4. \A d \in Channels : \A k \in Keys : \A j \in Checked'[d][k] :
          j \in Checked[d][k] \/ (d = c /\ k = from /\ j = dep)
    BY <1>2, <1>4, <2>2 DEF left
  <2>6. AreRules(Checked, cascades, cross) /\ AreRules(Checked', cascades, cross)
    BY <1>2, <2>3 DEF AreRules
  <2>5. ~Reaches(Flows(Checked, cascades, cross), <<from, c>>, <<dep, c>>)
    <3>. SUFFICES ASSUME Reaches(Flows(Checked, cascades, cross), <<from, c>>, <<dep, c>>)
                  PROVE  FALSE
      OBVIOUS
    <3>1. Reaches(CurrentFlows, <<from, c>>, <<dep, c>>)
      BY <1>2, <2>3, <2>6, FewerRules DEF CurrentFlows
    <3>2. Reaches(dependencies[c], dep, from)
      BY <1>2, <1>4, <3>1, CrossingFlowJudges DEF Inv
    <3>3. DOMAIN dependencies[c] = Keys /\ dep \in dependencies[c][from]
      BY <1>2, <1>4
    <3>. QED
      BY <1>4, <2>1, <3>2, <3>3 DEF Acyclic
  <2>. QED
    BY <1>4, <2>1, <2>4, <2>5, <2>6, OneMoreDependency
<1>14. GuardedInv'
  <2>1. job'.op = "dependencies"
    BY <1>2, <1>6
  <2>. QED
    BY <1>1, <1>2, <1>6, <1>13, <2>1 DEF Inv, GuardedInv, c
<1>. QED
  BY <1>3, <1>11, <1>12, <1>14 DEF Inv, JobInv

\* A dependency taken out again, and reported as ignored, was an unchecked one.
LEMMA DropAddedKeeps ==
  ASSUME Inv, NEW dep \in Keys, DropAdded(dep)
  PROVE  Inv'
<1>. DEFINE c       == job.channel
            from    == job.from
            left    == job.toCheck \ {dep}
            ignored == job.changes.ignored \cup {dep}
            fewer   == Owned \ {dep}
<1>1. Checking(dep, TRUE) /\ UNCHANGED <<handling, guarded, outcome>>
  BY DEF DropAdded, tracker
<1>2. /\ job.op = "dependencies" /\ job # NoJob /\ Before /\ DependenciesJob
      /\ dep \in job.toCheck /\ dep \in Owned /\ dep \notin job.old
      /\ UNCHANGED <<cascades, cross>> /\ reach' = EnsuredReach
      /\ dependencies \in [Channels -> [Keys -> SUBSET Keys]]
      /\ AreRules(dependencies, cascades, cross)
  BY <1>1, CheckingLoop
<1>3. /\ c \in Channels /\ from \in Keys /\ job.changes \in Results /\ Owned = dependencies[c][from]
      /\ job.old \in SUBSET Keys
  BY <1>2 DEF DependenciesJob, Owned
<1>4. /\ dependencies' = [dependencies EXCEPT ![c][from] = fewer]
      /\ job' = [job EXCEPT !.toCheck = left, !.changes = [@ EXCEPT !.ignored = ignored]]
  BY <1>3 DEF DropAdded
<1>5. /\ DOMAIN job' = DOMAIN job /\ job'.op = job.op /\ job'.from = from /\ job'.channel = c
      /\ job'.handling = job.handling /\ job'.old = job.old /\ job'.before = job.before
      /\ job'.toCheck = left /\ job'.changes = [job.changes EXCEPT !.ignored = ignored]
  BY <1>2, <1>4 DEF DependenciesJob
<1>. DEFINE changes == [job.changes EXCEPT !.ignored = ignored]
<1>6. /\ changes \in Results /\ changes.tag = job.changes.tag /\ changes.ignored = ignored
      /\ changes.removed = job.changes.removed /\ changes.added = job.changes.added
  BY <1>3 DEF Results
<1>7. fewer \in SUBSET Keys /\ left \in SUBSET Keys
  BY <1>2, <1>3 DEF DependenciesJob
<1>8. /\ left \cup job.changes.added = fewer \ job.old
      /\ left \cap job.changes.added = {}
      /\ job.changes.removed = job.old \ fewer
      /\ ignored \cap fewer = {}
  BY <1>2 DEF DependenciesJob
<1>9. job'.changes = changes
  BY <1>5
<1>. HIDE DEF changes, left, ignored
<1>10. /\ dependencies' \in [Channels -> [Keys -> SUBSET Keys]]
       /\ dependencies'[c][from] = fewer
       /\ dependencies'[c] \in [Keys -> SUBSET Keys]
       /\ \A k \in Keys : dependencies'[c][k] \subseteq dependencies[c][k]
       /\ [dependencies' EXCEPT ![c][from] = job.old] = [dependencies EXCEPT ![c][from] = job.old]
  BY <1>2, <1>3, <1>4, <1>7
<1>11. RulesInv' /\ CacheInv' /\ TrackerInv'
  BY <1>1, <1>2, <1>10, GraphCallKeeps DEF Inv, TrackerInv
<1>12. Owned' = fewer
  BY <1>2, <1>5, <1>10 DEF Owned
<1>. HIDE DEF fewer
<1>13. job.before = <<[dependencies' EXCEPT ![c][from] = job.old], cascades, cross>>
  BY <1>2, <1>10 DEF DependenciesJob
<1>. HIDE DEF c, from
<1>14. DependenciesJob'
  BY <1>2, <1>3, <1>5, <1>6, <1>7, <1>8, <1>9, <1>12, <1>13 DEF DependenciesJob
<1>15. Before'
  BY <1>2, <1>5 DEF Before
<1>16. Checked' = Checked
  <2>1. Checked = [dependencies EXCEPT ![c][from] = @ \ job.toCheck]
        /\ Checked' = [dependencies' EXCEPT ![c][from] = @ \ left]
    BY <1>5 DEF Checked, c, from
  <2>2. dependencies[c][from] \ job.toCheck = fewer \ left
    BY <1>2, <1>3 DEF fewer, left
  <2>3. /\ Checked = [dependencies EXCEPT ![c][from] = fewer \ left]
        /\ Checked' = [dependencies' EXCEPT ![c][from] = fewer \ left]
    BY <1>10, <2>1, <2>2
  <2>. QED
    BY <1>2, <1>3, <1>4, <1>7, <2>3
<1>17. ASSUME guarded'
       PROVE  Acyclic(dependencies'[c])
  <2>1. Acyclic(dependencies[c]) /\ dependencies[c] \in [Keys -> SUBSET Keys]
    BY <1>1, <1>2, <1>3, <1>17 DEF Inv, GuardedInv, c
  <2>. QED
    BY <1>10, <2>1, SubrelationAcyclic
<1>18. GuardedInv'
  <2>1. job'.op = "dependencies"
    BY <1>2, <1>5
  <2>. QED
    BY <1>1, <1>2, <1>5, <1>16, <1>17, <2>1 DEF Inv, GuardedInv
<1>. QED
  BY <1>11, <1>14, <1>15, <1>18 DEF Inv, JobInv

\* The old list put back makes the rules those from before.
LEMMA FailAddedKeeps ==
  ASSUME Inv, NEW dep \in Keys, FailAdded(dep)
  PROVE  Inv' /\ SameRules(job.before, dependencies', cascades', cross')
<1>1. /\ Checking(dep, TRUE) /\ UNCHANGED <<handling, guarded>> /\ job' = NoJob
      /\ dependencies' = [dependencies EXCEPT ![job.channel][job.from] = job.old]
      /\ outcome' = Graph!Plain("CycleError")
  BY DEF FailAdded, tracker, Returns
<1>2. /\ job # NoJob /\ Before /\ DependenciesJob
      /\ UNCHANGED <<cascades, cross>> /\ reach' = EnsuredReach
  BY <1>1, CheckingLoop
<1>3. job.before = <<dependencies', cascades, cross>>
  BY <1>1, <1>2 DEF DependenciesJob
<1>4. job.before[1] = dependencies' /\ job.before[2] = cascades /\ job.before[3] = cross
  BY <1>3
<1>5. dependencies' \in [Channels -> [Keys -> SUBSET Keys]]
  BY <1>2, <1>4 DEF Before, AreRules
<1>6. RulesInv' /\ CacheInv'
  BY <1>2, <1>5, GraphCallKeeps
<1>7. TrackerInv'
  BY <1>1, PlainResults DEF Inv, TrackerInv, Tags
<1>8. (guarded => Acyclic(CurrentFlows))'
  BY <1>1, <1>2, <1>4 DEF Inv, GuardedInv, CurrentFlows
<1>. QED
  BY <1>1, <1>2, <1>4, <1>6, <1>7, <1>8, NoJobStays DEF Inv, SameRules

\* A panic leaves what is unchecked; nothing is promised after it.
LEMMA PanicAddedKeeps ==
  ASSUME Inv, NEW dep \in Keys, PanicAdded(dep)
  PROVE  Inv' /\ outcome'.tag = "Panicked"
<1>1. /\ Checking(dep, TRUE) /\ UNCHANGED <<handling, dependencies>> /\ job' = NoJob
      /\ outcome' = Graph!Plain("Panicked") /\ guarded' = FALSE
  BY DEF PanicAdded, Returns
<1>2. /\ UNCHANGED <<cascades, cross>> /\ reach' = EnsuredReach
      /\ dependencies \in [Channels -> [Keys -> SUBSET Keys]]
  BY <1>1, CheckingLoop
<1>3. RulesInv' /\ CacheInv'
  BY <1>1, <1>2, GraphCallKeeps
<1>4. TrackerInv' /\ outcome'.tag = "Panicked"
  BY <1>1, PlainResults DEF Inv, TrackerInv, Tags
<1>. QED
  BY <1>1, <1>3, <1>4, NoJobStays DEF Inv

\* When all is checked no unchecked dependency is left, and the report is
\* what became of the set the replacement owned.
LEMMA FinishDependenciesKeeps ==
  ASSUME Inv, FinishDependencies
  PROVE  /\ Inv'
         /\ outcome'.added = Owned \ job.old
         /\ outcome'.removed = job.old \ Owned
         /\ outcome'.ignored \cap Owned = {}
         /\ outcome'.tag = "Replaced"
<1>1. /\ job.op = "dependencies" /\ job.toCheck = {} /\ outcome' = job.changes /\ job' = NoJob
      /\ UNCHANGED <<dependencies, cascades, cross, reach, handling, guarded>>
  BY DEF FinishDependencies, rules, tracker
<1>2. DependenciesJob
  BY <1>1, JobKinds DEF Inv
<1>3. /\ outcome'.added = Owned \ job.old /\ outcome'.removed = job.old \ Owned
      /\ outcome'.ignored \cap Owned = {}
      /\ outcome' \in Results /\ outcome'.tag = "Replaced"
  BY <1>1, <1>2 DEF DependenciesJob
<1>4. RulesInv' /\ CacheInv' /\ TrackerInv'
  BY <1>1, <1>3 DEF Inv, RulesInv, CacheInv, TrackerInv
<1>5. Checked = dependencies
  <2>1. /\ dependencies \in [Channels -> [Keys -> SUBSET Keys]]
        /\ job.channel \in Channels /\ job.from \in Keys
    BY <1>2 DEF Inv, RulesInv, AreRules, DependenciesJob
  <2>. QED
    BY <1>1, <2>1 DEF Checked
<1>6. (guarded => Acyclic(CurrentFlows))'
  BY <1>1, <1>5 DEF Inv, GuardedInv, CurrentFlows
<1>. QED
  BY <1>1, <1>3, <1>4, <1>6, NoJobStays DEF Inv

-----------------------------------------------------------------------------
(* Cascades. *)

\* A cascade removed takes arrows away, and the cache with it, which has no
\* other way to learn of it (remove_cascade).
LEMMA RemoveCascadeKeeps ==
  ASSUME Inv, NEW from \in Channels, NEW to \in Channels, RemoveCascade(from, to)
  PROVE  Inv'
<1>1. /\ job = NoJob /\ UNCHANGED <<dependencies, cross, handling, guarded, job>>
      /\ cascades' = [cascades EXCEPT ![from] = @ \ {to}]
      /\ reach' = IF to \in cascades[from] THEN NoReach ELSE reach
      /\ outcome' \in Results
  BY PlainResults DEF RemoveCascade, Free, tracker, Returns, Tags
<1>2. AreRules(dependencies, cascades, cross) /\ Acyclic(cascades)
      /\ cascades \in [Channels -> SUBSET Channels]
  BY DEF Inv, RulesInv, AreRules
<1>3. /\ cascades' \in [Channels -> SUBSET Channels]
      /\ \A c \in Channels : cascades'[c] \subseteq cascades[c]
      /\ to \notin cascades[from] => cascades' = cascades
  BY <1>1, <1>2
<1>4. AreRules(dependencies, cascades', cross) /\ Acyclic(cascades')
  BY <1>2, <1>3, SubrelationAcyclic DEF AreRules
<1>5. CacheInv'
  <2>1. CASE to \in cascades[from]
    BY <1>1, <1>4, <2>1, FreshCache DEF CacheInv
  <2>2. CASE to \notin cascades[from]
    BY <1>1, <1>3, <2>2 DEF Inv, CacheInv
  <2>. QED
    BY <2>1, <2>2
<1>6. RulesInv' /\ TrackerInv'
  BY <1>1, <1>4 DEF Inv, RulesInv, TrackerInv
<1>7. (guarded => Acyclic(CurrentFlows))'
  <2>1. guarded => Acyclic(Flows(dependencies, cascades, cross))
    BY <1>1 DEF Inv, GuardedInv, NoJob, CurrentFlows
  <2>2. guarded => Acyclic(Flows(dependencies, cascades', cross))
    BY <1>2, <1>3, <1>4, <2>1, FewerRules
  <2>. QED
    BY <1>1, <2>2 DEF CurrentFlows
<1>. QED
  BY <1>1, <1>5, <1>6, <1>7, NoJobStays DEF Inv

\* A cascade that goes in makes no chain from any key in its channel back to
\* the same key in the channel it starts from, or the tracker allows cycles.
LEMMA AddedCascade ==
  ASSUME Inv, NEW from \in Channels, NEW to \in Channels, AddCascade(from, to),
         cascades' # cascades
  PROVE  LET added == [cascades EXCEPT ![from] = @ \cup {to}] IN
         /\ cascades' = added /\ outcome' = Graph!Plain("Added")
         /\ ~Reaches(cascades, to, from)
         /\ handling # "Allow" =>
              \A k \in Keys : ~Reaches(Flows(dependencies, added, cross), <<k, to>>, <<k, from>>)
         /\ reach' = NoReach \/ reach' = ReachOf(added, cross)
<1>. DEFINE added  == [cascades EXCEPT ![from] = @ \cup {to}]
            closed == /\ handling # "Allow"
                      /\ ReachesCrossing(ReachOf(added, cross), to, from)
                      /\ CrossEdgeOnCycle(ReachOf(added, cross), added)
<1>1. /\ cascades' = added /\ outcome' = Graph!Plain("Added") /\ ~Reaches(cascades, to, from) /\ ~closed
      /\ reach' = NoReach \/ reach' = ReachOf(added, cross)
  BY DEF AddCascade, Returns
<1>2. ASSUME handling # "Allow", NEW k \in Keys
      PROVE  ~Reaches(Flows(dependencies, added, cross), <<k, to>>, <<k, from>>)
  <2>1. \/ ~ReachesCrossing(ReachOf(added, cross), to, from)
        \/ ~ \E e \in Entries(cross.forward) :
               FlowPath(ReachOf(added, cross), Flows(dependencies, added, cross), e[2], e[1])
    BY <1>1, <1>2 DEF CrossEdgeOnCycle
  <2>2. AreRules(dependencies, cascades, cross)
    BY DEF Inv, RulesInv
  <2>3. added = [cascades EXCEPT ![from] = @ \cup {to}]
    OBVIOUS
  <2>. HIDE DEF added
  <2>. QED
    BY <1>1, <2>1, <2>2, <2>3, CascadeSearched
<1>. QED
  BY <1>1, <1>2

\* So a guarded one closes no cycle, and the cache is of the new cascades
\* (add_cascade).
LEMMA AddCascadeKeeps ==
  ASSUME Inv, NEW from \in Channels, NEW to \in Channels, AddCascade(from, to)
  PROVE  Inv'
<1>. DEFINE added == [cascades EXCEPT ![from] = @ \cup {to}]
<1>1. /\ job = NoJob /\ UNCHANGED <<dependencies, cross, handling, guarded, job>>
      /\ outcome' \in Results
  BY PlainResults DEF AddCascade, Free, tracker, Returns, Tags
<1>2. AreRules(dependencies, cascades, cross) /\ Acyclic(cascades)
      /\ cascades \in [Channels -> SUBSET Channels]
  BY DEF Inv, RulesInv, AreRules
<1>3. TrackerInv'
  BY <1>1 DEF Inv, TrackerInv
<1>4. CASE cascades' = cascades
  <2>1. reach' = reach \/ reach' = NoReach \/ reach' = ReachOf(cascades, cross)
    BY <1>4 DEF AddCascade
  <2>2. CacheInv'
    BY <1>1, <1>2, <1>4, <2>1, FreshCache DEF Inv, CacheInv
  <2>3. RulesInv' /\ (guarded => Acyclic(CurrentFlows))'
    BY <1>1, <1>4 DEF Inv, RulesInv, GuardedInv, NoJob, CurrentFlows
  <2>. QED
    BY <1>1, <1>3, <2>2, <2>3, NoJobStays DEF Inv
<1>5. CASE cascades' # cascades
  <2>1. /\ cascades' = added /\ ~Reaches(cascades, to, from)
        /\ handling # "Allow" =>
             \A k \in Keys : ~Reaches(Flows(dependencies, added, cross), <<k, to>>, <<k, from>>)
        /\ reach' = NoReach \/ reach' = ReachOf(added, cross)
    BY <1>5, AddedCascade
  <2>2. Acyclic(added) /\ added \in [Channels -> SUBSET Channels]
    <3>1. Acyclic(added)
      BY <1>2, <2>1, InsertAcyclic
    <3>. QED
      BY <1>2, <3>1
  <2>3. added = [cascades EXCEPT ![from] = @ \cup {to}]
    OBVIOUS
  <2>. HIDE DEF added
  <2>4. AreRules(dependencies, added, cross)
    BY <1>2, <2>2 DEF AreRules
  <2>5. RulesInv' /\ CacheInv'
    BY <1>1, <2>1, <2>2, <2>4, FreshCache DEF RulesInv, CacheInv
  <2>6. (guarded => Acyclic(CurrentFlows))'
    <3>1. ASSUME guarded
          PROVE  Acyclic(Flows(dependencies, added, cross))
      <4>1. handling # "Allow" /\ Acyclic(Flows(dependencies, cascades, cross))
        BY <1>1, <3>1 DEF Inv, GuardedInv, TrackerInv, NoJob, CurrentFlows
      <4>. QED
        BY <1>2, <2>1, <2>3, <4>1, OneMoreCascade
    <3>. QED
      BY <1>1, <2>1, <3>1 DEF CurrentFlows
  <2>. QED
    BY <1>1, <1>3, <2>5, <2>6, NoJobStays DEF Inv
<1>. QED
  BY <1>4, <1>5

-----------------------------------------------------------------------------
(* Cross-channel edges. *)

\* The cache after a search, for the edges as they are and as an operation
\* that tells of its changes by the generation leaves them.
LEMMA CrossCallKeeps ==
  ASSUME Inv, NEW edges, Counts(edges), Moves(cross, edges), cross' = edges,
         UNCHANGED <<dependencies, cascades>>,
         reach' = reach \/ reach' = EnsuredReach
  PROVE  /\ RulesInv' /\ CacheInv'
         /\ AreRules(dependencies, cascades, cross)
         /\ AreRules(dependencies, cascades, edges)
<1>1. /\ AreRules(dependencies, cascades, cross) /\ Acyclic(cascades)
      /\ AreRules(dependencies, cascades, edges)
  BY DEF Inv, RulesInv, AreRules
<1>2. RulesInv'
  BY <1>1 DEF RulesInv
<1>3. IsCache(reach', cascades, cross)
  BY EnsuredIsTrue DEF Inv, CacheInv
<1>4. IsCache(reach', cascades, edges)
  BY <1>1, <1>3, CacheKept
<1>. QED
  BY <1>1, <1>2, <1>4 DEF CacheInv

\* An edge goes in if its source cannot be reached from its target
\* (add_cross_dependency_with).
LEMMA AddCrossDependencyKeeps ==
  ASSUME Inv, NEW from \in Pairs, NEW to \in Pairs, NEW h \in Asked,
         AddCrossDependencyWith(from, to, h)
  PROVE  Inv'
<1>. DEFINE present == to \in Listed(cross.forward, from)
            cyclic  == ~present /\ h # "Allow" /\ Flow(to, from)
            linked  == Linked(cross, from, {to})
<1>1. /\ job = NoJob /\ UNCHANGED <<dependencies, cascades, job, handling>>
      /\ reach' = reach \/ reach' = EnsuredReach
      /\ guarded' = (guarded /\ h # "Allow")
      /\ cross' = IF present \/ cyclic THEN cross ELSE linked
      /\ outcome' \in Results
  BY PlainResults DEF AddCrossDependencyWith, MayChangeCross, Free, CalledWith, ReachAfterFlow,
     Returns, Tags
<1>2. Counts(cross)
  BY DEF Inv, RulesInv, AreRules
<1>3. /\ Counts(linked) /\ Moves(cross, linked)
      /\ Entries(linked.forward) = Entries(cross.forward) \cup ({from} \X {to})
  BY <1>2, LinkedCounts, LinkedEdges DEF Counts
<1>4. Counts(cross') /\ Moves(cross, cross')
  BY <1>1, <1>2, <1>3, MovesInTurn
<1>. HIDE DEF linked
<1>5. /\ RulesInv' /\ CacheInv'
      /\ AreRules(dependencies, cascades, cross)
      /\ AreRules(dependencies, cascades, cross')
  <2>. DEFINE edges == cross'
  <2>1. Counts(edges) /\ Moves(cross, edges) /\ cross' = edges
    BY <1>4
  <2>. HIDE DEF edges
  <2>. QED
    BY <1>1, <2>1, CrossCallKeeps
<1>6. TrackerInv'
  BY <1>1 DEF Inv, TrackerInv
<1>7. ASSUME guarded'
      PROVE  Acyclic(Flows(dependencies, cascades, cross'))
  <2>1. guarded /\ h # "Allow" /\ Acyclic(Flows(dependencies, cascades, cross))
    BY <1>1, <1>7 DEF Inv, GuardedInv, NoJob, CurrentFlows
  <2>2. CASE cross' = cross
    BY <2>1, <2>2
  <2>3. CASE cross' = linked /\ ~Flow(to, from)
    <3>1. ~Reaches(Flows(dependencies, cascades, cross), to, from)
      BY <2>3, FlowJudges DEF Inv, CurrentFlows
    <3>2. Entries(linked.forward) \subseteq Entries(cross.forward) \cup {<<from, to>>}
      BY <1>3
    <3>3. AreRules(dependencies, cascades, linked)
      BY <1>5, <2>3
    <3>4. Acyclic(Flows(dependencies, cascades, linked))
      BY <1>5, <2>1, <3>1, <3>2, <3>3, OneMoreEdge
    <3>. QED
      BY <2>3, <3>4
  <2>. QED
    BY <1>1, <2>1, <2>2, <2>3
<1>8. (guarded => Acyclic(CurrentFlows))'
  BY <1>1, <1>7 DEF CurrentFlows
<1>. QED
  BY <1>1, <1>5, <1>6, <1>8, NoJobStays DEF Inv

\* Edges taken out, and told of by the generation.
LEMMA FewerEdgesKeep ==
  ASSUME Inv, NEW edges, Counts(edges), Moves(cross, edges), cross' = edges,
         Entries(edges.forward) \subseteq Entries(cross.forward),
         NEW deps, dependencies' = deps, deps \in [Channels -> [Keys -> SUBSET Keys]],
         \A c \in Channels : \A k \in Keys : deps[c][k] \subseteq dependencies[c][k],
         UNCHANGED <<cascades, reach, handling, guarded, job>>, job = NoJob,
         outcome' \in Results
  PROVE  Inv'
<1>1. /\ AreRules(dependencies, cascades, cross) /\ Acyclic(cascades)
      /\ AreRules(deps, cascades, edges)
  BY DEF Inv, RulesInv, AreRules
<1>2. RulesInv' /\ TrackerInv'
  BY <1>1 DEF Inv, RulesInv, TrackerInv
<1>3. IsCache(reach, cascades, edges)
  BY <1>1, CacheKept DEF Inv, CacheInv
<1>4. guarded => Acyclic(Flows(deps, cascades, edges))
  <2>1. guarded => Acyclic(Flows(dependencies, cascades, cross))
    BY DEF Inv, GuardedInv, NoJob, CurrentFlows
  <2>. QED
    BY <1>1, <2>1, FewerRules
<1>5. CacheInv' /\ (guarded => Acyclic(CurrentFlows))'
  BY <1>3, <1>4 DEF CacheInv, CurrentFlows
<1>. QED
  BY <1>2, <1>5, NoJobStays DEF Inv

\* remove_cross_dependency, the clears and remove_key.
LEMMA RemoveCrossKeeps ==
  ASSUME Inv, NEW from \in Pairs, NEW to \in Pairs,
         \/ RemoveCrossDependency(from, to)
         \/ ClearCrossDependents(from)
         \/ ClearCrossDependencies(to)
  PROVE  Inv'
<1>1. Counts(cross) /\ Agree(cross) /\ dependencies \in [Channels -> [Keys -> SUBSET Keys]]
  BY DEF Inv, RulesInv, AreRules, Counts
<1>2. ASSUME NEW after, RemoveCross(after), Counts(after), Moves(cross, after),
             Entries(after.forward) \subseteq Entries(cross.forward)
      PROVE  Inv'
  <2>1. /\ UNCHANGED <<cascades, reach, handling, guarded, job>> /\ job = NoJob
        /\ dependencies' = dependencies /\ cross' = after /\ outcome' \in Results
    BY <1>2, PlainResults DEF RemoveCross, MayChangeCross, Free, tracker, Returns, Tags
  <2>2. \A c \in Channels : \A k \in Keys : dependencies[c][k] \subseteq dependencies[c][k]
    OBVIOUS
  <2>. QED
    BY <1>1, <1>2, <2>1, <2>2, FewerEdgesKeep
<1>3. CASE RemoveCrossDependency(from, to)
  <2>1. LET after == Unlinked(cross, from, to) IN
        Counts(after) /\ Moves(cross, after) /\ Entries(after.forward) \subseteq Entries(cross.forward)
    <3>1. Counts(Unlinked(cross, from, to)) /\ Moves(cross, Unlinked(cross, from, to))
      BY <1>1, UnlinkedCounts
    <3>2. Entries(Unlinked(cross, from, to).forward) = Entries(cross.forward) \ {<<from, to>>}
      BY <1>1, UnlinkedEdges
    <3>. QED
      BY <3>1, <3>2
  <2>. QED
    BY <1>2, <1>3, <2>1 DEF RemoveCrossDependency
<1>4. CASE ClearCrossDependents(from)
  <2>1. LET after == WithoutDependents(cross, {from}) IN
        Counts(after) /\ Moves(cross, after) /\ Entries(after.forward) \subseteq Entries(cross.forward)
    <3>1. {from} \in SUBSET Pairs
      OBVIOUS
    <3>. QED
      BY <1>1, <3>1, WithoutDependentsCounts, WithoutDependentsEdges
  <2>. QED
    BY <1>2, <1>4, <2>1 DEF ClearCrossDependents
<1>5. CASE ClearCrossDependencies(to)
  <2>1. LET after == WithoutDependencies(cross, {to}) IN
        Counts(after) /\ Moves(cross, after) /\ Entries(after.forward) \subseteq Entries(cross.forward)
    <3>1. {to} \in SUBSET Pairs
      OBVIOUS
    <3>. QED
      BY <1>1, <3>1, WithoutDependenciesCounts, WithoutDependenciesEdges
  <2>. QED
    BY <1>2, <1>5, <2>1 DEF ClearCrossDependencies
<1>. QED
  BY <1>3, <1>4, <1>5

\* A key that goes takes its dependencies and its edges with it.
LEMMA RemoveKeyKeeps ==
  ASSUME Inv, NEW key \in Keys, RemoveKey(key)
  PROVE  Inv'
<1>. DEFINE deps  == [c \in Channels |-> [k \in Keys |->
                        IF k = key THEN {} ELSE dependencies[c][k] \ {key}]]
            edges == WithoutKey(cross, key)
<1>1. /\ job = NoJob /\ UNCHANGED <<cascades, reach, handling, guarded, job>>
      /\ dependencies' = deps /\ cross' = edges /\ outcome' \in Results
  BY PlainResults DEF RemoveKey, Graph!RemoveKey, MayChangeCross, Free, tracker, Tags
<1>2. Counts(cross) /\ dependencies \in [Channels -> [Keys -> SUBSET Keys]]
  BY DEF Inv, RulesInv, AreRules
<1>3. /\ deps \in [Channels -> [Keys -> SUBSET Keys]]
      /\ \A c \in Channels : \A k \in Keys : deps[c][k] \subseteq dependencies[c][k]
  BY <1>2
<1>4. Counts(edges) /\ Moves(cross, edges) /\ Entries(edges.forward) \subseteq Entries(cross.forward)
  BY <1>2, WithoutKeyCounts, WithoutKeyEdges DEF Counts
<1>. HIDE DEF deps, edges
<1>. QED
  BY <1>1, <1>3, <1>4, FewerEdgesKeep

-----------------------------------------------------------------------------
(* Replacing the cross-channel edges of a pair. *)

\* A pair's list holds the targets of its entries.
LEMMA ListedMember ==
  ASSUME NEW t, Counts(t), NEW p \in Pairs
  PROVE  /\ Listed(t.forward, p) \in SUBSET Pairs
         /\ \A q : q \in Listed(t.forward, p) <=> <<p, q>> \in Entries(t.forward)
<1>1. IsMap(t.forward)
  BY DEF Counts, Agree
<1>. QED
  BY <1>1, EntryOf DEF IsMap, Listed

\* The edges of other pairs and those listed are all there are.
LEMMA EntriesByOwner ==
  ASSUME NEW t, Counts(t), NEW p \in Pairs
  PROVE  Entries(t.forward)
           = {e \in Entries(t.forward) : e[1] # p} \cup ({p} \X Listed(t.forward, p))
<1>1. Entries(t.forward) \in SUBSET (Pairs \X Pairs)
  BY EntriesType DEF Counts, Agree
<1>2. ASSUME NEW e \in Entries(t.forward), e[1] = p
      PROVE  e \in {p} \X Listed(t.forward, p)
  <2>1. e = <<p, e[2]>>
    BY <1>1, <1>2
  <2>. QED
    BY <2>1, ListedMember
<1>3. {p} \X Listed(t.forward, p) \subseteq Entries(t.forward)
  BY ListedMember
<1>. QED
  BY <1>2, <1>3

\* A replacement starts from the edges as they are.
LEMMA ReplaceCrossKeeps ==
  ASSUME Inv, NEW from \in Pairs, NEW targets \in SUBSET Pairs,
         ReplaceCrossDependents(from, targets)
  PROVE  Inv'
<1>. DEFINE old     == Listed(cross.forward, from)
            changes == Graph!Returned("Replaced", {}, old \ targets, {})
<1>1. /\ job = NoJob
      /\ job' = [op |-> "cross", from |-> from, old |-> old, before |-> rules,
                 toRemove |-> old \ targets, toAdd |-> targets \ old, changes |-> changes]
      /\ UNCHANGED <<dependencies, cascades, cross, reach, handling, guarded, outcome>>
  BY DEF ReplaceCrossDependents, MayChangeCross, Free, rules, tracker
<1>2. AreRules(dependencies, cascades, cross) /\ Counts(cross)
  BY DEF Inv, RulesInv, AreRules
<1>3. /\ old \in SUBSET Pairs
      /\ Entries(cross.forward) = {e \in Entries(cross.forward) : e[1] # from} \cup ({from} \X old)
  BY <1>2, ListedMember, EntriesByOwner
<1>. HIDE DEF old
<1>4. /\ changes \in Results /\ changes.tag = "Replaced" /\ changes.added = {}
      /\ changes.removed = old \ targets /\ changes.ignored = {}
  BY <1>3 DEF Graph!Returned, Results, Tags
<1>. HIDE DEF changes
<1>5. /\ DOMAIN job' = {"op", "from", "old", "before", "toRemove", "toAdd", "changes"}
      /\ job'.op = "cross" /\ job'.from = from /\ job'.old = old
      /\ job'.before = <<dependencies, cascades, cross>>
      /\ job'.toRemove = old \ targets /\ job'.toAdd = targets \ old /\ job'.changes = changes
  BY <1>1 DEF rules
<1>6. Owned' = old
  BY <1>1, <1>5 DEF Owned, old
<1>7. CrossJob'
  BY <1>1, <1>3, <1>4, <1>5, <1>6 DEF CrossJob
<1>8. Before'
  BY <1>2, <1>5 DEF Before
<1>9. GuardedInv'
  <2>1. guarded => Acyclic(Flows(dependencies, cascades, cross))
    BY <1>1 DEF Inv, GuardedInv, NoJob, CurrentFlows
  <2>. QED
    BY <1>1, <1>5, <2>1 DEF GuardedInv, CurrentFlows
<1>10. RulesInv' /\ CacheInv' /\ TrackerInv'
  BY <1>1 DEF Inv, RulesInv, CacheInv, TrackerInv
<1>. QED
  BY <1>7, <1>8, <1>9, <1>10 DEF Inv, JobInv

\* The replacement in progress.
LEMMA CrossLoop ==
  ASSUME Inv, job.op = "cross"
  PROVE  /\ job # NoJob /\ Before /\ CrossJob
         /\ AreRules(dependencies, cascades, cross)
         /\ Counts(cross) /\ Agree(cross) /\ Owned \in SUBSET Pairs
         /\ \A q : q \in Owned <=> <<job.from, q>> \in Entries(cross.forward)
         /\ guarded => Acyclic(Flows(dependencies, cascades, cross))
         /\ guarded => Acyclic(Flows(job.before[1], job.before[2], job.before[3]))
<1>1. job # NoJob /\ Before /\ CrossJob
  BY JobKinds DEF Inv
<1>2. AreRules(dependencies, cascades, cross) /\ Counts(cross) /\ Agree(cross)
  BY DEF Inv, RulesInv, AreRules, Counts
<1>3. Owned = Listed(cross.forward, job.from) /\ job.from \in Pairs
  BY <1>1 DEF Owned, CrossJob
<1>4. /\ Owned \in SUBSET Pairs
      /\ \A q : q \in Owned <=> <<job.from, q>> \in Entries(cross.forward)
  BY <1>2, <1>3, ListedMember
<1>5. /\ guarded => Acyclic(Flows(dependencies, cascades, cross))
      /\ guarded => Acyclic(Flows(job.before[1], job.before[2], job.before[3]))
  BY <1>1 DEF Inv, GuardedInv, CurrentFlows
<1>. QED
  BY <1>1, <1>2, <1>4, <1>5

\* What a step of the loop does to the edges, told by the pair's list.
LEMMA CrossStep ==
  ASSUME Inv, job.op = "cross", NEW edges, cross' = edges, Counts(edges), job'.from = job.from,
         job'.op = "cross",
         NEW E \in SUBSET ({job.from} \X Pairs), NEW F \in SUBSET ({job.from} \X Pairs),
         Entries(edges.forward) = (Entries(cross.forward) \cup E) \ F
  PROVE  /\ Owned' = {q \in Pairs : (q \in Owned \/ <<job.from, q>> \in E) /\ <<job.from, q>> \notin F}
         /\ {e \in Entries(edges.forward) : e[1] # job.from}
              = {e \in Entries(cross.forward) : e[1] # job.from}
<1>1. job.from \in Pairs /\ Owned \in SUBSET Pairs
      /\ \A q : q \in Owned <=> <<job.from, q>> \in Entries(cross.forward)
  BY CrossLoop DEF CrossJob
<1>2. Owned' = Listed(edges.forward, job.from)
  BY DEF Owned
<1>3. /\ Owned' \in SUBSET Pairs
      /\ \A q : q \in Owned' <=> <<job.from, q>> \in Entries(edges.forward)
  BY <1>1, <1>2, ListedMember
<1>4. \A q \in Pairs : q \in Owned' <=>
        (q \in Owned \/ <<job.from, q>> \in E) /\ <<job.from, q>> \notin F
  BY <1>1, <1>3
<1>5. \A e : e[1] # job.from => e \notin E /\ e \notin F
  OBVIOUS
<1>6. {e \in Entries(edges.forward) : e[1] # job.from} = {e \in Entries(cross.forward) : e[1] # job.from}
  BY <1>5
<1>. QED
  BY <1>3, <1>4, <1>6

\* A stale edge goes.
LEMMA RemoveStaleTargetKeeps ==
  ASSUME Inv, RemoveStaleTarget
  PROVE  Inv'
<1>1. PICK to \in job.toRemove :
        /\ cross' = Unlinked(cross, job.from, to)
        /\ job' = [job EXCEPT !.toRemove = @ \ {to}]
  BY DEF RemoveStaleTarget
<1>2. job.op = "cross" /\ UNCHANGED <<dependencies, cascades, reach, handling, guarded, outcome>>
  BY DEF RemoveStaleTarget, tracker
<1>3. /\ job # NoJob /\ Before /\ CrossJob
      /\ AreRules(dependencies, cascades, cross)
      /\ Counts(cross) /\ Agree(cross) /\ Owned \in SUBSET Pairs
      /\ guarded => Acyclic(Flows(dependencies, cascades, cross))
      /\ guarded => Acyclic(Flows(job.before[1], job.before[2], job.before[3]))
  BY <1>2, CrossLoop
<1>. DEFINE from  == job.from
            left  == job.toRemove \ {to}
            edges == Unlinked(cross, from, to)
<1>4. from \in Pairs /\ to \in Pairs
  BY <1>3 DEF CrossJob
<1>5. Counts(edges) /\ Moves(cross, edges)
  BY <1>3, <1>4, UnlinkedCounts
<1>6. Entries(edges.forward) = Entries(cross.forward) \ {<<from, to>>}
  BY <1>3, <1>4, UnlinkedEdges
<1>7. /\ DOMAIN job' = DOMAIN job /\ job'.op = "cross" /\ job'.from = from /\ job'.old = job.old
      /\ job'.before = job.before /\ job'.toRemove = left /\ job'.toAdd = job.toAdd
      /\ job'.changes = job.changes
  BY <1>1, <1>2, <1>3 DEF CrossJob
<1>8. cross' = edges
  BY <1>1
<1>. HIDE DEF edges
<1>9. /\ Owned' = Owned \ {to}
      /\ {e \in Entries(edges.forward) : e[1] # from} = {e \in Entries(cross.forward) : e[1] # from}
  <2>. DEFINE E == {}
              F == {<<from, to>>}
  <2>1. /\ E \in SUBSET ({from} \X Pairs) /\ F \in SUBSET ({from} \X Pairs)
        /\ Entries(edges.forward) = (Entries(cross.forward) \cup E) \ F
        /\ \A q \in Pairs : <<from, q>> \notin E /\ (<<from, q>> \in F <=> q = to)
    BY <1>4, <1>6
  <2>. HIDE DEF E, F
  <2>2. /\ Owned' = {q \in Pairs : (q \in Owned \/ <<from, q>> \in E) /\ <<from, q>> \notin F}
        /\ {e \in Entries(edges.forward) : e[1] # from} = {e \in Entries(cross.forward) : e[1] # from}
    BY <1>2, <1>5, <1>7, <1>8, <2>1, CrossStep
  <2>. QED
    BY <1>3, <2>1, <2>2
<1>. HIDE DEF from, left
<1>10. CrossJob'
  <2>1. job.toRemove \subseteq job.changes.removed /\ job.toRemove \subseteq Owned
        /\ job.changes.removed \ job.toRemove = job.old \ Owned
        /\ job.changes.removed \subseteq job.old
        /\ job.changes.added = Owned \ job.old
        /\ job.toAdd \cap (Owned \cup job.old) = {}
        /\ job.changes.ignored \cap (Owned \cup job.toAdd) = {}
    BY <1>3 DEF CrossJob
  <2>2. to \in job.toRemove /\ left = job.toRemove \ {to}
    BY <1>1 DEF left
  <2>3. left \subseteq job.changes.removed /\ left \subseteq Owned'
        /\ job.changes.removed \ left = job.old \ Owned'
        /\ job.changes.removed \subseteq job.old
        /\ job.changes.added = Owned' \ job.old
        /\ job.toAdd \cap (Owned' \cup job.old) = {}
        /\ job.changes.ignored \cap (Owned' \cup job.toAdd) = {}
    BY <1>9, <2>1, <2>2
  <2>. QED
    BY <1>2, <1>3, <1>7, <1>8, <1>9, <2>2, <2>3 DEF CrossJob, from
<1>11. Before'
  BY <1>3, <1>7 DEF Before
<1>12. AreRules(dependencies, cascades, edges) /\ RulesInv' /\ CacheInv'
  BY <1>2, <1>5, <1>8, CrossCallKeeps
<1>13. GuardedInv'
  <2>1. guarded => Acyclic(Flows(dependencies, cascades, edges))
    BY <1>3, <1>6, <1>12, FewerRules
  <2>. QED
    BY <1>2, <1>3, <1>7, <1>8, <2>1 DEF GuardedInv, CurrentFlows
<1>14. TrackerInv'
  BY <1>2 DEF Inv, TrackerInv
<1>. QED
  BY <1>10, <1>11, <1>12, <1>13, <1>14 DEF Inv, JobInv

\* The loop over the new targets.
LEMMA AddingLoop ==
  ASSUME Inv, NEW to \in Pairs, NEW cyclic \in BOOLEAN, AddingTarget(to, cyclic)
  PROVE  /\ job.op = "cross" /\ job # NoJob /\ Before /\ CrossJob
         /\ job.toRemove = {} /\ to \in job.toAdd /\ to \notin Owned /\ to \notin job.old
         /\ job.from \in Pairs /\ job.old \in SUBSET Pairs
         /\ UNCHANGED <<dependencies, cascades, handling, guarded>>
         /\ reach' = reach \/ reach' = EnsuredReach
         /\ AreRules(dependencies, cascades, cross)
         /\ Counts(cross) /\ Agree(cross) /\ Owned \in SUBSET Pairs
         /\ guarded => Acyclic(Flows(dependencies, cascades, cross))
         /\ guarded => Acyclic(Flows(job.before[1], job.before[2], job.before[3]))
         /\ guarded /\ ~cyclic => ~Reaches(Flows(dependencies, cascades, cross), to, job.from)
<1>1. /\ job.op = "cross" /\ job.toRemove = {} /\ to \in job.toAdd
      /\ (handling # "Allow" /\ Flow(to, job.from)) = cyclic
      /\ UNCHANGED <<dependencies, cascades, handling, guarded>>
      /\ reach' = reach \/ reach' = EnsuredReach
  BY DEF AddingTarget, ReachAfterFlow, tracker
<1>2. /\ job # NoJob /\ Before /\ CrossJob
      /\ AreRules(dependencies, cascades, cross)
      /\ Counts(cross) /\ Agree(cross) /\ Owned \in SUBSET Pairs
      /\ guarded => Acyclic(Flows(dependencies, cascades, cross))
      /\ guarded => Acyclic(Flows(job.before[1], job.before[2], job.before[3]))
  BY <1>1, CrossLoop
<1>3. /\ to \notin Owned /\ to \notin job.old
      /\ job.from \in Pairs /\ job.old \in SUBSET Pairs
  BY <1>1, <1>2 DEF CrossJob
<1>4. ASSUME guarded, ~cyclic
      PROVE  ~Reaches(Flows(dependencies, cascades, cross), to, job.from)
  <2>1. ~Flow(to, job.from)
    BY <1>1, <1>4 DEF Inv, TrackerInv
  <2>. QED
    BY <1>3, <2>1, FlowJudges DEF Inv, CurrentFlows
<1>. QED
  BY <1>1, <1>2, <1>3, <1>4

\* A new edge goes in if its source cannot be reached from its target.
LEMMA AddTargetKeeps ==
  ASSUME Inv, NEW to \in Pairs, AddTarget(to)
  PROVE  Inv'
<1>. DEFINE from  == job.from
            left  == job.toAdd \ {to}
            added == job.changes.added \cup {to}
            edges == Linked(cross, from, {to})
<1>1. /\ AddingTarget(to, FALSE) /\ UNCHANGED outcome /\ cross' = edges
      /\ job' = [job EXCEPT !.toAdd = left, !.changes = [@ EXCEPT !.added = added]]
  BY DEF AddTarget
<1>2. /\ job.op = "cross" /\ job # NoJob /\ Before /\ CrossJob
      /\ job.toRemove = {} /\ to \in job.toAdd /\ to \notin Owned /\ to \notin job.old
      /\ from \in Pairs
      /\ UNCHANGED <<dependencies, cascades, handling, guarded>>
      /\ reach' = reach \/ reach' = EnsuredReach
      /\ AreRules(dependencies, cascades, cross)
      /\ Counts(cross) /\ Agree(cross) /\ Owned \in SUBSET Pairs
      /\ guarded => Acyclic(Flows(dependencies, cascades, cross))
      /\ guarded => Acyclic(Flows(job.before[1], job.before[2], job.before[3]))
      /\ guarded => ~Reaches(Flows(dependencies, cascades, cross), to, from)
  BY <1>1, AddingLoop
<1>3. {to} \in SUBSET Pairs
  OBVIOUS
<1>4. Counts(edges) /\ Moves(cross, edges)
  BY <1>2, <1>3, LinkedCounts
<1>5. Entries(edges.forward) = Entries(cross.forward) \cup ({from} \X {to})
  BY <1>2, <1>3, LinkedEdges
<1>6. /\ DOMAIN job' = DOMAIN job /\ job'.op = "cross" /\ job'.from = from /\ job'.old = job.old
      /\ job'.before = job.before /\ job'.toRemove = {} /\ job'.toAdd = left
      /\ job'.changes = [job.changes EXCEPT !.added = added]
  BY <1>1, <1>2 DEF CrossJob
<1>7. cross' = edges
  BY <1>1
<1>. DEFINE changes == [job.changes EXCEPT !.added = added]
<1>8. /\ changes \in Results /\ changes.tag = job.changes.tag /\ changes.added = added
      /\ changes.removed = job.changes.removed /\ changes.ignored = job.changes.ignored
  BY <1>2 DEF CrossJob, Results
<1>9. job'.changes = changes
  BY <1>6
<1>. HIDE DEF changes, edges
<1>10. /\ Owned' = Owned \cup {to}
       /\ {e \in Entries(edges.forward) : e[1] # from} = {e \in Entries(cross.forward) : e[1] # from}
  <2>. DEFINE E == {from} \X {to}
              F == {}
  <2>1. /\ E \in SUBSET ({from} \X Pairs) /\ F \in SUBSET ({from} \X Pairs)
        /\ Entries(edges.forward) = (Entries(cross.forward) \cup E) \ F
        /\ \A q \in Pairs : <<from, q>> \notin F /\ (<<from, q>> \in E <=> q = to)
    BY <1>2, <1>5
  <2>. HIDE DEF E, F
  <2>2. /\ Owned' = {q \in Pairs : (q \in Owned \/ <<from, q>> \in E) /\ <<from, q>> \notin F}
        /\ {e \in Entries(edges.forward) : e[1] # from} = {e \in Entries(cross.forward) : e[1] # from}
    BY <1>2, <1>4, <1>6, <1>7, <2>1, CrossStep
  <2>. QED
    BY <1>2, <2>1, <2>2
<1>11. /\ left \in SUBSET Pairs
       /\ job.changes.removed = job.old \ Owned'
       /\ added = Owned' \ job.old
       /\ left \cap (Owned' \cup job.old) = {}
       /\ job.changes.ignored \cap (Owned' \cup left) = {}
  BY <1>2, <1>10 DEF CrossJob
<1>. HIDE DEF from, left, added
<1>12. CrossJob'
  BY <1>2, <1>6, <1>7, <1>8, <1>9, <1>10, <1>11 DEF CrossJob, from
<1>13. Before'
  BY <1>2, <1>6 DEF Before
<1>14. AreRules(dependencies, cascades, edges) /\ RulesInv' /\ CacheInv'
  BY <1>2, <1>4, <1>7, CrossCallKeeps
<1>15. GuardedInv'
  <2>1. Entries(edges.forward) \subseteq Entries(cross.forward) \cup {<<from, to>>}
    BY <1>5
  <2>2. guarded => Acyclic(Flows(dependencies, cascades, edges))
    BY <1>2, <1>14, <2>1, OneMoreEdge
  <2>. QED
    BY <1>2, <1>6, <1>7, <2>2 DEF GuardedInv, CurrentFlows
<1>16. TrackerInv'
  BY <1>1, <1>2 DEF Inv, TrackerInv
<1>. QED
  BY <1>12, <1>13, <1>14, <1>15, <1>16 DEF Inv, JobInv

\* A target ignored leaves the edges alone.
LEMMA IgnoreTargetKeeps ==
  ASSUME Inv, NEW to \in Pairs, IgnoreTarget(to)
  PROVE  Inv'
<1>. DEFINE left    == job.toAdd \ {to}
            ignored == job.changes.ignored \cup {to}
<1>1. /\ AddingTarget(to, TRUE) /\ UNCHANGED <<cross, outcome>>
      /\ job' = [job EXCEPT !.toAdd = left, !.changes = [@ EXCEPT !.ignored = ignored]]
  BY DEF IgnoreTarget
<1>2. /\ job.op = "cross" /\ job # NoJob /\ Before /\ CrossJob
      /\ job.toRemove = {} /\ to \in job.toAdd /\ to \notin Owned /\ to \notin job.old
      /\ UNCHANGED <<dependencies, cascades, handling, guarded>>
      /\ reach' = reach \/ reach' = EnsuredReach
      /\ guarded => Acyclic(Flows(dependencies, cascades, cross))
      /\ guarded => Acyclic(Flows(job.before[1], job.before[2], job.before[3]))
  BY <1>1, AddingLoop
<1>3. /\ DOMAIN job' = DOMAIN job /\ job'.op = "cross" /\ job'.from = job.from /\ job'.old = job.old
      /\ job'.before = job.before /\ job'.toRemove = {} /\ job'.toAdd = left
      /\ job'.changes = [job.changes EXCEPT !.ignored = ignored]
  BY <1>1, <1>2 DEF CrossJob
<1>. DEFINE changes == [job.changes EXCEPT !.ignored = ignored]
<1>4. /\ changes \in Results /\ changes.tag = job.changes.tag /\ changes.added = job.changes.added
      /\ changes.removed = job.changes.removed /\ changes.ignored = ignored
  BY <1>2 DEF CrossJob, Results
<1>5. job'.changes = changes
  BY <1>3
<1>. HIDE DEF changes
<1>6. Owned' = Owned
  BY <1>1, <1>2, <1>3 DEF Owned
<1>7. /\ left \in SUBSET Pairs
      /\ left \cap (Owned \cup job.old) = {}
      /\ ignored \cap (Owned \cup left) = {}
  BY <1>2 DEF CrossJob
<1>. HIDE DEF left, ignored
<1>8. CrossJob'
  BY <1>1, <1>2, <1>3, <1>4, <1>5, <1>6, <1>7 DEF CrossJob
<1>9. Before'
  BY <1>2, <1>3 DEF Before
<1>10. RulesInv' /\ TrackerInv'
  BY <1>1, <1>2 DEF Inv, RulesInv, TrackerInv
<1>11. CacheInv'
  BY <1>1, <1>2, EnsuredIsTrue DEF Inv, CacheInv
<1>12. GuardedInv'
  BY <1>1, <1>2, <1>3 DEF GuardedInv, CurrentFlows
<1>. QED
  BY <1>8, <1>9, <1>10, <1>11, <1>12 DEF Inv, JobInv

\* The old edges put back make the rules those from before.
LEMMA FailTargetKeeps ==
  ASSUME Inv, NEW to \in Pairs, FailTarget(to)
  PROVE  Inv' /\ SameRules(job.before, dependencies', cascades', cross')
<1>. DEFINE edges == Relinked(cross, job.from, job.old)
<1>1. /\ AddingTarget(to, TRUE) /\ cross' = edges /\ job' = NoJob
      /\ outcome' = Graph!Plain("CycleError")
  BY DEF FailTarget, Returns
<1>2. /\ Before /\ CrossJob /\ job # NoJob
      /\ job.from \in Pairs /\ job.old \in SUBSET Pairs
      /\ UNCHANGED <<dependencies, cascades, handling, guarded>>
      /\ reach' = reach \/ reach' = EnsuredReach
      /\ Counts(cross) /\ Agree(cross)
      /\ guarded => Acyclic(Flows(job.before[1], job.before[2], job.before[3]))
  BY <1>1, AddingLoop
<1>3. Counts(edges) /\ Moves(cross, edges)
  BY <1>2, RelinkedCounts
<1>4. Entries(edges.forward)
        = {e \in Entries(cross.forward) : e[1] # job.from} \cup ({job.from} \X job.old)
  BY <1>2, RelinkedEdges
<1>. HIDE DEF edges
<1>5. /\ job.before[1] = dependencies /\ job.before[2] = cascades
      /\ Entries(edges.forward) = Entries(job.before[3].forward)
  BY <1>2, <1>4 DEF CrossJob
<1>6. RulesInv' /\ CacheInv' /\ AreRules(dependencies, cascades, edges)
  BY <1>1, <1>2, <1>3, CrossCallKeeps
<1>7. guarded => Acyclic(Flows(dependencies, cascades, edges))
  <2>. DEFINE deps == job.before[1]
              casc == job.before[2]
              was  == job.before[3]
  <2>1. /\ AreRules(deps, casc, was) /\ deps = dependencies /\ casc = cascades
        /\ Entries(edges.forward) \subseteq Entries(was.forward)
        /\ guarded => Acyclic(Flows(deps, casc, was))
    BY <1>2, <1>5 DEF Before
  <2>. HIDE DEF deps, casc, was
  <2>. QED
    BY <1>6, <2>1, FewerRules
<1>8. TrackerInv'
  BY <1>1, <1>2, PlainResults DEF Inv, TrackerInv, Tags
<1>9. (guarded => Acyclic(CurrentFlows))'
  BY <1>1, <1>2, <1>7 DEF CurrentFlows
<1>10. SameRules(job.before, dependencies', cascades', cross')
  BY <1>1, <1>2, <1>5 DEF SameRules
<1>. QED
  BY <1>1, <1>6, <1>8, <1>9, <1>10, NoJobStays DEF Inv

\* A panic leaves edges that all were judged.
LEMMA PanicTargetKeeps ==
  ASSUME Inv, NEW to \in Pairs, PanicTarget(to)
  PROVE  Inv' /\ outcome'.tag = "Panicked"
<1>1. /\ AddingTarget(to, TRUE) /\ UNCHANGED cross /\ job' = NoJob
      /\ outcome' = Graph!Plain("Panicked")
  BY DEF PanicTarget, Returns
<1>2. /\ UNCHANGED <<dependencies, cascades, handling, guarded>>
      /\ reach' = reach \/ reach' = EnsuredReach
      /\ guarded => Acyclic(Flows(dependencies, cascades, cross))
  BY <1>1, AddingLoop
<1>3. RulesInv' /\ TrackerInv' /\ outcome'.tag = "Panicked"
  BY <1>1, <1>2, PlainResults DEF Inv, RulesInv, TrackerInv, Tags
<1>4. CacheInv'
  BY <1>1, <1>2, EnsuredIsTrue DEF Inv, CacheInv
<1>5. (guarded => Acyclic(CurrentFlows))'
  BY <1>1, <1>2 DEF CurrentFlows
<1>. QED
  BY <1>1, <1>3, <1>4, <1>5, NoJobStays DEF Inv

\* When all is done the report is what became of the pair's edges.
LEMMA FinishCrossKeeps ==
  ASSUME Inv, FinishCross
  PROVE  /\ Inv'
         /\ outcome'.added = Owned \ job.old
         /\ outcome'.removed = job.old \ Owned
         /\ outcome'.ignored \cap Owned = {}
         /\ outcome'.tag = "Replaced"
<1>1. /\ job.op = "cross" /\ job.toRemove = {} /\ job.toAdd = {}
      /\ outcome' = job.changes /\ job' = NoJob
      /\ UNCHANGED <<dependencies, cascades, cross, reach, handling, guarded>>
  BY DEF FinishCross, rules, tracker
<1>2. CrossJob /\ (guarded => Acyclic(Flows(dependencies, cascades, cross)))
  BY <1>1, CrossLoop
<1>3. /\ outcome'.added = Owned \ job.old /\ outcome'.removed = job.old \ Owned
      /\ outcome'.ignored \cap Owned = {}
      /\ outcome' \in Results /\ outcome'.tag = "Replaced"
  BY <1>1, <1>2 DEF CrossJob
<1>4. RulesInv' /\ CacheInv' /\ TrackerInv'
  BY <1>1, <1>3 DEF Inv, RulesInv, CacheInv, TrackerInv
<1>5. (guarded => Acyclic(CurrentFlows))'
  BY <1>1, <1>2 DEF CurrentFlows
<1>. QED
  BY <1>1, <1>3, <1>4, <1>5, NoJobStays DEF Inv

-----------------------------------------------------------------------------
(* The rules a tracker is created with. *)

\* Without cascades and edges, a chain stays in its channel.
LEMMA DependenciesOnlyAcyclic ==
  ASSUME NEW deps, NEW casc, NEW edges, AreRules(deps, casc, edges),
         casc = [c \in Channels |-> {}], Entries(edges.forward) = {},
         \A c \in Channels : Acyclic(deps[c])
  PROVE  Acyclic(Flows(deps, casc, edges))
<1>. DEFINE flows == Flows(deps, casc, edges)
<1>1. flows \in [Pairs -> SUBSET Pairs]
      /\ \A p, q \in Pairs : q \in flows[p] => q[2] = p[2] /\ p[1] \in deps[p[2]][q[1]]
  <2>1. \A p \in Pairs : casc[p[2]] = {}
    BY DEF Pairs
  <2>. QED
    BY <2>1, FlowMember
<1>2. /\ deps \in [Channels -> [Keys -> SUBSET Keys]]
      /\ \A p \in Pairs : p[1] \in Keys /\ p[2] \in Channels
  BY DEF AreRules, Pairs
<1>. HIDE DEF flows
<1>3. ASSUME NEW p \in Pairs, NEW q \in flows[p], Reaches(flows, q, p)
      PROVE  FALSE
  <2>. DEFINE c == p[2]
              D == deps[c]
              T == {r \in Pairs : r[2] = c /\ Reaches(D, r[1], q[1])}
  <2>1. /\ q \in Pairs /\ q[2] = c /\ p[1] \in D[q[1]] /\ c \in Channels
        /\ p[1] \in Keys /\ q[1] \in Keys /\ D \in [Keys -> SUBSET Keys]
    <3>1. q \in Pairs
      BY <1>1, <1>3
    <3>. QED
      BY <1>1, <1>2, <1>3, <3>1
  <2>2. ASSUME NEW r \in T, NEW s \in flows[r]
        PROVE  s \in T
    <3>1. r \in Pairs /\ s \in Pairs /\ r[2] = c /\ Reaches(D, r[1], q[1])
      BY <1>1, <2>2
    <3>2. s[2] = c /\ r[1] \in D[s[1]] /\ s[1] \in Keys
      BY <1>1, <1>2, <2>2, <3>1
    <3>. HIDE DEF c, D
    <3>3. Reaches(D, s[1], q[1])
      BY <2>1, <3>1, <3>2, ReachesFirst
    <3>. QED
      BY <3>1, <3>2, <3>3 DEF c, D
  <2>3. T \in SUBSET Pairs /\ q \in T /\ ClosedUnder(flows, T)
    BY <2>1, <2>2, ReachesSelf DEF ClosedUnder
  <2>4. DOMAIN flows = Pairs
    BY <1>1
  <2>5. p \in T
    <3>. HIDE DEF T
    <3>. QED
      BY <1>3, <2>3, <2>4 DEF Reaches
  <2>6. Reaches(D, p[1], q[1]) /\ p[1] \in D[q[1]] /\ Acyclic(D)
    BY <2>1, <2>5
  <2>. HIDE DEF D
  <2>. QED
    BY <2>1, <2>6 DEF Acyclic
<1>4. Acyclic(flows)
  BY <1>1, <1>3 DEF Acyclic
<1>. QED
  BY <1>4 DEF flows

\* Without dependencies and edges, it keeps its key.
LEMMA CascadesOnlyAcyclic ==
  ASSUME NEW deps, NEW casc, NEW edges, AreRules(deps, casc, edges),
         deps = [c \in Channels |-> [k \in Keys |-> {}]], Entries(edges.forward) = {},
         Acyclic(casc)
  PROVE  Acyclic(Flows(deps, casc, edges))
<1>. DEFINE flows == Flows(deps, casc, edges)
<1>1. flows \in [Pairs -> SUBSET Pairs]
      /\ \A p, q \in Pairs : q \in flows[p] => q[2] \in casc[p[2]]
  <2>1. \A p, q \in Pairs : p[1] \notin deps[p[2]][q[1]]
    BY DEF Pairs
  <2>. QED
    BY <2>1, FlowMember
<1>2. casc \in [Channels -> SUBSET Channels] /\ \A p \in Pairs : p[2] \in Channels
  BY DEF AreRules, Pairs
<1>3. ASSUME NEW p \in Pairs, NEW q \in flows[p], Reaches(flows, q, p)
      PROVE  FALSE
  <2>. DEFINE T == {r \in Pairs : Reaches(casc, q[2], r[2])}
  <2>1. q \in Pairs /\ q[2] \in casc[p[2]] /\ p[2] \in Channels /\ q[2] \in Channels
    BY <1>1, <1>2, <1>3
  <2>2. ASSUME NEW r \in T, NEW s \in flows[r]
        PROVE  s \in T
    <3>1. r \in Pairs /\ s \in Pairs /\ s[2] \in casc[r[2]]
      BY <1>1, <2>2
    <3>. QED
      BY <1>2, <2>1, <2>2, <3>1, ReachesStep
  <2>3. T \in SUBSET Pairs /\ q \in T /\ ClosedUnder(flows, T)
    BY <2>1, <2>2, ReachesSelf DEF ClosedUnder
  <2>4. DOMAIN flows = Pairs
    BY <1>1
  <2>5. p \in T
    <3>. HIDE DEF T, flows
    <3>. QED
      BY <1>3, <2>3, <2>4 DEF Reaches
  <2>. QED
    BY <1>2, <2>1, <2>5 DEF Acyclic
<1>4. Acyclic(flows)
  <2>. HIDE DEF flows
  <2>. QED
    BY <1>1, <1>3 DEF Acyclic
<1>. QED
  BY <1>4 DEF flows

\* Every constructor starts the invariant off: new and with_cycle_handling
\* with no rules, with_cascades with cascades that were checked, from_graph
\* with dependencies that it does not claim to have no cycle.
LEMMA InitInv == Init => Inv
<1>. SUFFICES ASSUME Init PROVE Inv
  OBVIOUS
<1>1. cross = NoEdges /\ reach = NoReach /\ job = NoJob
  BY DEF Init
<1>2. Counts(cross) /\ Entries(cross.forward) = {}
  BY <1>1, NoEdgesAgree, NoEdgesCount
<1>3. outcome \in Results /\ outcome = Graph!NotCalled
  <2>1. outcome = Graph!Plain("NotCalled")
    BY DEF Init, WithCycleHandling, WithCascades, FromGraph, Graph!Init, Graph!NotCalled
  <2>. QED
    BY <2>1, PlainResults DEF Graph!NotCalled, Tags
<1>. DEFINE none == [c \in Channels |-> [k \in Keys |-> {}]]
            flat == [c \in Channels |-> {}]
<1>4. /\ none \in [Channels -> [Keys -> SUBSET Keys]] /\ \A c \in Channels : Acyclic(none[c])
      /\ flat \in [Channels -> SUBSET Channels] /\ Acyclic(flat)
  BY DEF Acyclic
<1>5. /\ dependencies \in [Channels -> [Keys -> SUBSET Keys]]
      /\ cascades \in [Channels -> SUBSET Channels] /\ Acyclic(cascades)
      /\ handling \in TrackerHandlings /\ guarded \in BOOLEAN
      /\ guarded => handling # "Allow"
      /\ guarded => \/ cascades = flat /\ \A c \in Channels : Acyclic(dependencies[c])
                    \/ dependencies = none
  <2>1. CASE \E h \in TrackerHandlings : WithCycleHandling(h)
    BY <1>4, <2>1 DEF WithCycleHandling, Graph!Init
  <2>2. CASE \E h \in TrackerHandlings : FromGraph(h)
    BY <1>4, <2>2 DEF FromGraph
  <2>3. CASE DefaultHandling \in TrackerHandlings /\ WithCascades
    BY <1>4, <2>3 DEF WithCascades, Graph!Init, DefaultHandling
  <2>. QED
    BY <2>1, <2>2, <2>3 DEF Init
<1>. HIDE DEF none, flat
<1>6. AreRules(dependencies, cascades, cross)
  BY <1>2, <1>5 DEF AreRules
<1>7. RulesInv /\ TrackerInv /\ JobInv
  BY <1>1, <1>3, <1>5, <1>6 DEF RulesInv, TrackerInv, JobInv
<1>8. CacheInv
  BY <1>1, <1>6, FreshCache DEF CacheInv
<1>9. guarded => Acyclic(CurrentFlows)
  BY <1>2, <1>5, <1>6, DependenciesOnlyAcyclic, CascadesOnlyAcyclic DEF CurrentFlows, flat, none
<1>. QED
  BY <1>1, <1>7, <1>8, <1>9 DEF Inv, GuardedInv, NoJob

-----------------------------------------------------------------------------
(* The theorems. *)

\* Every step keeps the invariant.
LEMMA NextKeepsInv == Inv /\ [Next]_vars => Inv'
<1>. SUFFICES ASSUME Inv, [Next]_vars PROVE Inv'
  OBVIOUS
<1>1. handling \in Asked /\ Handlings \subseteq Asked
  BY DEF Asked
<1>2. CASE ReadOutcome
  BY <1>2, ReadOutcomeKeeps
<1>3. ASSUME NEW from \in Keys, NEW to \in Keys, NEW c \in Channels,
             \/ AddDependency(from, to, c)
             \/ \E h \in Handlings : AddDependencyWith(from, to, c, h)
             \/ RemoveDependency(from, to, c)
      PROVE  Inv'
  BY <1>1, <1>3, AddDependencyKeeps, RemoveDependencyKeeps DEF AddDependency
<1>4. ASSUME NEW from \in Keys, NEW c \in Channels, NEW to \in SUBSET Keys,
             \/ ReplaceDependencies(from, c, to)
             \/ \E h \in Handlings : ReplaceDependenciesWith(from, c, to, h)
      PROVE  Inv'
  BY <1>1, <1>4, ReplaceDependenciesKeeps DEF ReplaceDependencies
<1>5. ASSUME NEW from \in Channels, NEW to \in Channels,
             AddCascade(from, to) \/ RemoveCascade(from, to)
      PROVE  Inv'
  BY <1>5, AddCascadeKeeps, RemoveCascadeKeeps
<1>6. ASSUME NEW from \in Pairs, NEW to \in Pairs,
             \/ AddCrossDependency(from, to)
             \/ \E h \in Handlings : AddCrossDependencyWith(from, to, h)
             \/ RemoveCrossDependency(from, to)
      PROVE  Inv'
  BY <1>1, <1>6, AddCrossDependencyKeeps, RemoveCrossKeeps DEF AddCrossDependency
<1>7. ASSUME NEW p \in Pairs, ClearCrossDependents(p) \/ ClearCrossDependencies(p)
      PROVE  Inv'
  BY <1>7, RemoveCrossKeeps
<1>8. ASSUME NEW from \in Pairs, NEW targets \in SUBSET Pairs, ReplaceCrossDependents(from, targets)
      PROVE  Inv'
  BY <1>8, ReplaceCrossKeeps
<1>9. CASE ReplaceStep
  BY <1>9, KeepAddedKeeps, DropAddedKeeps, FailAddedKeeps, PanicAddedKeeps, FinishDependenciesKeeps,
     RemoveStaleTargetKeeps, AddTargetKeeps, IgnoreTargetKeeps, FailTargetKeeps, PanicTargetKeeps,
     FinishCrossKeeps DEF ReplaceStep
<1>10. ASSUME NEW key \in Keys, RemoveKey(key)
       PROVE  Inv'
  BY <1>10, RemoveKeyKeeps
<1>11. CASE UNCHANGED vars
  <2>1. UNCHANGED <<dependencies, cascades, cross, reach, handling, guarded, job, outcome>>
    BY <1>11 DEF vars
  <2>2. RulesInv' /\ CacheInv' /\ TrackerInv'
    BY <2>1 DEF Inv, RulesInv, CacheInv, TrackerInv
  <2>. QED
    BY <2>1, <2>2, GuardedStays, JobStays DEF Inv, rules
<1>. QED
  BY <1>2, <1>3, <1>4, <1>5, <1>6, <1>7, <1>8, <1>9, <1>10, <1>11 DEF Next

\* The invariant: no chain of guarded calls closes a cycle, whatever mix of
\* rules, caches and half-done replacements it goes through (cycles.rs).
THEOREM InvHolds == Spec => []Inv
BY InitInv, NextKeepsInv, PTL DEF Spec

\* The variables keep their types, and a cache that is_current takes for
\* current is that of the rules as they are (cycles.rs, ensure_reach).
THEOREM CacheAlwaysSound == Spec => []CacheSound
<1>1. Inv => CacheSound
  <2>. SUFFICES ASSUME Inv PROVE CacheSound
    OBVIOUS
  <2>1. Counts(cross) /\ Agree(cross) /\ DOMAIN cross.forward \in SUBSET Pairs
    BY DEF Inv, RulesInv, AreRules, Counts, Agree, IsMap
  <2>2. Entries(cross.forward) \in SUBSET (Pairs \X Pairs)
    BY <2>1, EntriesType DEF Agree
  <2>3. cross.sources \in [Channels -> Nat]
    <3>1. SourcesOf(DOMAIN cross.forward) \in [Channels -> Nat]
      BY <2>1, SourcesTables
    <3>. QED
      BY <2>1, <3>1 DEF Counts
  <2>4. cross.pairs \in [Channels -> [Channels -> Nat]]
    BY <2>1, <2>2, TallyType DEF Counts
  <2>5. job.op \in {"none", "dependencies", "cross"}
    BY JobKinds DEF Inv
  <2>6. outcome.tag \in Tags
        /\ outcome.added \cup outcome.removed \cup outcome.ignored \subseteq Keys \cup Pairs
    BY DEF Inv, TrackerInv, Results
  <2>7. dependencies \in [Channels -> [Keys -> SUBSET Keys]] /\ cascades \in [Channels -> SUBSET Channels]
        /\ handling \in TrackerHandlings /\ guarded \in BOOLEAN
    BY DEF Inv, RulesInv, AreRules, TrackerInv
  <2>8. (reach = NoReach \/ reach \in Reaching) /\ CurrentCacheIsTrue
    BY DEF Inv, CacheInv, IsCache, CurrentCacheIsTrue
  <2>. QED
    BY <2>2, <2>3, <2>4, <2>5, <2>6, <2>7, <2>8 DEF CacheSound, TypeOK
<1>. QED
  BY <1>1, InvHolds, PTL

\* As long as nobody has asked for Allow, invalidation never runs in a circle
\* (tracker.rs, struct InvalidationTracker).
THEOREM GuardedStaysAcyclic == Spec => []CombinedAcyclic
<1>1. Inv => CombinedAcyclic
  BY DEF Inv, GuardedInv, CombinedAcyclic
<1>. QED
  BY <1>1, InvHolds, PTL

\* An addition is refused if and only if the combined relation has a chain
\* that it closes, by both kinds of call, in any state and with cycles there
\* or not (add_dependency_with, add_cross_dependency_with).
THEOREM AdditionsAreJudged == Spec => AdditionsJudged
<1>1. ASSUME Inv, NEW from \in Keys, NEW to \in Keys, NEW c \in Channels,
             NEW h \in Asked \ {"Allow"},
             to \notin dependencies[c][from], AddDependencyWith(from, to, c, h)
      PROVE  outcome'.tag = "Added" <=> ~ComesTo(<<from, c>>, <<to, c>>)
  <2>1. CrossingFlow(c, from, to) \/ Reaches(dependencies[c], to, from)
          <=> ComesTo(<<from, c>>, <<to, c>>)
    BY <1>1, CrossingFlowJudges DEF Inv, ComesTo
  <2>2. CASE from # to /\ CrossingFlow(c, from, to)
    <3>1. outcome' = Graph!Plain(CycleVerdict(h))
      BY <1>1, <2>2 DEF AddDependencyWith, Returns
    <3>. QED
      BY <2>1, <2>2, <3>1, PlainResults
  <2>3. CASE ~(from # to /\ CrossingFlow(c, from, to))
    <3>1. Graph!AddDependency(from, to, c, h)
      BY <1>1, <2>3 DEF AddDependencyWith
    <3>2. Graph!Refused(dependencies[c], from, to, h) <=> from = to \/ Reaches(dependencies[c], to, from)
      BY GraphReaches DEF Graph!Refused
    <3>3. Graph!Refused(dependencies[c], from, to, h) <=> ComesTo(<<from, c>>, <<to, c>>)
      BY <2>1, <2>3, <3>2, ReachesSelf
    <3>4. \/ /\ Graph!Refused(dependencies[c], from, to, h) /\ outcome' = Graph!Plain(CycleVerdict(h))
          \/ ~Graph!Refused(dependencies[c], from, to, h) /\ outcome' = Graph!Plain("Added")
      BY <1>1, <3>1 DEF Graph!AddDependency, CycleVerdict
    <3>. QED
      BY <3>3, <3>4, PlainResults
  <2>. QED
    BY <2>2, <2>3
<1>2. ASSUME Inv, NEW from \in Pairs, NEW to \in Pairs, NEW h \in Asked \ {"Allow"},
             to \notin Listed(cross.forward, from), AddCrossDependencyWith(from, to, h)
      PROVE  outcome'.tag = "Added" <=> ~ComesTo(to, from)
  <2>1. Flow(to, from) <=> ComesTo(to, from)
    BY <1>2, FlowJudges DEF Inv, ComesTo
  <2>2. outcome' = Graph!Plain(IF Flow(to, from) THEN CycleVerdict(h) ELSE "Added")
    BY <1>2 DEF AddCrossDependencyWith, Returns
  <2>. QED
    BY <2>1, <2>2, PlainResults
<1>. DEFINE Judged ==
       Answered =>
         /\ \A from, to \in Keys, c \in Channels, h \in Asked \ {"Allow"} :
              to \notin dependencies[c][from] /\ AddDependencyWith(from, to, c, h)
              => (outcome'.tag = "Added" <=> ~ComesTo(<<from, c>>, <<to, c>>))
         /\ \A from, to \in Pairs, h \in Asked \ {"Allow"} :
              to \notin Listed(cross.forward, from) /\ AddCrossDependencyWith(from, to, h)
              => (outcome'.tag = "Added" <=> ~ComesTo(to, from))
<1>3. Inv => Judged
  BY <1>1, <1>2
<1>4. Inv /\ [Next]_vars => [Judged]_vars
  BY <1>3
<1>. QED
  BY <1>4, InvHolds, PTL DEF Spec, AdditionsJudged

\* A cascade let in by a tracker that does not allow cycles lets no key's
\* invalidation come back to it across it (tracker.rs, add_cascade).
THEOREM CascadesAreJudged == Spec => CascadesJudged
<1>. DEFINE Judged ==
       \A from, to \in Channels :
         /\ outcome'.tag = "Added" /\ cascades' # cascades /\ handling # "Allow"
         /\ AddCascade(from, to)
         => \A k \in Keys : ~Reaches(CurrentFlows', <<k, to>>, <<k, from>>)
<1>1. ASSUME Inv PROVE Judged
  <2>. SUFFICES ASSUME NEW from \in Channels, NEW to \in Channels, cascades' # cascades,
                       handling # "Allow", AddCascade(from, to), NEW k \in Keys
                PROVE  ~Reaches(CurrentFlows', <<k, to>>, <<k, from>>)
    OBVIOUS
  <2>1. ~Reaches(Flows(dependencies, cascades', cross), <<k, to>>, <<k, from>>)
    BY <1>1, AddedCascade
  <2>2. UNCHANGED <<dependencies, cross>>
    BY DEF AddCascade
  <2>. QED
    BY <2>1, <2>2 DEF CurrentFlows
<1>2. Inv /\ [Next]_vars => [Judged]_vars
  BY <1>1
<1>. QED
  BY <1>2, InvHolds, PTL DEF Spec, CascadesJudged

\* A replacement that fails leaves every rule as it found it, and one that
\* succeeds reports how the edges it owns have changed (tracker.rs,
\* replace_dependencies_with and replace_cross_dependents).
THEOREM ReplacementsTell == Spec => ReplacementsReport
<1>. DEFINE Reports ==
       job # NoJob /\ job' = NoJob =>
         /\ outcome'.tag = "CycleError" => SameRules(job.before, dependencies', cascades', cross')
         /\ outcome'.tag = "Replaced" =>
              /\ outcome'.added = Owned \ job.old
              /\ outcome'.removed = job.old \ Owned
              /\ outcome'.ignored \cap Owned = {}
<1>1. ASSUME Inv, Next, job # NoJob, job' = NoJob
      PROVE  \/ \E dep \in Keys : FailAdded(dep) \/ PanicAdded(dep)
             \/ \E to \in Pairs : FailTarget(to) \/ PanicTarget(to)
             \/ FinishDependencies \/ FinishCross
  <2>1. ReplaceStep
    <3>1. ~ReadOutcome
      BY <1>1 DEF ReadOutcome
    <3>2. ASSUME NEW from \in Keys, NEW to \in Keys, NEW c \in Channels
          PROVE  /\ ~AddDependency(from, to, c) /\ ~RemoveDependency(from, to, c)
                 /\ \A h \in Handlings : ~AddDependencyWith(from, to, c, h)
      BY <1>1 DEF AddDependency, AddDependencyWith, RemoveDependency, Free
    <3>3. ASSUME NEW from \in Keys, NEW c \in Channels, NEW to \in SUBSET Keys
          PROVE  /\ ~ReplaceDependencies(from, c, to)
                 /\ \A h \in Handlings : ~ReplaceDependenciesWith(from, c, to, h)
      BY <1>1 DEF ReplaceDependencies, ReplaceDependenciesWith, Free
    <3>4. ASSUME NEW from \in Channels, NEW to \in Channels
          PROVE  ~AddCascade(from, to) /\ ~RemoveCascade(from, to)
      BY <1>1 DEF AddCascade, RemoveCascade, Free
    <3>5. ASSUME NEW from \in Pairs, NEW to \in Pairs
          PROVE  /\ ~AddCrossDependency(from, to) /\ ~RemoveCrossDependency(from, to)
                 /\ \A h \in Handlings : ~AddCrossDependencyWith(from, to, h)
      BY <1>1 DEF AddCrossDependency, AddCrossDependencyWith, RemoveCrossDependency, RemoveCross,
         MayChangeCross, Free
    <3>6. ASSUME NEW p \in Pairs
          PROVE  ~ClearCrossDependents(p) /\ ~ClearCrossDependencies(p)
      BY <1>1 DEF ClearCrossDependents, ClearCrossDependencies, RemoveCross, MayChangeCross, Free
    <3>7. ASSUME NEW from \in Pairs, NEW targets \in SUBSET Pairs
          PROVE  ~ReplaceCrossDependents(from, targets)
      BY <1>1 DEF ReplaceCrossDependents, MayChangeCross, Free
    <3>8. ASSUME NEW key \in Keys PROVE ~RemoveKey(key)
      BY <1>1 DEF RemoveKey, MayChangeCross, Free
    <3>. QED
      BY <1>1, <3>1, <3>2, <3>3, <3>4, <3>5, <3>6, <3>7, <3>8 DEF Next
  <2>2. ASSUME NEW dep \in Keys, KeepAdded(dep) \/ DropAdded(dep)
        PROVE  FALSE
    <3>1. job.op = "dependencies" /\ DependenciesJob
      BY <1>1, <2>2, CheckingLoop DEF KeepAdded, DropAdded
    <3>2. job'.op = job.op
      BY <2>2, <3>1 DEF KeepAdded, DropAdded, DependenciesJob
    <3>. QED
      BY <1>1, <3>1, <3>2 DEF NoJob
  <2>3. ASSUME RemoveStaleTarget \/ \E to \in Pairs : AddTarget(to) \/ IgnoreTarget(to)
        PROVE  FALSE
    <3>1. job.op = "cross"
      BY <2>3 DEF RemoveStaleTarget, AddTarget, IgnoreTarget, AddingTarget
    <3>2. CrossJob
      BY <1>1, <3>1, CrossLoop
    <3>3. job'.op = job.op
      BY <2>3, <3>2 DEF RemoveStaleTarget, AddTarget, IgnoreTarget, CrossJob
    <3>. QED
      BY <1>1, <3>1, <3>3 DEF NoJob
  <2>. QED
    BY <2>1, <2>2, <2>3 DEF ReplaceStep
<1>2. ASSUME Inv, Next PROVE Reports
  <2>1. ASSUME \/ \E dep \in Keys : FailAdded(dep)
               \/ \E to \in Pairs : FailTarget(to)
        PROVE  /\ outcome'.tag = "CycleError"
               /\ SameRules(job.before, dependencies', cascades', cross')
    <3>1. outcome' = Graph!Plain("CycleError")
      BY <2>1 DEF FailAdded, FailTarget, Returns
    <3>2. SameRules(job.before, dependencies', cascades', cross')
      BY <1>2, <2>1, FailAddedKeeps, FailTargetKeeps
    <3>. QED
      BY <3>1, <3>2, PlainResults
  <2>2. ASSUME \/ \E dep \in Keys : PanicAdded(dep)
               \/ \E to \in Pairs : PanicTarget(to)
        PROVE  outcome'.tag = "Panicked"
    BY <1>2, <2>2, PanicAddedKeeps, PanicTargetKeeps
  <2>3. ASSUME FinishDependencies \/ FinishCross
        PROVE  /\ outcome'.tag = "Replaced"
               /\ outcome'.added = Owned \ job.old
               /\ outcome'.removed = job.old \ Owned
               /\ outcome'.ignored \cap Owned = {}
    BY <1>2, <2>3, FinishDependenciesKeeps, FinishCrossKeeps
  <2>. QED
    BY <1>1, <1>2, <2>1, <2>2, <2>3
<1>3. Inv /\ [Next]_vars => [Reports]_vars
  BY <1>2
<1>. QED
  BY <1>3, InvHolds, PTL DEF Spec, ReplacementsReport


-----------------------------------------------------------------------------
(* The errors of cascades: what the search finds is a cycle, and turning it *)
(* round makes of it the path that an error carries.                        *)

\* A shortest chain is a chain: where the search finds the goal there is one of
\* at most as many pairs as there are (tracker.rs, flow_path).
LEMMA FoundChain ==
  ASSUME NEW deps, NEW casc, NEW edges, AreRules(deps, casc, edges), NEW cache,
         NEW start \in Pairs, NEW goal \in Pairs,
         FlowPath(cache, Flows(deps, casc, edges), start, goal),
         NEW chain \in ShortestChains(cache, Flows(deps, casc, edges), start, goal)
  PROVE  \E n \in Nat \ {0} :
           chain \in [1 .. n -> Pairs] /\ LeadsBy(Flows(deps, casc, edges), chain, n, start, goal)
<1>. DEFINE flows     == Flows(deps, casc, edges)
            hopeful   == {p \in Pairs : CanReach(cache, p[2], goal[2])}
            pruned    == [p \in Pairs |-> flows[p] \cap hopeful]
            chains(n) == {s \in [1..n -> hopeful] :
                            /\ s[1] = start /\ s[n] = goal
                            /\ \A i \in 1..(n - 1) : s[i + 1] \in flows[s[i]]}
            lengths   == {n \in 1..Cardinality(Pairs) : chains(n) # {}}
            least     == CHOOSE n \in lengths : \A m \in lengths : n <= m
<1>1. flows \in [Pairs -> SUBSET Pairs]
  BY FlowMember
<1>2. chain \in chains(least)
  BY DEF ShortestChains
<1>3. start \in hopeful /\ Reaches(pruned, start, goal)
  BY DEF FlowPath
<1>4. IsFiniteSet(Pairs)
  BY FinitePairs
<1>. HIDE DEF flows, hopeful
<1>5. pruned \in [Pairs -> SUBSET Pairs]
  BY <1>1
<1>6. PICK n \in 1 .. Cardinality(Pairs) : \E s \in [1 .. n -> Pairs] : LeadsBy(pruned, s, n, start, goal)
  <2>. HIDE DEF pruned
  <2>. QED
    BY <1>3, <1>4, <1>5, ShortChain
<1>7. PICK s \in [1 .. n -> Pairs] : LeadsBy(pruned, s, n, start, goal)
  BY <1>6
<1>8. Cardinality(Pairs) \in Nat
  BY <1>4, FS_CardinalityType
<1>9. s \in chains(n)
  <2>1. ASSUME NEW i \in 1 .. n - 1
        PROVE  s[i] \in Pairs /\ s[i + 1] \in flows[s[i]] \cap hopeful
    <3>1. s[i] \in Pairs
      BY <1>8
    <3>2. s[i + 1] \in pruned[s[i]]
      BY <1>7 DEF LeadsBy
    <3>. QED
      BY <3>1, <3>2
  <2>2. ASSUME NEW i \in 1 .. n PROVE s[i] \in hopeful
    <3>1. CASE i = 1
      BY <1>3, <1>7, <3>1 DEF LeadsBy
    <3>2. CASE i # 1
      <4>1. i - 1 \in 1 .. n - 1 /\ i - 1 + 1 = i
        BY <1>8, <3>2
      <4>. QED
        BY <2>1, <4>1
    <3>. QED
      BY <3>1, <3>2
  <2>3. s[1] = start /\ s[n] = goal
    BY <1>7 DEF LeadsBy
  <2>4. s \in [1 .. n -> hopeful]
    BY <1>7, <2>2
  <2>. QED
    BY <2>1, <2>3, <2>4
<1>10. n \in lengths
  BY <1>9
<1>11. least \in lengths
  <2>1. lengths \in SUBSET Nat
    BY <1>8
  <2>. HIDE DEF lengths
  <2>2. \E m \in lengths : \A k \in lengths : m <= k
    BY <1>10, <2>1, LeastNumber
  <2>. QED
    BY <2>2
<1>12. least \in Nat \ {0}
  <2>1. lengths \in SUBSET (Nat \ {0})
    BY <1>8
  <2>. HIDE DEF lengths, least
  <2>. QED
    BY <1>11, <2>1
<1>. HIDE DEF least
<1>13. chain \in [1 .. least -> Pairs] /\ LeadsBy(flows, chain, least, start, goal)
  BY <1>2 DEF LeadsBy, hopeful
<1>. QED
  BY <1>12, <1>13 DEF flows

\* A cycle of pairs: it ends where it starts, and goes by arrows.
IsCycle(flows, cycle) ==
  /\ cycle \in Seq(Pairs) /\ Len(cycle) >= 2
  /\ cycle[1] = cycle[Len(cycle)]
  /\ \A i \in 1 .. Len(cycle) - 1 : cycle[i + 1] \in flows[cycle[i]]

\* What the search for a cycle through a cross-channel edge finds is one
\* (tracker.rs, add_cascade).
LEMMA FoundIsCycle ==
  ASSUME NEW casc, AreRules(dependencies, casc, cross), NEW cache,
         NEW cycle \in FoundCycles(cache, casc)
  PROVE  /\ IsCycle(Flows(dependencies, casc, cross), cycle)
         /\ <<cycle[1], cycle[2]>> \in Entries(cross.forward)
<1>. DEFINE flows == Flows(dependencies, casc, cross)
<1>1. PICK e \in Entries(cross.forward) :
             /\ FlowPath(cache, flows, e[2], e[1])
             /\ \E chain \in ShortestChains(cache, flows, e[2], e[1]) : cycle = <<e[1]>> \o chain
  BY DEF FoundCycles
<1>2. PICK chain \in ShortestChains(cache, flows, e[2], e[1]) : cycle = <<e[1]>> \o chain
  BY <1>1
<1>3. e[1] \in Pairs /\ e[2] \in Pairs /\ e = <<e[1], e[2]>>
  <2>1. Entries(cross.forward) \in SUBSET (Pairs \X Pairs)
    BY EntriesType DEF AreRules, Counts, Agree
  <2>. QED
    BY <2>1
<1>4. PICK n \in Nat \ {0} : chain \in [1 .. n -> Pairs] /\ LeadsBy(flows, chain, n, e[2], e[1])
  BY <1>1, <1>2, <1>3, FoundChain
<1>5. e[2] \in flows[e[1]]
  BY <1>1, <1>3, FlowMember
<1>. HIDE DEF flows
<1>6. chain \in Seq(Pairs) /\ Len(chain) = n
  BY <1>4
<1>7. /\ cycle \in Seq(Pairs) /\ Len(cycle) = n + 1
      /\ cycle[1] = e[1] /\ \A i \in 1 .. n : cycle[i + 1] = chain[i]
  <2>1. cycle \in Seq(Pairs) /\ Len(cycle) = n + 1
    BY <1>2, <1>3, <1>6
  <2>2. cycle[1] = e[1]
    BY <1>2, <1>3, <1>6
  <2>3. ASSUME NEW i \in 1 .. n PROVE cycle[i + 1] = chain[i]
    BY <1>2, <1>3, <1>6
  <2>. QED
    BY <2>1, <2>2, <2>3
<1>8. cycle[2] = e[2] /\ cycle[n + 1] = e[1]
  <2>1. 1 \in 1 .. n /\ n \in 1 .. n /\ 1 + 1 = 2
    BY <1>4
  <2>. QED
    BY <1>4, <1>7, <2>1 DEF LeadsBy
<1>9. ASSUME NEW i \in 1 .. n PROVE cycle[i + 1] \in flows[cycle[i]]
  <2>1. CASE i = 1
    BY <1>5, <1>7, <1>8, <2>1
  <2>2. CASE i # 1
    <3>1. i - 1 \in 1 .. n - 1 /\ i - 1 \in 1 .. n /\ i - 1 + 1 = i /\ i \in 1 .. n
      BY <1>4, <2>2
    <3>2. cycle[i] = chain[i - 1] /\ cycle[i + 1] = chain[i]
      BY <1>7, <3>1
    <3>. QED
      BY <1>4, <3>1, <3>2 DEF LeadsBy
  <2>. QED
    BY <2>1, <2>2
<1>10. IsCycle(flows, cycle)
  BY <1>4, <1>7, <1>8, <1>9 DEF IsCycle
<1>. QED
  BY <1>1, <1>3, <1>7, <1>8, <1>10 DEF flows

\* passed collects the channels of a cycle pair by pair.
PassesOn(passed, cycle) ==
  /\ passed[0] = << >>
  /\ \A n \in 1 .. Len(cycle) - 1 : passed[n] = Passing(passed[n - 1], cycle[n][2])

\* That is how the channels of an error are collected (cascade_cycle_error).
LEMMA PairByPair ==
  ASSUME NEW cycle \in Seq(Pairs), Len(cycle) >= 2
  PROVE  PassesOn(Passed(cycle), cycle)
<1>. DEFINE m == Len(cycle) - 1
            first == << >>
            paths == Seq(Channels)
            Loop(f) == f = [n \in 0 .. m |-> IF n = 0 THEN first
                                             ELSE Passing(f[n - 1], cycle[n][2])]
            passed == Passed(cycle)
            step == [n \in 1 .. m |-> [path \in paths |-> Passing(path, cycle[n][2])]]
<1>1. m \in Nat
  OBVIOUS
<1>2. passed = CHOOSE f : Loop(f)
  BY DEF Passed
<1>3. first \in paths
  OBVIOUS
<1>4. step \in [1 .. m -> [paths -> paths]]
  <2>1. ASSUME NEW n \in 1 .. m, NEW path \in paths
        PROVE  Passing(path, cycle[n][2]) \in paths
    <3>1. cycle[n][2] \in Channels
      BY <1>1 DEF Pairs
    <3>. QED
      BY <3>1 DEF Passing
  <2>. QED
    BY <2>1
<1>. HIDE DEF m, first
<1>5. PICK f \in [0 .. m -> paths] : GoesBy(f, first, m, step)
  <2>. HIDE DEF step, paths
  <2>. QED
    BY <1>1, <1>3, <1>4, TurnsRun
<1>6. ASSUME NEW n \in 1 .. m PROVE f[n] = Passing(f[n - 1], cycle[n][2])
  <2>1. n - 1 \in 0 .. m
    BY <1>1
  <2>2. f[n - 1] \in paths /\ f[n] = step[n][f[n - 1]]
    BY <1>5, <2>1 DEF GoesBy
  <2>. QED
    BY <2>2
<1>7. Loop(f)
  <2>1. ASSUME NEW n \in 0 .. m
        PROVE  f[n] = IF n = 0 THEN first ELSE Passing(f[n - 1], cycle[n][2])
    <3>1. CASE n = 0
      BY <1>5, <3>1 DEF GoesBy
    <3>2. CASE n # 0
      <4>1. n \in 1 .. m
        BY <1>1, <3>2
      <4>. QED
        BY <1>6, <3>2, <4>1
    <3>. QED
      BY <3>1, <3>2
  <2>. QED
    BY <1>5, <2>1
<1>8. Loop(passed)
  <2>. HIDE DEF Loop, passed
  <2>. QED
    BY <1>2, <1>7
<1>. HIDE DEF passed
<1>9. passed[0] = first
  BY <1>1, <1>8
<1>10. ASSUME NEW n \in 1 .. m PROVE passed[n] = Passing(passed[n - 1], cycle[n][2])
  <2>1. n \in 0 .. m /\ n # 0
    BY <1>1
  <2>. QED
    BY <1>8, <2>1
<1>. QED
  BY <1>9, <1>10 DEF PassesOn, passed, m, first

\* From a to b leads one of the first n steps of a cycle.
StepAmong(cycle, n, a, b) == \E j \in 1 .. n : a = cycle[j][2] /\ b = cycle[j + 1][2]

\* path is what the first n pairs of a cycle pass: it goes on by steps of the
\* cycle from one channel to another, and by all of these.
Collected(path, cycle, n) ==
  /\ path \in Seq(Channels) /\ Len(path) >= 1
  /\ path[1] = cycle[1][2] /\ path[Len(path)] = cycle[n][2]
  /\ \A k \in 1 .. Len(path) - 1 :
       path[k] # path[k + 1] /\ StepAmong(cycle, n - 1, path[k], path[k + 1])
  /\ \A a, b \in Channels : a # b /\ StepAmong(cycle, n - 1, a, b) =>
       \E k \in 1 .. Len(path) - 1 : path[k] = a /\ path[k + 1] = b

\* One more pair (cascade_cycle_error, the loop).
LEMMA OneMorePair ==
  ASSUME NEW cycle \in Seq(Pairs), NEW n \in 1 .. Len(cycle) - 1,
         NEW path, Collected(path, cycle, n)
  PROVE  Collected(Passing(path, cycle[n + 1][2]), cycle, n + 1)
<1>. DEFINE c == cycle[n + 1][2]
            l == Len(path)
            longer == Append(path, c)
<1>1. /\ path \in Seq(Channels) /\ l \in Nat /\ l >= 1 /\ n \in Nat
      /\ path[1] = cycle[1][2] /\ path[l] = cycle[n][2] /\ c \in Channels
  BY DEF Collected, Pairs
<1>2. \A a, b : StepAmong(cycle, n, a, b) <=>
         StepAmong(cycle, n - 1, a, b) \/ (a = path[l] /\ b = c)
  <2>1. 1 .. n = (1 .. n - 1) \cup {n}
    BY <1>1
  <2>. QED
    BY <1>1, <2>1 DEF StepAmong
<1>3. /\ \A k \in 1 .. l - 1 : path[k] # path[k + 1] /\ StepAmong(cycle, n - 1, path[k], path[k + 1])
      /\ \A a, b \in Channels : a # b /\ StepAmong(cycle, n - 1, a, b) =>
           \E k \in 1 .. l - 1 : path[k] = a /\ path[k + 1] = b
  BY DEF Collected
<1>4. n + 1 - 1 = n
  BY <1>1
<1>. HIDE DEF c
<1>5. CASE path[l] = c
  <2>1. Passing(path, c) = path
    BY <1>1, <1>5 DEF Passing
  <2>2. \A k \in 1 .. l - 1 : path[k] # path[k + 1] /\ StepAmong(cycle, n, path[k], path[k + 1])
    BY <1>2, <1>3
  <2>3. \A a, b \in Channels : a # b /\ StepAmong(cycle, n, a, b) =>
           \E k \in 1 .. l - 1 : path[k] = a /\ path[k + 1] = b
    BY <1>2, <1>3, <1>5
  <2>. QED
    BY <1>1, <1>4, <1>5, <2>1, <2>2, <2>3 DEF Collected, c
<1>6. CASE path[l] # c
  <2>1. Passing(path, c) = longer
    BY <1>1, <1>6 DEF Passing
  <2>2. /\ longer \in Seq(Channels) /\ Len(longer) = l + 1
        /\ \A k \in 1 .. l : longer[k] = path[k]
        /\ longer[l + 1] = c
    BY <1>1
  <2>. HIDE DEF longer
  <2>3. ASSUME NEW k \in 1 .. l
        PROVE  longer[k] # longer[k + 1] /\ StepAmong(cycle, n, longer[k], longer[k + 1])
    <3>1. CASE k = l
      BY <1>1, <1>2, <1>6, <2>2, <3>1
    <3>2. CASE k # l
      <4>1. k \in 1 .. l - 1 /\ k + 1 \in 1 .. l
        BY <1>1, <3>2
      <4>. QED
        BY <1>2, <1>3, <2>2, <4>1
    <3>. QED
      BY <3>1, <3>2
  <2>4. ASSUME NEW a \in Channels, NEW b \in Channels, a # b, StepAmong(cycle, n, a, b)
        PROVE  \E k \in 1 .. l : longer[k] = a /\ longer[k + 1] = b
    <3>1. CASE StepAmong(cycle, n - 1, a, b)
      <4>1. PICK k \in 1 .. l - 1 : path[k] = a /\ path[k + 1] = b
        BY <1>3, <2>4, <3>1
      <4>2. k \in 1 .. l /\ k + 1 \in 1 .. l
        BY <1>1
      <4>. QED
        BY <2>2, <4>1, <4>2
    <3>2. CASE a = path[l] /\ b = c
      <4>1. l \in 1 .. l
        BY <1>1
      <4>2. longer[l] = path[l] /\ longer[l + 1] = c
        BY <2>2, <4>1
      <4>. QED
        BY <3>2, <4>1, <4>2
    <3>. QED
      BY <1>2, <2>4, <3>1, <3>2
  <2>5. longer[1] = cycle[1][2]
    BY <1>1, <2>2
  <2>6. l + 1 - 1 = l
    BY <1>1
  <2>. QED
    BY <1>1, <1>4, <2>1, <2>2, <2>3, <2>4, <2>5, <2>6 DEF Collected, c
<1>. QED
  BY <1>5, <1>6 DEF c

\* So the loop collects the channels of all pairs but the last.
LEMMA AllPairs ==
  ASSUME NEW cycle \in Seq(Pairs), Len(cycle) >= 2
  PROVE  Collected(Passed(cycle)[Len(cycle) - 1], cycle, Len(cycle) - 1)
<1>. DEFINE m == Len(cycle) - 1
            passed == Passed(cycle)
            T == {i \in Nat : i + 1 <= m => Collected(passed[i + 1], cycle, i + 1)}
<1>1. m \in Nat /\ m >= 1
  OBVIOUS
<1>2. PassesOn(passed, cycle)
  BY PairByPair
<1>. HIDE DEF passed
<1>3. passed[0] = << >> /\ \A n \in 1 .. m : passed[n] = Passing(passed[n - 1], cycle[n][2])
  BY <1>2 DEF PassesOn
<1>4. 0 \in T
  <2>1. cycle[1][2] \in Channels
    BY <1>1 DEF Pairs
  <2>2. passed[1] = Passing(<< >>, cycle[1][2])
    <3>1. 1 \in 1 .. m /\ 1 - 1 = 0
      BY <1>1
    <3>. QED
      BY <1>3, <3>1
  <2>3. passed[1] = <<cycle[1][2]>>
    BY <2>2 DEF Passing
  <2>4. Collected(passed[1], cycle, 1)
    <3>1. \A a, b : ~StepAmong(cycle, 1 - 1, a, b)
      BY DEF StepAmong
    <3>. QED
      BY <2>1, <2>3, <3>1 DEF Collected
  <2>. QED
    BY <2>4
<1>5. ASSUME NEW i \in T PROVE i + 1 \in T
  <2>. SUFFICES ASSUME i + 1 + 1 <= m PROVE Collected(passed[i + 1 + 1], cycle, i + 1 + 1)
    BY <1>5
  <2>1. i \in Nat /\ i + 1 <= m /\ Collected(passed[i + 1], cycle, i + 1)
    BY <1>1, <1>5
  <2>2. i + 1 + 1 \in 1 .. m /\ i + 1 + 1 - 1 = i + 1 /\ i + 1 \in 1 .. Len(cycle) - 1
    BY <1>1, <2>1
  <2>3. passed[i + 1 + 1] = Passing(passed[i + 1], cycle[i + 1 + 1][2])
    BY <1>3, <2>2
  <2>. QED
    BY <2>1, <2>2, <2>3, OneMorePair
<1>6. T \in SUBSET Nat
  OBVIOUS
<1>7. m - 1 \in T
  <2>. HIDE DEF T
  <2>1. T = Nat
    BY <1>4, <1>5, <1>6, EveryTurn
  <2>. QED
    BY <1>1, <2>1
<1>8. m - 1 + 1 = m
  BY <1>1
<1>9. Collected(passed[m], cycle, m)
  <2>. HIDE DEF m
  <2>. QED
    BY <1>1, <1>7, <1>8
<1>. QED
  BY <1>9 DEF passed

\* The index after i, round a ring of n (cascade_cycle_error computes it with a
\* remainder).
After(i, n) == IF i = n THEN 1 ELSE i + 1

\* ring is a cycle's channels, n of them: going round it takes steps of the
\* cycle, and all of those that change the channel.
IsRing(ring, n, cycle) ==
  /\ ring \in [1 .. n -> Channels]
  /\ n > 1 =>
       \A i \in 1 .. n : /\ ring[i] # ring[After(i, n)]
                         /\ StepAmong(cycle, Len(cycle) - 1, ring[i], ring[After(i, n)])
  /\ \A a, b \in Channels : a # b /\ StepAmong(cycle, Len(cycle) - 1, a, b) =>
       \E i \in 1 .. n : ring[i] = a /\ ring[After(i, n)] = b

\* What is collected of a cycle is a ring, also when it has come back to the
\* channel it started from (cascade_cycle_error).
LEMMA ChannelsMakeARing ==
  ASSUME NEW cycle \in Seq(Pairs), Len(cycle) >= 2, cycle[1] = cycle[Len(cycle)]
  PROVE  /\ ChannelsPassed(cycle) \in Seq(Channels) /\ Len(ChannelsPassed(cycle)) >= 1
         /\ IsRing(ChannelsPassed(cycle), Len(ChannelsPassed(cycle)), cycle)
<1>. DEFINE m == Len(cycle) - 1
            once == Passed(cycle)[m]
            l == Len(once)
            ring == ChannelsPassed(cycle)
            short == SubSeq(once, 1, l - 1)
<1>1. m \in Nat /\ m >= 1 /\ cycle[m + 1] = cycle[1]
  OBVIOUS
<1>2. Collected(once, cycle, m)
  BY AllPairs
<1>3. ring = IF l > 1 /\ once[1] = once[l] THEN short ELSE once
  BY DEF ChannelsPassed
<1>. HIDE DEF m, once, ring
<1>4. once \in Seq(Channels) /\ l \in Nat /\ l >= 1
  BY <1>2 DEF Collected
<1>5. once \in [1 .. l -> Channels]
  BY <1>4
<1>6. l > 1 => short \in Seq(Channels) /\ Len(short) = l - 1 /\ \A k \in 1 .. l - 1 : short[k] = once[k]
  BY <1>4
<1>7. once[1] = cycle[1][2] /\ once[l] = cycle[m][2]
  BY <1>2 DEF Collected
<1>8. ASSUME NEW k \in 1 .. l - 1
      PROVE  once[k] # once[k + 1] /\ StepAmong(cycle, m - 1, once[k], once[k + 1])
  BY <1>2 DEF Collected
<1>9. ASSUME NEW a \in Channels, NEW b \in Channels, a # b, StepAmong(cycle, m - 1, a, b)
      PROVE  \E k \in 1 .. l - 1 : once[k] = a /\ once[k + 1] = b
  BY <1>2, <1>9 DEF Collected
<1>10. Len(once) = l
  OBVIOUS
<1>. HIDE DEF l, short
<1>11. l \in Nat /\ l >= 1
  BY <1>4
<1>12. \A a, b : StepAmong(cycle, m, a, b) <=>
          StepAmong(cycle, m - 1, a, b) \/ (a = once[l] /\ b = once[1])
  <2>1. 1 .. m = (1 .. m - 1) \cup {m}
    BY <1>1
  <2>2. cycle[m + 1][2] = once[1]
    BY <1>1, <1>7
  <2>. QED
    BY <1>1, <1>7, <2>1, <2>2 DEF StepAmong
<1>13. CASE l = 1
  <2>1. ring = once
    BY <1>3, <1>13
  <2>2. ASSUME NEW a \in Channels, NEW b \in Channels, a # b PROVE ~StepAmong(cycle, m, a, b)
    <3>1. 1 .. l - 1 = {}
      BY <1>13
    <3>2. ~StepAmong(cycle, m - 1, a, b)
      BY <1>9, <2>2, <3>1
    <3>. QED
      BY <1>12, <1>13, <2>2, <3>2
  <2>3. IsRing(once, 1, cycle)
    BY <1>5, <1>13, <2>2 DEF IsRing, m
  <2>. QED
    BY <1>4, <1>10, <1>13, <2>1, <2>3 DEF ring
<1>14. CASE l > 1 /\ once[1] # once[l]
  <2>1. ring = once
    BY <1>3, <1>14
  <2>2. ASSUME NEW i \in 1 .. l
        PROVE  once[i] # once[After(i, l)] /\ StepAmong(cycle, m, once[i], once[After(i, l)])
    <3>1. CASE i = l
      BY <1>12, <1>14, <3>1 DEF After
    <3>2. CASE i # l
      <4>1. i \in 1 .. l - 1 /\ After(i, l) = i + 1
        BY <1>11, <3>2 DEF After
      <4>. QED
        BY <1>8, <1>12, <4>1
    <3>. QED
      BY <3>1, <3>2
  <2>3. ASSUME NEW a \in Channels, NEW b \in Channels, a # b, StepAmong(cycle, m, a, b)
        PROVE  \E i \in 1 .. l : once[i] = a /\ once[After(i, l)] = b
    <3>1. CASE StepAmong(cycle, m - 1, a, b)
      <4>1. PICK k \in 1 .. l - 1 : once[k] = a /\ once[k + 1] = b
        BY <1>9, <2>3, <3>1
      <4>2. k \in 1 .. l /\ After(k, l) = k + 1
        BY <1>11 DEF After
      <4>. QED
        BY <4>1, <4>2
    <3>2. CASE a = once[l] /\ b = once[1]
      <4>1. l \in 1 .. l /\ After(l, l) = 1
        BY <1>11 DEF After
      <4>. QED
        BY <3>2, <4>1
    <3>. QED
      BY <1>12, <2>3, <3>1, <3>2
  <2>4. IsRing(once, l, cycle)
    BY <1>5, <2>2, <2>3 DEF IsRing, m
  <2>. QED
    BY <1>4, <1>10, <2>1, <2>4 DEF ring
<1>15. CASE l > 1 /\ once[1] = once[l]
  <2>. DEFINE n == l - 1
  <2>1. l # 2
    <3>1. SUFFICES ASSUME l = 2 PROVE FALSE
      OBVIOUS
    <3>2. 1 \in 1 .. l - 1 /\ 1 + 1 = l
      BY <3>1
    <3>3. once[1] # once[1 + 1]
      BY <1>8, <3>2
    <3>. QED
      BY <1>15, <3>2, <3>3
  <2>2. n \in Nat /\ n > 1 /\ n + 1 = l
    BY <1>11, <1>15, <2>1
  <2>3. /\ short \in Seq(Channels) /\ Len(short) = n
        /\ \A k \in 1 .. n : short[k] = once[k]
    BY <1>6, <1>15
  <2>4. short \in [1 .. n -> Channels]
    BY <2>2, <2>3
  <2>5. ring = short
    BY <1>3, <1>15
  <2>6. \A k \in 1 .. n : once[k] # once[k + 1] /\ StepAmong(cycle, m - 1, once[k], once[k + 1])
    BY <1>8
  <2>. HIDE DEF n
  <2>7. ASSUME NEW k \in 1 .. n PROVE short[After(k, n)] = once[k + 1]
    <3>1. CASE k = n
      <4>1. After(k, n) = 1 /\ 1 \in 1 .. n
        BY <2>2, <3>1 DEF After
      <4>. QED
        BY <1>15, <2>2, <2>3, <3>1, <4>1
    <3>2. CASE k # n
      <4>1. After(k, n) = k + 1 /\ k + 1 \in 1 .. n
        BY <2>2, <3>2 DEF After
      <4>. QED
        BY <2>3, <4>1
    <3>. QED
      BY <3>1, <3>2
  <2>8. \A k \in 1 .. n : /\ short[k] # short[After(k, n)]
                          /\ StepAmong(cycle, m, short[k], short[After(k, n)])
    BY <1>12, <2>3, <2>6, <2>7
  <2>9. ASSUME NEW a \in Channels, NEW b \in Channels, a # b, StepAmong(cycle, m, a, b)
        PROVE  \E k \in 1 .. n : short[k] = a /\ short[After(k, n)] = b
    <3>1. StepAmong(cycle, m - 1, a, b)
      BY <1>12, <1>15, <2>9
    <3>2. PICK k \in 1 .. l - 1 : once[k] = a /\ once[k + 1] = b
      BY <1>9, <2>9, <3>1
    <3>3. k \in 1 .. n
      BY <3>2 DEF n
    <3>. QED
      BY <2>3, <2>7, <3>2, <3>3
  <2>10. IsRing(short, n, cycle)
    BY <2>4, <2>8, <2>9 DEF IsRing, m
  <2>. QED
    BY <2>2, <2>3, <2>5, <2>10 DEF ring
<1>16. l = 1 \/ l > 1
  BY <1>11
<1>. QED
  BY <1>13, <1>14, <1>15, <1>16

\* Remainders of numbers that go round once.
LEMMA OnceRound ==
  ASSUME NEW n \in Nat \ {0}, NEW x \in 0 .. 2 * n - 1
  PROVE  x % n = IF x < n THEN x ELSE x - n
<1>1. CASE x < n
  BY <1>1
<1>2. CASE x >= n
  BY <1>2
<1>. QED
  BY <1>1, <1>2

\* TurnedBy by first, the j-th of a ring of n stands at this index.
TurnedBy(first, j, n) == ((first + j - 1) % n) + 1

\* Turning starts after the index given, ends with it, and goes round
\* (cascade_cycle_error, rotate_left).
LEMMA TurningRound ==
  ASSUME NEW n \in Nat \ {0}, NEW first \in 1 .. n
  PROVE  /\ \A j \in 1 .. n : TurnedBy(first, j, n) \in 1 .. n
         /\ TurnedBy(first, 1, n) = After(first, n) /\ TurnedBy(first, n, n) = first
         /\ \A j \in 1 .. n - 1 : TurnedBy(first, j + 1, n) = After(TurnedBy(first, j, n), n)
<1>1. ASSUME NEW j \in 1 .. n
      PROVE  TurnedBy(first, j, n) = IF first + j - 1 < n THEN first + j ELSE first + j - n
  <2>. DEFINE x    == first + j - 1
              rest == x % n
  <2>1. x \in 0 .. 2 * n - 1 /\ x = first + j - 1
    OBVIOUS
  <2>2. TurnedBy(first, j, n) = rest + 1
    BY DEF TurnedBy
  <2>. HIDE DEF x
  <2>3. rest = IF x < n THEN x ELSE x - n
    BY <2>1, OnceRound
  <2>. HIDE DEF rest
  <2>. QED
    BY <2>1, <2>2, <2>3
<1>2. ASSUME NEW j \in 1 .. n PROVE TurnedBy(first, j, n) \in 1 .. n
  BY <1>1
<1>3. TurnedBy(first, 1, n) = After(first, n)
  <2>1. 1 \in 1 .. n
    OBVIOUS
  <2>. QED
    BY <1>1, <2>1 DEF After
<1>4. TurnedBy(first, n, n) = first
  <2>1. n \in 1 .. n
    OBVIOUS
  <2>. QED
    BY <1>1, <2>1
<1>5. ASSUME NEW j \in 1 .. n - 1
      PROVE  TurnedBy(first, j + 1, n) = After(TurnedBy(first, j, n), n)
  <2>1. j \in 1 .. n /\ j + 1 \in 1 .. n
    OBVIOUS
  <2>. QED
    BY <1>1, <2>1 DEF After
<1>. QED
  BY <1>2, <1>3, <1>4, <1>5

\* Where a cycle goes from one channel to another, the path made of it begins
\* at the second, ends at the first and goes by steps of the cycle
\* (cascade_cycle_error).
LEMMA PathTurned ==
  ASSUME NEW cycle \in Seq(Pairs), Len(cycle) >= 2, cycle[1] = cycle[Len(cycle)],
         NEW from \in Channels, NEW to \in Channels, from # to,
         StepAmong(cycle, Len(cycle) - 1, from, to)
  PROVE  LET path == CascadeCycle(from, to, cycle)
         IN  /\ path[1] = to /\ path[Len(path)] = from
             /\ \A i \in 1 .. Len(path) - 1 :
                  path[i] # path[i + 1] /\ StepAmong(cycle, Len(cycle) - 1, path[i], path[i + 1])
<1>. DEFINE ring  == ChannelsPassed(cycle)
            n     == Len(ring)
            steps == {i \in 1..n : ring[i] = from /\ ring[(i % n) + 1] = to}
            first == CHOOSE i \in steps : \A j \in steps : i <= j
            round == [j \in 1..n |-> ring[((first + j - 1) % n) + 1]]
            path  == CascadeCycle(from, to, cycle)
<1>1. path = IF steps = {} THEN ring ELSE round
  BY DEF CascadeCycle
<1>2. ring \in Seq(Channels) /\ n >= 1 /\ IsRing(ring, n, cycle)
  BY ChannelsMakeARing
<1>. HIDE DEF ring, path
<1>3. n \in Nat \ {0}
  BY <1>2
<1>. HIDE DEF n
<1>4. \A i \in 1 .. n : (i % n) + 1 = After(i, n)
  <2>. SUFFICES ASSUME NEW i \in 1 .. n PROVE (i % n) + 1 = After(i, n)
    OBVIOUS
  <2>1. TurnedBy(i, 1, n) = After(i, n)
    BY <1>3, TurningRound
  <2>2. i + 1 - 1 = i
    BY <1>3
  <2>. QED
    BY <2>1, <2>2 DEF TurnedBy
<1>5. steps = {i \in 1 .. n : ring[i] = from /\ ring[After(i, n)] = to}
  BY <1>4
<1>6. steps # {}
  BY <1>2, <1>5 DEF IsRing
<1>7. first \in 1 .. n /\ ring[first] = from /\ ring[After(first, n)] = to
  <2>1. steps \in SUBSET Nat
    BY <1>3
  <2>2. \E i \in steps : \A j \in steps : i <= j
    <3>. HIDE DEF steps
    <3>. QED
      BY <1>6, <2>1, LeastNumber
  <2>3. first \in steps
    <3>. HIDE DEF steps
    <3>. QED
      BY <2>2
  <2>. HIDE DEF first
  <2>4. first \in {i \in 1 .. n : ring[i] = from /\ ring[After(i, n)] = to}
    <3>. HIDE DEF steps
    <3>. QED
      BY <1>5, <2>3
  <2>. QED
    BY <2>4
<1>8. n > 1
  BY <1>3, <1>7 DEF After
<1>9. path = round
  BY <1>1, <1>6
<1>. HIDE DEF first, steps
<1>10. round = [j \in 1 .. n |-> ring[TurnedBy(first, j, n)]]
  BY DEF TurnedBy
<1>11. /\ \A j \in 1 .. n : TurnedBy(first, j, n) \in 1 .. n
       /\ TurnedBy(first, 1, n) = After(first, n) /\ TurnedBy(first, n, n) = first
       /\ \A j \in 1 .. n - 1 : TurnedBy(first, j + 1, n) = After(TurnedBy(first, j, n), n)
  BY <1>3, <1>7, TurningRound
<1>. HIDE DEF round
<1>12. Len(round) = n
  BY <1>3, <1>10
<1>13. round[1] = to /\ round[n] = from
  <2>1. 1 \in 1 .. n /\ n \in 1 .. n
    BY <1>3
  <2>. QED
    BY <1>7, <1>10, <1>11, <2>1
<1>14. ASSUME NEW i \in 1 .. n - 1
       PROVE  round[i] # round[i + 1] /\ StepAmong(cycle, Len(cycle) - 1, round[i], round[i + 1])
  <2>. DEFINE x == TurnedBy(first, i, n)
  <2>1. i \in 1 .. n /\ i + 1 \in 1 .. n
    BY <1>3
  <2>2. x \in 1 .. n /\ round[i] = ring[x] /\ round[i + 1] = ring[After(x, n)]
    BY <1>10, <1>11, <2>1
  <2>. HIDE DEF x
  <2>. QED
    BY <1>2, <1>8, <2>2 DEF IsRing
<1>15. /\ round[1] = to /\ round[Len(round)] = from
       /\ \A i \in 1 .. Len(round) - 1 :
            round[i] # round[i + 1] /\ StepAmong(cycle, Len(cycle) - 1, round[i], round[i + 1])
  BY <1>12, <1>13, <1>14
<1>. QED
  BY <1>9, <1>15 DEF path

\* Where no cycle was, the one that a new cascade closes goes through it
\* (add_cascade).
LEMMA CycleIsNew ==
  ASSUME Inv, guarded, job = NoJob,
         NEW from \in Channels, NEW to \in Channels,
         NEW added, added = [cascades EXCEPT ![from] = @ \cup {to}],
         AreRules(dependencies, added, cross),
         NEW cycle, IsCycle(Flows(dependencies, added, cross), cycle),
         <<cycle[1], cycle[2]>> \in Entries(cross.forward)
  PROVE  StepAmong(cycle, Len(cycle) - 1, from, to)
<1>. DEFINE flows == CurrentFlows
            m == Len(cycle) - 1
            chain == [i \in 1 .. m |-> cycle[i + 1]]
<1>1. AreRules(dependencies, cascades, cross) /\ cascades \in [Channels -> SUBSET Channels]
  BY DEF Inv, RulesInv, AreRules
<1>2. Acyclic(flows)
  BY DEF Inv, GuardedInv, NoJob
<1>3. /\ flows \in [Pairs -> SUBSET Pairs]
      /\ \A p, q \in Pairs :
           q \in flows[p] <=>
             \/ q[2] = p[2] /\ p[1] \in dependencies[p[2]][q[1]]
             \/ q[1] = p[1] /\ q[2] \in cascades[p[2]]
             \/ <<p, q>> \in Entries(cross.forward)
  BY <1>1, FlowMember DEF CurrentFlows
<1>4. /\ cycle \in Seq(Pairs) /\ m \in Nat \ {0} /\ cycle[m + 1] = cycle[1]
      /\ \A i \in 1 .. m : cycle[i + 1] \in Flows(dependencies, added, cross)[cycle[i]]
  <2>1. /\ cycle \in Seq(Pairs) /\ Len(cycle) >= 2 /\ cycle[1] = cycle[Len(cycle)]
        /\ \A i \in 1 .. m : cycle[i + 1] \in Flows(dependencies, added, cross)[cycle[i]]
    BY DEF IsCycle
  <2>2. Len(cycle) \in Nat /\ m + 1 = Len(cycle) /\ m \in Nat \ {0}
    BY <2>1
  <2>. QED
    BY <2>1, <2>2
<1>5. \A i \in 1 .. m + 1 : cycle[i] \in Pairs
  BY <1>4
<1>. HIDE DEF flows, m
<1>6. SUFFICES ASSUME ~StepAmong(cycle, m, from, to) PROVE FALSE
  BY DEF m
<1>7. ASSUME NEW i \in 1 .. m PROVE cycle[i + 1] \in flows[cycle[i]]
  <2>. DEFINE p == cycle[i]
              q == cycle[i + 1]
  <2>1. i \in 1 .. m + 1 /\ i + 1 \in 1 .. m + 1
    BY <1>4
  <2>2. p \in Pairs /\ q \in Pairs /\ q \in Flows(dependencies, added, cross)[p]
    BY <1>4, <1>5, <2>1
  <2>3. ~(p[2] = from /\ q[2] = to)
    BY <1>6 DEF StepAmong
  <2>. HIDE DEF p, q
  <2>4. \/ q[2] = p[2] /\ p[1] \in dependencies[p[2]][q[1]]
        \/ q[1] = p[1] /\ q[2] \in added[p[2]]
        \/ <<p, q>> \in Entries(cross.forward)
    BY <2>2, FlowMember
  <2>5. p[2] \in Channels
    BY <2>2 DEF Pairs
  <2>6. q[2] \in added[p[2]] => q[2] \in cascades[p[2]]
    BY <1>1, <2>3, <2>5
  <2>7. q \in flows[p]
    BY <1>3, <2>2, <2>4, <2>6
  <2>. QED
    BY <2>7 DEF p, q
<1>8. chain \in [1 .. m -> Pairs]
  BY <1>4, <1>5
<1>9. LeadsBy(flows, chain, m, cycle[2], cycle[1])
  <2>1. chain[1] = cycle[2] /\ chain[m] = cycle[1]
    BY <1>4
  <2>2. ASSUME NEW i \in 1 .. m - 1 PROVE chain[i + 1] \in flows[chain[i]]
    <3>1. i \in 1 .. m /\ i + 1 \in 1 .. m
      BY <1>4
    <3>2. chain[i] = cycle[i + 1] /\ chain[i + 1] = cycle[i + 1 + 1]
      BY <3>1
    <3>. QED
      BY <1>7, <3>1, <3>2
  <2>. HIDE DEF chain
  <2>. QED
    BY <2>1, <2>2 DEF LeadsBy
<1>. HIDE DEF chain
<1>10. cycle[1] \in Pairs /\ cycle[2] \in Pairs /\ cycle[2] \in flows[cycle[1]]
  <2>1. 1 \in 1 .. m /\ 1 \in 1 .. m + 1 /\ 2 \in 1 .. m + 1 /\ 1 + 1 = 2
    BY <1>4
  <2>. QED
    BY <1>5, <1>7, <2>1
<1>11. Reaches(flows, cycle[2], cycle[1])
  BY <1>3, <1>4, <1>8, <1>9, <1>10, ChainLeads
<1>. QED
  BY <1>2, <1>3, <1>10, <1>11 DEF Acyclic

\* The error of a refused cascade says why: its path goes from the cascade's
\* target back to its source, by channels that lead to one another and never
\* twice the same in a row, whichever cycle the search has found (tracker.rs,
\* cascade_cycle_error).
LEMMA CascadeErrorsAreExplained ==
  ASSUME Inv, guarded, NEW from \in Channels, NEW to \in Channels, AddCascade(from, to),
         NEW added, added = [cascades EXCEPT ![from] = @ \cup {to}],
         ~Reaches(cascades, to, from),
         NEW cycle \in FoundCycles(ReachOf(added, cross), added)
  PROVE  LET path == CascadeCycle(from, to, cycle)
         IN  /\ path[1] = to /\ path[Len(path)] = from
             /\ \A i \in 1..(Len(path) - 1) :
                  /\ path[i] # path[i + 1]
                  /\ path[i + 1] \in ChannelArrows(added, cross)[path[i]]
<1>. DEFINE path == CascadeCycle(from, to, cycle)
            m    == Len(cycle) - 1
            flows == Flows(dependencies, added, cross)
<1>1. job = NoJob
  BY DEF AddCascade, Free
<1>2. AreRules(dependencies, added, cross)
  BY DEF Inv, RulesInv, AreRules
<1>3. IsCycle(flows, cycle) /\ <<cycle[1], cycle[2]>> \in Entries(cross.forward)
  BY <1>2, FoundIsCycle
<1>4. StepAmong(cycle, m, from, to)
  BY <1>1, <1>2, <1>3, CycleIsNew
<1>5. from # to
  BY ReachesSelf
<1>6. /\ cycle \in Seq(Pairs) /\ Len(cycle) >= 2 /\ cycle[1] = cycle[Len(cycle)]
      /\ \A j \in 1 .. m : cycle[j + 1] \in flows[cycle[j]]
  BY <1>3 DEF IsCycle
<1>7. /\ path[1] = to /\ path[Len(path)] = from
      /\ \A i \in 1 .. Len(path) - 1 :
           path[i] # path[i + 1] /\ StepAmong(cycle, m, path[i], path[i + 1])
  BY <1>4, <1>5, <1>6, PathTurned
<1>8. ASSUME NEW a, NEW b, a # b, StepAmong(cycle, m, a, b)
      PROVE  b \in ChannelArrows(added, cross)[a]
  <2>1. PICK j \in 1 .. m : a = cycle[j][2] /\ b = cycle[j + 1][2]
    BY <1>8 DEF StepAmong
  <2>2. cycle[j] \in Pairs /\ cycle[j + 1] \in Pairs
    BY <1>6
  <2>. HIDE DEF m, flows
  <2>3. cycle[j + 1] \in flows[cycle[j]]
    BY <1>6
  <2>. QED
    BY <1>2, <1>8, <2>1, <2>2, <2>3, ArrowMember DEF flows
<1>. HIDE DEF path, m
<1>. QED
  BY <1>7, <1>8 DEF path

\* Where no cycle is allowed none is let in by a cascade, and one that is
\* refused while there is none is told the cycle it would close (tracker.rs,
\* add_cascade).
THEOREM CascadesAreDecided == Spec => CascadesDecided
<1>. DEFINE Explained ==
       \A from, to \in Channels :
         /\ guarded /\ outcome'.tag = "CycleError" /\ AddCascade(from, to)
         => LET added == [cascades EXCEPT ![from] = @ \cup {to}]
                found == IF Reaches(cascades, to, from) THEN {}
                         ELSE FoundCycles(ReachOf(added, cross), added)
            IN  \A cycle \in found :
                  LET path == CascadeCycle(from, to, cycle) IN
                  /\ path[1] = to /\ path[Len(path)] = from
                  /\ \A i \in 1..(Len(path) - 1) :
                       /\ path[i] # path[i + 1]
                       /\ path[i + 1] \in ChannelArrows(added, cross)[path[i]]
<1>1. ASSUME Inv PROVE Explained
  BY <1>1, CascadeErrorsAreExplained
<1>2. Inv /\ [Next]_vars => [Explained]_vars
  <2>. HIDE DEF Explained
  <2>. QED
    BY <1>1
<1>3. Spec => CascadeErrorsExplained
  BY <1>2, InvHolds, PTL DEF Spec, CascadeErrorsExplained
<1>. QED
  BY <1>3, CascadesAreJudged, PTL DEF CascadesDecided
=============================================================================
