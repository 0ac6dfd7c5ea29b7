--------------------------- MODULE CrossEdgeTables --------------------------
(***************************************************************************)
(* The value a CrossChannelEdges (cross_channel.rs) holds and what each of *)
(* its operations makes of it, for the modules that keep one.              *)
(*                                                                         *)
(* An edge leads from one (key, channel) pair to another, <<from, to>>.    *)
(* The struct keeps each edge twice, in a map from pairs to what they lead *)
(* to and in its reverse, and counts what the two maps hold: the entries   *)
(* of `forward` per channel, and the edges per pair of channels.           *)
(*                                                                         *)
(* A list is modelled as a set: its order is unspecified, and an entry     *)
(* listed twice would first need the two maps to disagree on it.  An empty *)
(* list and a missing one are different values, as they are in the code.   *)
(* A counter is an integer, so that taking one too many shows.             *)
(***************************************************************************)
EXTENDS Integers, FiniteSets

CONSTANTS
  Keys,     \* the keys in use
  Channels  \* the channels in use

ASSUME TablesAssumption == IsFiniteSet(Keys) /\ IsFiniteSet(Channels)

Pairs == Keys \X Channels

NoEdges ==
  [forward    |-> [p \in {} |-> {}],
   reverse    |-> [p \in {} |-> {}],
   sources    |-> [c \in Channels |-> 0],
   pairs      |-> [c \in Channels |-> [d \in Channels |-> 0]],
   generation |-> 0]

-----------------------------------------------------------------------------
(* The maps. *)

\* The list of p, empty if there is none.
Listed(map, p) == IF p \in DOMAIN map THEN map[p] ELSE {}

\* The entries of a map, and of its reverse.
Entries(map) == UNION {{p} \X map[p] : p \in DOMAIN map}
Flipped(entries) == {<<e[2], e[1]>> : e \in entries}

\* Entries pushed, their lists created where missing.
Pushed(map, entries) ==
  [p \in DOMAIN map \cup {e[1] : e \in entries} |->
     Listed(map, p) \cup {q \in Pairs : <<p, q>> \in entries}]

\* Mutant: a list that became empty stays.
PulledOnly(map, entries) == [p \in DOMAIN map |-> {q \in map[p] : <<p, q>> \notin entries}]

\* Entries taken out, and the lists this leaves empty with them.
Pulled(map, entries) ==
  LET left(p) == {q \in map[p] : <<p, q>> \notin entries}
      emptied == {p \in DOMAIN map : left(p) = {} /\ \E e \in entries : e[1] = p}
  IN  [p \in DOMAIN map \ emptied |-> left(p)]

\* The lists of some pairs taken out whole.
Dropped(map, ps) == [p \in DOMAIN map \ ps |-> map[p]]

-----------------------------------------------------------------------------
(* The counters. *)

InChannel(ps, c) == {p \in ps : p[2] = c}
Between(entries, c, d) == {e \in entries : e[1][2] = c /\ e[2][2] = d}

\* `sources`, with entries for some pairs more or fewer in `forward`.
WithSources(sources, ps) == [c \in Channels |-> sources[c] + Cardinality(InChannel(ps, c))]
WithoutSources(sources, ps) == [c \in Channels |-> sources[c] - Cardinality(InChannel(ps, c))]

Tally(entries) ==
  [c \in Channels |-> [d \in Channels |-> Cardinality(Between(entries, c, d))]]

\* How many pairs of channels have a count of zero in one table and not in
\* the other: the changes of generation on the way between the two.
Turned(pairs, after) ==
  Cardinality({cd \in Channels \X Channels : (pairs[cd[1]][cd[2]] = 0) # (after[cd[1]][cd[2]] = 0)})

\* Mutant: the generation only follows a pair's first edge.
UncountedQuietly(edges, entries) ==
  [edges EXCEPT !.pairs = [c \in Channels |-> [d \in Channels |->
                             @[c][d] - Tally(entries)[c][d]]]]

\* PairCounts::added and ::removed, for each of the entries.
Counted(edges, entries) ==
  LET after == [c \in Channels |-> [d \in Channels |->
                  edges.pairs[c][d] + Tally(entries)[c][d]]]
  IN  [edges EXCEPT !.pairs = after, !.generation = @ + Turned(edges.pairs, after)]

Uncounted(edges, entries) ==
  LET after == [c \in Channels |-> [d \in Channels |->
                  edges.pairs[c][d] - Tally(entries)[c][d]]]
  IN  [edges EXCEPT !.pairs = after, !.generation = @ + Turned(edges.pairs, after)]

-----------------------------------------------------------------------------
(* The queries. *)

IsEmpty(edges) == DOMAIN edges.forward = {}

\* Mutant: any edge of the channel counts, in either direction.
HasEdgesIn(edges, c) == \E d \in Channels : edges.pairs[c][d] > 0 \/ edges.pairs[d][c] > 0

\* has_sources_in and source_channels ask the counters, not the maps.
HasSourcesIn(edges, c) == edges.sources[c] > 0
SourceChannels(edges) == {c \in Channels : HasSourcesIn(edges, c)}
ChannelPairs(edges) == {cd \in Channels \X Channels : edges.pairs[cd[1]][cd[2]] > 0}

Dependents(edges, p) == Listed(edges.forward, p)
Dependencies(edges, p) == Listed(edges.reverse, p)

-----------------------------------------------------------------------------
(* The operations. *)

\* add_edge, for each of the targets: the source is counted if `forward` has
\* no list for it yet, and only an edge that list lacks goes further.
Linked(edges, from, targets) ==
  LET new == {from} \X (targets \ Listed(edges.forward, from)) IN
  [Counted(edges, new) EXCEPT
     !.forward = Pushed(@, new),
     !.reverse = Pushed(@, Flipped(new)),
     !.sources = IF targets = {} \/ from \in DOMAIN edges.forward
                 THEN @ ELSE WithSources(@, {from})]

\* remove_edge: nothing unless `forward` lists it.
Unlinked(edges, from, to) ==
  LET entry == {<<from, to>>}
      left  == Pulled(edges.forward, entry)
  IN  IF to \notin Listed(edges.forward, from) THEN edges
      ELSE [Uncounted(edges, entry) EXCEPT
              !.forward = left,
              !.reverse = Pulled(@, Flipped(entry)),
              !.sources = IF from \in DOMAIN left THEN @ ELSE WithoutSources(@, {from})]

\* clear_dependents, for each of the pairs.
WithoutDependents(edges, froms) ==
  LET gone == {e \in Entries(edges.forward) : e[1] \in froms} IN
  [Uncounted(edges, gone) EXCEPT
     !.forward = Dropped(@, froms),
     !.reverse = Pulled(@, Flipped(gone)),
     !.sources = WithoutSources(@, froms \cap DOMAIN edges.forward)]

\* Mutant: a source that lost its last edge stays counted.
WithoutDependenciesUncounted(edges, tos) ==
  LET gone == Flipped({e \in Entries(edges.reverse) : e[1] \in tos}) IN
  [Uncounted(edges, gone \cap Entries(edges.forward)) EXCEPT
     !.forward = Pulled(@, gone),
     !.reverse = Dropped(@, tos)]

\* clear_dependencies, for each of the pairs: an edge is counted out if
\* `forward` has it too, a source when its list is left empty.
WithoutDependencies(edges, tos) ==
  LET gone == Flipped({e \in Entries(edges.reverse) : e[1] \in tos})
      left == Pulled(edges.forward, gone)
  IN  [Uncounted(edges, gone \cap Entries(edges.forward)) EXCEPT
         !.forward = left,
         !.reverse = Dropped(@, tos),
         !.sources = WithoutSources(@, DOMAIN edges.forward \ DOMAIN left)]

\* replace_dependents: everything out and in again, unless nothing changes.
Relinked(edges, from, targets) ==
  IF Listed(edges.forward, from) = targets THEN edges
  ELSE Linked(WithoutDependents(edges, {from}), from, targets)

\* Mutant: only the first pass.
WithoutKeyOneWay(edges, key) == WithoutDependents(edges, {key} \X Channels)

\* Mutant: an edge from the key to itself is counted out by both passes.
WithoutKeyTwice(edges, key) ==
  LET ps   == {key} \X Channels
      loops == {e \in Entries(edges.forward) : e[1] \in ps /\ e[2] \in ps}
  IN  Uncounted(WithoutDependencies(WithoutDependents(edges, ps), ps), loops)

\* remove_key: the edges out of the key, then those still leading to it.
WithoutKey(edges, key) ==
  LET ps == {key} \X Channels IN WithoutDependencies(WithoutDependents(edges, ps), ps)

=============================================================================
