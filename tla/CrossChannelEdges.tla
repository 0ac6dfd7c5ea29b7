-------------------------- MODULE CrossChannelEdges -------------------------
(***************************************************************************)
(* CrossChannelEdges (cross_channel.rs) under every sequence of calls: the *)
(* two maps of edges, their counters and the generation that tells a cache *)
(* of channel-level facts when to be thrown away.  Each call is one step,  *)
(* and returns before the next is made.                                    *)
(*                                                                         *)
(* CrossChannelGuard keeps such a struct too, and CrossChannelProofs is    *)
(* about both: hence names of its own for the parts of the specification   *)
(* (EdgesInit, EdgesNext, EdgesSpec).                                      *)
(***************************************************************************)
EXTENDS CrossEdgeTables

CONSTANTS
  MaxEdges,       \* bound: edges that exist at a time
  LastGeneration  \* bound: the generation after which no call is made

ASSUME EdgesAssumption == MaxEdges \in Nat /\ LastGeneration \in Nat

VARIABLES
  table,    \* the struct
  returned  \* what the last call returned

edgesVars == <<table, returned>>

-----------------------------------------------------------------------------
Bool(b) == IF b THEN "true" ELSE "false"

\* The edges, as edges() lists them.
Edges == Entries(table.forward)

EdgesInit == table = NoEdges /\ returned = "nothing"

MayCall == table.generation < LastGeneration

AddEdge(from, to) ==
  /\ MayCall
  /\ Cardinality(Edges) < MaxEdges
  /\ table' = Linked(table, from, {to})
  /\ returned' = Bool(to \notin Listed(table.forward, from))

ReplaceDependents(from, targets) ==
  /\ MayCall
  /\ Cardinality(targets \cup Edges) <= MaxEdges
  /\ table' = Relinked(table, from, targets)
  /\ returned' = Bool(Listed(table.forward, from) # targets)

\* Mutant: the ends are swapped.
RemoveEdgeSwapped(from, to) ==
  /\ MayCall
  /\ table' = Unlinked(table, to, from)
  /\ returned' = Bool(from \in Listed(table.forward, to))

RemoveEdge(from, to) ==
  /\ MayCall
  /\ table' = Unlinked(table, from, to)
  /\ returned' = Bool(to \in Listed(table.forward, from))

ClearDependents(from) ==
  /\ MayCall
  /\ table' = WithoutDependents(table, {from})
  /\ returned' = Bool(from \in DOMAIN table.forward)

ClearDependencies(to) ==
  /\ MayCall
  /\ table' = WithoutDependencies(table, {to})
  /\ returned' = Bool(to \in DOMAIN table.reverse)

RemoveKeyEdges(key) ==
  /\ MayCall
  /\ table' = WithoutKey(table, key)
  /\ returned' = "nothing"

EdgesNext ==
  \/ \E from, to \in Pairs : AddEdge(from, to) \/ RemoveEdge(from, to)
  \/ \E from \in Pairs, targets \in SUBSET Pairs : ReplaceDependents(from, targets)
  \/ \E p \in Pairs : ClearDependents(p) \/ ClearDependencies(p)
  \/ \E key \in Keys : RemoveKeyEdges(key)

EdgesSpec == EdgesInit /\ [][EdgesNext]_edgesVars

-----------------------------------------------------------------------------
(* Properties. *)

\* Every field keeps the type it has in the struct.  The counters are
\* unsigned: one decrement too many wraps, or panics in PairCounts::removed.
EdgesTypeOK ==
  /\ DOMAIN table.forward \subseteq Pairs /\ DOMAIN table.reverse \subseteq Pairs
  /\ Entries(table.forward) \subseteq Pairs \X Pairs
  /\ Entries(table.reverse) \subseteq Pairs \X Pairs
  /\ table.sources \in [Channels -> Nat]
  /\ table.pairs \in [Channels -> [Channels -> Nat]]
  /\ table.generation \in Nat
  /\ returned \in {"true", "false", "nothing"}

\* The two maps hold the same edges and no empty list, so that is_empty and
\* clear_dependents, which ask whether there is an entry, answer truly, and a
\* removal that starts at either end finds all there is.
MapsAgree ==
  /\ Entries(table.reverse) = Flipped(Entries(table.forward))
  /\ \A p \in DOMAIN table.forward : table.forward[p] # {}
  /\ \A p \in DOMAIN table.reverse : table.reverse[p] # {}

\* The counters say what the maps hold.  Marks and drains ask has_sources_in
\* whether an edge leaves a channel before they look for one: a count that
\* stays at zero loses invalidation, one that stays above it costs the fast
\* path for good.
CountersExact ==
  \A c \in Channels :
    /\ table.sources[c] = Cardinality(InChannel({e[1] : e \in Edges}, c))
    /\ \A d \in Channels : table.pairs[c][d] = Cardinality(Between(Edges, c, d))

\* Whatever calls came before, the queries tell of the edges: those that ask
\* the counters (has_sources_in, channel_pairs), those that ask for an entry
\* (is_empty), and those that look from the far end (dependencies).
QueriesAnswer ==
  /\ IsEmpty(table) <=> Edges = {}
  /\ \A c \in Channels : HasSourcesIn(table, c) <=> \E e \in Edges : e[1][2] = c
  /\ SourceChannels(table) = {e[1][2] : e \in Edges}
  /\ ChannelPairs(table) = {<<e[1][2], e[2][2]>> : e \in Edges}
  /\ \A p, q \in Pairs :
       /\ q \in Dependents(table, p) <=> <<p, q>> \in Edges
       /\ p \in Dependencies(table, q) <=> <<p, q>> \in Edges

\* No counter is decremented once too often, and every query, be it answered
\* from a counter or from a map, answers by the edges there are.
CountersServe == EdgesTypeOK /\ CountersExact /\ QueriesAnswer

\* No two states with the same generation list different channel pairs: a
\* call that changes them, in whatever way it does, moves the generation on,
\* and none takes it back (cross_channel.rs, pair_generation).
GenerationTellsPairs ==
  [][/\ table'.generation >= table.generation
     /\ ChannelPairs(table') # ChannelPairs(table) => table'.generation > table.generation]_edgesVars

Contract == INSTANCE CrossEdgesContract WITH edges <- Edges

\* Every call has the effect on the set of edges, and returns the value, that
\* its documentation promises: replace_dependents answers whether the set
\* changed, the clears whether there was an edge to remove, and remove_key
\* leaves no edge of the key in either direction and every other edge alone.
ImplementsContract == Contract!Spec

\* And they are the effect and the value that belong to the very arguments of
\* the call: not those of the opposite edge, nor of one that was there before.
KeepsToArguments ==
  /\ \A from, to \in Pairs :
       /\ AddEdge(from, to) => Contract!Add(from, to)
       /\ RemoveEdge(from, to) => Contract!Remove(from, to)
  /\ \A from \in Pairs, targets \in SUBSET Pairs :
       ReplaceDependents(from, targets) => Contract!Replace(from, targets)
  /\ \A p \in Pairs :
       /\ ClearDependents(p) => Contract!ClearDependents(p)
       /\ ClearDependencies(p) => Contract!ClearDependencies(p)
  /\ \A key \in Keys : RemoveKeyEdges(key) => Contract!RemoveKey(key)

CallsKeepToArguments == [][KeepsToArguments]_edgesVars

=============================================================================
