----------------------------- MODULE Traversals ------------------------------
(***************************************************************************)
(* The walks over one channel's edges that keep no state in the graph:     *)
(* transitive_dependents and for_each_transitive_dependent, which          *)
(* EagerPolicy marks with, its traced variant, and dependency_path.  A     *)
(* walk hands keys to a callback one by one; a callback that unwinds       *)
(* leaves the TraversalScratch as it is, to be used by a later walk.       *)
(*                                                                         *)
(* The visited set is a KeySet, the container `table` of AdaptiveTables.   *)
(* The stack is a set: a key pushed twice is popped twice in the code, the *)
(* second time to no effect, and every order of popping is explored.       *)
(***************************************************************************)
EXTENDS AdaptiveTables, Sequences, Reachability

CONSTANT MaxEdges  \* bound: edges of the graph

VARIABLES
  dependents,  \* dependents[k]: the keys that depend on k; fixed
  stack,       \* the stack of the walk, or of the scratch it left behind
  walk         \* the walk in progress

walkVars == <<dependents, stack, walk>>
vars == <<table, dependents, stack, walk>>

Nowhere == [phase |-> "none"]

\* Edges to choose graphs from; no key depends on itself.
Edges == {e \in Keys \X Keys : e[1] # e[2]}

Graphs == {[k \in Keys |-> {d \in Keys : <<k, d>> \in chosen}] :
             chosen \in {S \in SUBSET Edges : Cardinality(S) <= MaxEdges}}

\* The graph is that of a walk; other tables come without one.
Init ==
  /\ stack = {} /\ walk = Nowhere
  /\ \/ table = EmptyKeySet /\ dependents \in Graphs
     \/ /\ dependents = [k \in Keys |-> {}]
        /\ table \in {EmptyPairSet} \cup {InDegreesFor(listed) : listed \in SUBSET Keys}

Idle == walk = Nowhere /\ table.kind = "KeySet"

-----------------------------------------------------------------------------
(* TraversalScratch. *)

\* Mutant: the keys of the last walk count as visited.
ResetStack(visited) == visited

\* reset: the visited set of a scratch that is used again.
Reset(visited) == KeySetClear(visited)

\* A new walk owns its visited set, or is lent that of a scratch and resets
\* it first.  A scratch may be new, too.
Starting(reuse) == IF reuse THEN Reset(table) ELSE EmptyKeySet

-----------------------------------------------------------------------------
(* transitive_dependents, for_each_transitive_dependent. *)

\* Mutant: what an abandoned walk left on the stack is walked, too.
BeginVisitKeepingStack(root, reuse) ==
  /\ Idle
  /\ table' = Starting(reuse)
  /\ stack' = IF reuse THEN stack \cup dependents[root] ELSE dependents[root]
  /\ walk' = [phase |-> "visit", root |-> root, met |-> {}]
  /\ UNCHANGED dependents

BeginVisit(root, reuse) ==
  /\ Idle
  /\ table' = Starting(reuse)
  /\ stack' = dependents[root]
  /\ walk' = [phase |-> "visit", root |-> root, met |-> {}]
  /\ UNCHANGED dependents

\* The iterator has a visited set and a stack of its own.
TransitiveDependents(root) == BeginVisit(root, FALSE)

\* EagerPolicy::propagate_with_scratch: marks what the callback is given.
PropagateWithScratch(root) == BeginVisit(root, TRUE)

Visit(k) ==
  LET inserted == KeySetInsert(table, k) IN
  /\ walk.phase = "visit" /\ k \in stack
  /\ table' = inserted.set
  /\ stack' = IF inserted.fresh THEN (stack \ {k}) \cup dependents[k] ELSE stack \ {k}
  /\ walk' = IF inserted.fresh THEN [walk EXCEPT !.met = @ \cup {k}] ELSE walk
  /\ UNCHANGED dependents

-----------------------------------------------------------------------------
(* EagerPolicy::propagate_with_trace: reports where each key was met from. *)

BeginTrace(root, reuse) ==
  /\ Idle
  /\ table' = KeySetInsert(Starting(reuse), root).set
  /\ stack' = {root}
  /\ walk' = [phase |-> "trace", root |-> root, met |-> {root}, at |-> {},
              todo |-> {}, source |-> [k \in {} |-> root]]
  /\ UNCHANGED dependents

\* The outer loop takes a key off the stack ...
TraceFrom(k) ==
  /\ walk.phase = "trace" /\ walk.todo = {}
  /\ k \in stack
  /\ stack' = stack \ {k}
  /\ walk' = [walk EXCEPT !.at = {k}, !.todo = dependents[k]]
  /\ UNCHANGED <<table, dependents>>

\* Mutant: reports the last source.
TraceAgain(k) ==
  LET inserted == KeySetInsert(table, k) IN
  /\ walk.phase = "trace" /\ k \in walk.todo
  /\ table' = inserted.set
  /\ stack' = IF inserted.fresh THEN stack \cup {k} ELSE stack
  /\ walk' = [walk EXCEPT !.todo = @ \ {k}, !.met = @ \cup {k},
                          !.source = Entered(@, k, CHOOSE from \in walk.at : TRUE)]
  /\ UNCHANGED dependents

\* Mutant: blames the root for everything.
TraceToRoot(k) ==
  LET inserted == KeySetInsert(table, k) IN
  /\ walk.phase = "trace" /\ k \in walk.todo
  /\ table' = inserted.set
  /\ stack' = IF inserted.fresh THEN stack \cup {k} ELSE stack
  /\ walk' = IF inserted.fresh
             THEN [walk EXCEPT !.todo = @ \ {k}, !.met = @ \cup {k},
                               !.source = Entered(@, k, walk.root)]
             ELSE [walk EXCEPT !.todo = @ \ {k}]
  /\ UNCHANGED dependents

\* ... and the inner one meets its dependents.
Trace(k) ==
  LET inserted == KeySetInsert(table, k) IN
  /\ walk.phase = "trace" /\ k \in walk.todo
  /\ table' = inserted.set
  /\ stack' = IF inserted.fresh THEN stack \cup {k} ELSE stack
  /\ walk' = IF inserted.fresh
             THEN [walk EXCEPT !.todo = @ \ {k}, !.met = @ \cup {k},
                               !.source = Entered(@, k, CHOOSE from \in walk.at : TRUE)]
             ELSE [walk EXCEPT !.todo = @ \ {k}]
  /\ UNCHANGED dependents

-----------------------------------------------------------------------------
\* The walk is done.
Return ==
  /\ walk.phase \in {"visit", "trace"}
  /\ stack = {} /\ (walk.phase = "trace" => walk.todo = {})
  /\ walk' = Nowhere
  /\ UNCHANGED <<table, dependents, stack>>

\* The callback unwinds, or the iterator is dropped half-way.
Abandon ==
  /\ walk.phase \in {"visit", "trace"}
  /\ walk' = Nowhere
  /\ UNCHANGED <<table, dependents, stack>>

-----------------------------------------------------------------------------
(* dependency_path: breadth first, against the edges. *)

Dependencies == Transposed(dependents)

BeginPath(from, to) ==
  /\ Idle
  /\ walk' = [phase |-> "path", from |-> from, to |-> to, frontier |-> <<from>>,
              reachedFrom |-> [k \in {from} |-> from]]
  /\ UNCHANGED <<table, dependents, stack>>

\* Mutant: notes the key it came from last.
SearchAgain ==
  /\ walk.phase = "path" /\ walk.frontier # <<>>
  /\ Head(walk.frontier) # walk.to
  /\ LET current == Head(walk.frontier)
         found   == Dependencies[current]
         new     == found \ DOMAIN walk.reachedFrom
     IN \E order \in {s \in [1..Cardinality(new) -> new] : {s[i] : i \in DOMAIN s} = new} :
          walk' = [walk EXCEPT
                     !.frontier = Tail(@) \o order,
                     !.reachedFrom = [k \in DOMAIN @ \cup found |->
                                        IF k \in found THEN current ELSE @[k]]]
  /\ UNCHANGED <<table, dependents, stack>>

\* The first key of the frontier is expanded, its dependencies in any order.
Search ==
  /\ walk.phase = "path" /\ walk.frontier # <<>>
  /\ Head(walk.frontier) # walk.to
  /\ LET current == Head(walk.frontier)
         found   == Dependencies[current] \ DOMAIN walk.reachedFrom
     IN \E order \in {s \in [1..Cardinality(found) -> found] : {s[i] : i \in DOMAIN s} = found} :
          walk' = [walk EXCEPT
                     !.frontier = Tail(@) \o order,
                     !.reachedFrom = [k \in DOMAIN @ \cup found |->
                                        IF k \in found THEN current ELSE @[k]]]
  /\ UNCHANGED <<table, dependents, stack>>

\* The chain back from `to` along reachedFrom, turned round.
Path ==
  LET back[n \in 0..Cardinality(Keys)] == IF n = 0 THEN walk.to ELSE walk.reachedFrom[back[n - 1]]
      length == Least({n \in DOMAIN back : back[n] = walk.from})
  IN [i \in 1..(length + 1) |-> back[length + 1 - i]]

\* The answer: Path if `to` came first, None if the frontier ran out.
AnswerPath ==
  /\ walk.phase = "path"
  /\ walk.frontier # <<>> => Head(walk.frontier) = walk.to
  /\ walk' = Nowhere
  /\ UNCHANGED <<table, dependents, stack>>

-----------------------------------------------------------------------------
WalkStep ==
  \/ \E root \in Keys : TransitiveDependents(root) \/ PropagateWithScratch(root)
  \/ \E root \in Keys, reuse \in BOOLEAN : BeginTrace(root, reuse)
  \/ \E k \in Keys : Visit(k) \/ TraceFrom(k) \/ Trace(k)
  \/ Return \/ Abandon
  \/ \E from, to \in Keys : BeginPath(from, to)
  \/ Search \/ AnswerPath

Next == (TableStep /\ UNCHANGED walkVars) \/ WalkStep

Spec == Init /\ [][Next]_vars

-----------------------------------------------------------------------------
(* Properties. *)

\* Types; a walk never has more on its stack than keys of the graph.
TypeOK ==
  /\ table.kind \in {"KeySet", "PairSet", "InDegrees"}
  /\ TabledKeys \subseteq Keys /\ HashedKeys \subseteq Keys
  /\ dependents \in [Keys -> SUBSET Keys]
  /\ stack \subseteq Keys
  /\ CASE walk.phase = "visit" -> walk.met \subseteq Keys
       [] walk.phase = "trace" -> /\ walk.met \subseteq Keys /\ walk.todo \subseteq Keys
                                  /\ walk.source \in [walk.met \ {walk.root} -> walk.met]
       [] walk.phase = "path"  -> walk.reachedFrom \in [DOMAIN walk.reachedFrom -> Keys]
       [] OTHER                -> walk = Nowhere

\* A walk that returns has met exactly the transitive dependents of its root,
\* whatever an earlier walk left in the scratch and however the visited set
\* has grown meanwhile; the root is among them if it is on a cycle
\* (graph.rs, for_each_transitive_dependent).
MeetsAll ==
  [][Return => walk.met = ReachableFrom(dependents, IF walk.phase = "visit"
                                                    THEN dependents[walk.root]
                                                    ELSE {walk.root})]_vars

\* The callback is given no key twice: the visited set knows every key that
\* was met, in its bitset or its hash set.
MeetsOnce == walk.phase \in {"visit", "trace"} => Content = walk.met

\* The reported sources are dependencies met before, and lead to the root.
SourcesLeadToRoot ==
  walk.phase = "trace" =>
    LET leads == [k \in Keys |-> {d \in DOMAIN walk.source : walk.source[d] = k}] IN
    /\ walk.met \subseteq ReachableFrom(leads, {walk.root})
    /\ \A d \in DOMAIN walk.source : d \in dependents[walk.source[d]]

\* Types, and the containers: each half has what lookups expect of it, within
\* the budget, through walks that are finished, abandoned and begun again.
TablesSound == TypeOK /\ KeptWhereLookedUp /\ BookkeepingExact /\ WithinBudget

\* At every step of a walk, what it remembers is what it has told.
WalkRemembers == MeetsOnce /\ SourcesLeadToRoot

\* The keys that n dependencies or fewer lead to.
WithinSteps(from) ==
  LET near[n \in 0..Cardinality(Keys)] ==
        IF n = 0 THEN {from} ELSE near[n - 1] \cup UNION {Dependencies[k] : k \in near[n - 1]}
  IN near

\* dependency_path answers None only if there is no chain, and otherwise one
\* of dependencies from end to end, than which none is shorter.
PathIsShortest ==
  [][AnswerPath =>
       LET near == WithinSteps(walk.from) IN
       IF walk.frontier = <<>> THEN walk.to \notin near[Cardinality(Keys)]
       ELSE /\ Path[1] = walk.from /\ Path[Len(Path)] = walk.to
            /\ \A i \in 1..(Len(Path) - 1) : Path[i + 1] \in Dependencies[Path[i]]
            /\ \A n \in DOMAIN near : walk.to \in near[n] => Len(Path) <= n + 1]_vars

\* What a walk comes to is what its documentation says.
WalksAnswer == MeetsAll /\ PathIsShortest

=============================================================================
