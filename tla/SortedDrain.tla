----------------------------- MODULE SortedDrain -----------------------------
(***************************************************************************)
(* Draining one channel in topological order: DrainBuilder::run, which     *)
(* takes keys out of the InvalidationSet and expands them as asked, and    *)
(* the iterators DrainSorted and DrainSortedDeterministic over Kahn's      *)
(* algorithm, which hand the keys out and, when dropped, mark the ones     *)
(* they still hold again.                                                  *)
(*                                                                         *)
(* The channel's edges are one relation here: that the lists the drain     *)
(* counts in-degrees on and the lists it decrements them by mirror each    *)
(* other, each key listed once, is what DependencyGraph establishes.       *)
(* Cascade and cross-channel rules of a drain are not in this module.      *)
(*                                                                         *)
(* A drain borrows the set and the graph, so nothing else changes them     *)
(* until it is dropped.                                                    *)
(***************************************************************************)
EXTENDS Naturals, FiniteSets, Reachability

CONSTANTS
  Keys          \* the dense keys in use

ASSUME DrainAssumption == IsFiniteSet(Keys) /\ Keys \subseteq Nat

\* How a drain selects keys, and in which order it yields those that are ready.
Modes == {"InvalidatedOnly", "Affected"}
Orders == {"AnyOrder", "Deterministic"}

VARIABLES
  dependencies,  \* dependencies[k]: the keys k depends on in the channel
  invalidated,   \* the channel's invalidated keys
  drain          \* the drain in progress

vars == <<dependencies, invalidated, drain>>

-----------------------------------------------------------------------------
NoDrain == [open |-> FALSE]

Dependents == Transposed(dependencies)

\* The keys the drain took and has not yielded.
Pending == IF drain.open THEN DOMAIN drain.inDegree ELSE {}

\* Mutant: counts dependencies that were not drained.
DegreeOverall(k, keys) == Cardinality(dependencies[k])
\* Mutant: notes only whether there are any.
DegreeCapped(k, keys) == IF dependencies[k] \cap keys = {} THEN 0 ELSE 1

\* How many of its dependencies wait with k.
DegreeWithin(k, keys) == Cardinality(dependencies[k] \cap keys)

\* A drain over keys, as asked for: the keys none of whose dependencies is
\* drained too are ready.
Kahn(keys, mode, scope, order, retain, owner) ==
  [open     |-> TRUE,
   mode     |-> mode,
   scope    |-> scope,
   order    |-> order,
   retain   |-> retain,
   owner    |-> owner,
   inDegree |-> [k \in keys |-> DegreeWithin(k, keys)],
   ready    |-> {k \in keys : DegreeWithin(k, keys) = 0},
   stalled  |-> FALSE]

\* Mutant: expands the roots by one level only.
CollectDirect(roots, scope) == roots \cup ((UNION {Dependents[k] : k \in roots}) \cap scope)

\* The roots and what depends on them along paths inside the scope.
CollectAffected(roots, scope) ==
  ReachableFrom([k \in scope |-> Dependents[k] \cap scope], roots)

\* Mutant: retains dependents whether in scope or not.
AllDependents(keys, scope) == UNION {Dependents[k] : k \in keys}

OutOfScopeDependents(keys, scope) == (UNION {Dependents[k] : k \in keys}) \ scope

\* take_roots: the invalidated keys the scope allows.
TakenRoots(scope) == invalidated \cap scope

\* within_dependencies_of: the key and everything it depends on.
DependencyScope(key) == ReachableFrom(dependencies, {key})

-----------------------------------------------------------------------------
Init ==
  /\ dependencies = [k \in Keys |-> {}]
  /\ invalidated = {}
  /\ drain = NoDrain

\* Edits and marks between drains.  The graph may be given cycles (Allow), but
\* refuses a self-dependency.
AddDependency(from, to) ==
  /\ ~drain.open
  /\ from # to
  /\ dependencies' = [dependencies EXCEPT ![from] = @ \cup {to}]
  /\ UNCHANGED <<invalidated, drain>>

RemoveDependency(from, to) ==
  /\ ~drain.open
  /\ dependencies' = [dependencies EXCEPT ![from] = @ \ {to}]
  /\ UNCHANGED <<invalidated, drain>>

RemoveKey(key) ==
  /\ ~drain.open
  /\ dependencies' = [k \in Keys |-> IF k = key THEN {} ELSE dependencies[k] \ {key}]
  /\ invalidated' = invalidated \ {key}
  /\ UNCHANGED drain

Mark(k) ==
  /\ ~drain.open
  /\ invalidated' = invalidated \cup {k}
  /\ UNCHANGED <<dependencies, drain>>

Clear ==
  /\ ~drain.open
  /\ invalidated' = {}
  /\ UNCHANGED <<dependencies, drain>>

-----------------------------------------------------------------------------
(* DrainBuilder::run. *)

OpenDrain(mode, scope, order, retain) ==
  LET roots    == TakenRoots(scope)
      keys     == IF mode = "Affected" THEN CollectAffected(roots, scope) ELSE roots
      retained == IF mode = "Affected" /\ retain
                  THEN OutOfScopeDependents(keys, scope)
                  ELSE {}
  IN
  /\ ~drain.open
  /\ invalidated' = (invalidated \ roots) \cup retained
  /\ drain' = Kahn(keys, mode, scope, order, retain, TRUE)
  /\ UNCHANGED dependencies

\* The functions that spare the caller the builder: the whole channel, and
\* nothing to retain.
DrainSorted == OpenDrain("InvalidatedOnly", Keys, "AnyOrder", FALSE)
DrainSortedDeterministic == OpenDrain("InvalidatedOnly", Keys, "Deterministic", FALSE)
DrainAffectedSorted == OpenDrain("Affected", Keys, "AnyOrder", FALSE)
DrainAffectedSortedDeterministic == OpenDrain("Affected", Keys, "Deterministic", FALSE)

\* peek_sorted: a drain that took nothing, and gives nothing back.
OpenPeek(order) ==
  /\ ~drain.open
  /\ drain' = Kahn(invalidated, "InvalidatedOnly", Keys, order, FALSE, FALSE)
  /\ UNCHANGED <<dependencies, invalidated>>

-----------------------------------------------------------------------------
(* The iterator. *)

\* Mutant: first in, first out, whatever the order asked for.
EligibleUnordered(k) == k \in drain.ready

Eligible(k) ==
  /\ k \in drain.ready
  /\ drain.order = "Deterministic" => \A other \in drain.ready : k <= other

\* Mutant: walks the dependencies of k instead of its dependents.
DegreesAlongDependencies(k) ==
  [d \in Pending \ {k} |->
     IF d \in dependencies[k] THEN drain.inDegree[d] - 1 ELSE drain.inDegree[d]]

\* The in-degrees once k is gone: one less for each of its dependents.
DegreesWithout(k) ==
  [d \in Pending \ {k} |->
     IF d \in Dependents[k] THEN drain.inDegree[d] - 1 ELSE drain.inDegree[d]]

Yield(k) ==
  LET degrees == DegreesWithout(k)
      freed   == {d \in Dependents[k] \cap (Pending \ {k}) : degrees[d] = 0}
  IN
  /\ drain.open
  /\ Eligible(k)
  /\ drain' = [drain EXCEPT !.inDegree = degrees, !.ready = (@ \ {k}) \cup freed]
  /\ UNCHANGED <<dependencies, invalidated>>

\* next() answers None.
Exhausted ==
  /\ drain.open
  /\ drain.ready = {}
  /\ drain' = [drain EXCEPT !.stalled = @ \/ Pending # {}]
  /\ UNCHANGED <<dependencies, invalidated>>

\* Mutant: the keys not yielded are forgotten.
DropForgets ==
  /\ drain.open
  /\ drain' = NoDrain
  /\ UNCHANGED <<dependencies, invalidated>>

\* The iterator is dropped, at any point of the iteration.
Drop ==
  /\ drain.open
  /\ invalidated' = IF drain.owner THEN invalidated \cup Pending ELSE invalidated
  /\ drain' = NoDrain
  /\ UNCHANGED dependencies

-----------------------------------------------------------------------------
(* What the iterator tells of itself between two steps. *)

\* Mutant: empty once it has answered None.
EmptyOnceAsked == drain.stalled \/ Pending = {}

IsEmpty == drain.ready = {}

Remaining == Cardinality(Pending)

Completion ==
  IF drain.stalled THEN [kind |-> "Stalled", remaining |-> Remaining]
                   ELSE [kind |-> "Complete"]

\* The least and the most keys it may still yield.
SizeHint == [least |-> Cardinality(drain.ready), most |-> Remaining]

-----------------------------------------------------------------------------
Scopes == (SUBSET Keys) \cup {DependencyScope(k) : k \in Keys}

Edit ==
  \/ \E from, to \in Keys : AddDependency(from, to) \/ RemoveDependency(from, to)
  \/ \E k \in Keys : RemoveKey(k) \/ Mark(k)
  \/ Clear

Open ==
  \/ \E mode \in Modes, scope \in Scopes, order \in Orders, retain \in BOOLEAN :
       OpenDrain(mode, scope, order, retain)
  \/ DrainSorted \/ DrainSortedDeterministic
  \/ DrainAffectedSorted \/ DrainAffectedSortedDeterministic
  \/ \E order \in Orders : OpenPeek(order)

Next == Edit \/ Open \/ (\E k \in Keys : Yield(k)) \/ Exhausted \/ Drop

Spec == Init /\ [][Next]_vars

-----------------------------------------------------------------------------
(* Properties. *)

Drains(keys) ==
  [open : {TRUE}, mode : Modes, scope : SUBSET Keys,
   order : Orders, retain : BOOLEAN, owner : BOOLEAN,
   inDegree : [keys -> Nat], ready : SUBSET keys, stalled : BOOLEAN]

\* Types; in particular no in-degree is decremented below zero, which would
\* panic in a debug build and wrap to the table's ABSENT marker in a release
\* build (drain.rs, yield_key).
TypeOK ==
  /\ dependencies \in [Keys -> SUBSET Keys]
  /\ invalidated \subseteq Keys
  /\ drain = NoDrain \/ \E keys \in SUBSET Keys : drain \in Drains(keys)

\* The in-degrees stay what Kahn::new set out to count, however many keys have
\* been yielded since: the dependencies that still wait.  Exactly the keys
\* without any are queued.
DegreesExact ==
  drain.open =>
    /\ \A k \in Pending : drain.inDegree[k] = DegreeWithin(k, Pending)
    /\ drain.ready = {k \in Pending : dependencies[k] \cap Pending = {}}

\* Types and counts, which hold together only: a count is a natural number
\* because what it counts is there (drain.rs, Kahn).
CountsExact == TypeOK /\ DegreesExact

\* A step in which the drain hands k to its caller.
HandsOut(k) == k \in Pending /\ drain'.open /\ k \notin Pending'

\* Everything the caller has yet to be given, in the drain or in the set.
Awaiting == Pending \cup invalidated

ClosedScope == ClosedUnder(dependencies, drain.scope)

\* A drain whose scope contains the dependencies of its keys (the whole
\* channel, or within_dependencies_of) hands a key out only when none of its
\* dependencies is invalidated any more.  A peek, whose keys are invalidated
\* throughout, keeps the order among its keys.
DependenciesFirst ==
  [][\A k \in Keys : HandsOut(k) /\ ClosedScope =>
       dependencies[k] \cap (IF drain.owner THEN Awaiting ELSE Pending) = {}]_vars

\* An affected drain of such a scope orders keys along paths, not only along
\* edges: nothing k depends on through keys that were never marked waits
\* either (drain_affected_sorted, with LazyPolicy).
AffectedOrder ==
  [][\A k \in Keys : HandsOut(k) /\ ClosedScope /\ drain.mode = "Affected" =>
       ReachableFrom(dependencies, dependencies[k]) \cap Awaiting = {}]_vars

\* What a deterministic drain hands out is the smallest key it could.
SmallestFirst ==
  [][\A k \in Keys : HandsOut(k) /\ drain.order = "Deterministic" =>
       \A other \in Pending : dependencies[other] \cap Pending = {} => k <= other]_vars

\* The order a drain promises, by edges, by paths and by size.
KeepsOrder == DependenciesFirst /\ AffectedOrder /\ SmallestFirst

\* The keys on a cycle of keys the drain holds, or behind one.
BehindCycle ==
  LET waiting == [k \in Pending |-> dependencies[k] \cap Pending]
  IN  {k \in Pending : \E j \in Pending :
         Reaches(waiting, k, j) /\ \E i \in waiting[j] : Reaches(waiting, i, j)}

\* The keys a stalled drain could not yield are those on a cycle of such keys
\* or behind one (drain.rs, remaining_keys), so a stall shows a cycle.
StalledBehindCycle == drain.open /\ drain.stalled => Pending = BehindCycle

\* At any point of the iteration, asked or not yet asked for another key: the
\* keys the hint promises are coming and those it allows for are all there
\* are, is_empty says that none is coming, and a drain reports a stall only
\* while it holds keys (drain.rs, size_hint, is_empty and completion).
HintsHold ==
  drain.open =>
    LET coming == Cardinality(Pending \ BehindCycle)
    IN  /\ SizeHint.least <= coming /\ coming <= SizeHint.most
        /\ IsEmpty <=> coming = 0
        /\ Completion.kind = "Stalled" => Completion.remaining > 0

\* All a caller hears of cycles while it iterates is true.
StallsTold == StalledBehindCycle /\ HintsHold

\* The marks as the caller may count on them: a drain's keys come back.
Marked == IF drain.open /\ drain.owner THEN Awaiting ELSE invalidated

Work == INSTANCE PendingWork WITH marked <- Marked

\* No drain is open, or one that gives nothing up: a peek, or an affected
\* drain that retains what depends on its keys outside its scope.
Careful == drain.open /\ drain.owner => drain.mode = "Affected" /\ drain.retain

\* Nothing that is owed is lost by a careful drain, whatever drains there were
\* before: not when it is opened, stopped early or stalled, and not when its
\* scope cuts through the affected keys (DrainBuilder::run, Drop for Kahn).
LosesNoWork == [][Careful /\ Careful' => Work!Next \/ UNCHANGED Work!workVars]_vars

=============================================================================
