-------------------------- MODULE DependencyGraph ---------------------------
(***************************************************************************)
(* InvalidationGraph (graph.rs): "A depends on B" edges per channel, kept  *)
(* twice - in the list of what a key depends on and in the list of what    *)
(* depends on it - with a cache of the channels in which each list of a    *)
(* key is not empty.                                                       *)
(*                                                                         *)
(* A list is modelled as a bag (how often it holds each key): the order of *)
(* its entries is never relied on, but a key listed twice, or listed on    *)
(* one side only, would matter, and is not excluded by the representation. *)
(* Growth of the dense tables is left out: a missing row reads as empty.   *)
(*                                                                         *)
(* replace_dependencies is the one operation that calls others, and can    *)
(* fail half-way; it runs here one inner call per step.                    *)
(***************************************************************************)
EXTENDS Naturals, FiniteSets, Folds, Reachability

CONSTANTS
  Keys,       \* the dense keys in use
  Channels,   \* the invalidation channels in use
  Handlings,  \* the cycle handlings callers ask for
  DebugBuild  \* whether debug assertions are compiled in

ASSUME GraphAssumption ==
  /\ IsFiniteSet(Keys)
  /\ Handlings \subseteq {"DebugAssert", "Error", "Ignore", "Allow"}
  /\ DebugBuild \in BOOLEAN

VARIABLES
  forward,          \* forward[c][a][b]: times b is listed as a dependency of a
  reverse,          \* reverse[c][b][a]: times a is listed as a dependent of b
  forwardChannels,  \* cached channels in which a key has dependencies
  reverseChannels,  \* cached channels in which a key has dependents
  job,              \* the replace_dependencies call in progress
  outcome           \* what the last operation returned, until the caller reads it

edgeVars == <<forward, reverse, forwardChannels, reverseChannels>>
vars == <<forward, reverse, forwardChannels, reverseChannels, job, outcome>>

-----------------------------------------------------------------------------
(* Reading the lists. *)

\* The keys a list holds.
Listed(list) == {k \in Keys : list[k] > 0}

\* What each key depends on in channel c, by the forward lists.
Dependencies(c) == [k \in Keys |-> Listed(forward[c][k])]

\* What depends on each key in channel c, by the reverse lists.
Dependents(c) == [k \in Keys |-> Listed(reverse[c][k])]

\* Mutant: only looks one edge ahead.
ClosesTwoCycle(from, to, c) == from \in Dependencies(c)[to]

\* Mutant: takes what lets the search be skipped for its answer.
MayClose(from, to, c) == Dependents(c)[from] # {}

\* A search of the forward lists from `to`, skipped when nothing is listed as
\* a dependent of `from`.
WouldCreateCycle(from, to, c) ==
  /\ Dependents(c)[from] # {}
  /\ Reaches(Dependencies(c), to, from)

-----------------------------------------------------------------------------
(* What callers may ask of a graph at rest. *)

\* has_dependencies and has_dependents.
HasDependencies(k, c) == Listed(forward[c][k]) # {}
HasDependents(k, c) == Listed(reverse[c][k]) # {}

\* The length of a list.
Length(list) == MapThenFoldSet(+, 0, LAMBDA k : list[k], LAMBDA S : CHOOSE k \in S : TRUE, Keys)

InDegree(k, c) == Length(forward[c][k])
OutDegree(k, c) == Length(reverse[c][k])

\* edges: the lists hold keys, so the key that a forward list belongs to is
\* looked for in the reverse list of `first`, the list's first entry.
EdgesFrom(a, first, c) == {<<from, b>> : from \in {a} \cap Listed(reverse[c][first]),
                                        b \in Listed(forward[c][a])}

EdgeCount(c) == MapThenFoldSet(+, 0, LAMBDA k : InDegree(k, c),
                               LAMBDA S : CHOOSE k \in S : TRUE, Keys)

\* dependency_channels and dependent_channels answer from the caches.
DependencyChannels(k) == forwardChannels[k]
DependentChannels(k) == reverseChannels[k]

\* channels and is_empty: by the caches of the forward lists.
UsedChannels == UNION {DependencyChannels(k) : k \in Keys}
IsEmpty == \A k \in Keys : DependencyChannels(k) = {}

\* Mutant: a key shows only where something lists it as a dependency.
ForwardKeys == UNION {UNION {Listed(forward[c][k]) : k \in Keys} : c \in Channels}

\* keys: all that any list holds.
StoredKeys ==
  UNION {UNION {Listed(forward[c][k]) \cup Listed(reverse[c][k]) : k \in Keys} : c \in Channels}

-----------------------------------------------------------------------------
(* Results. *)

NoReplace == [phase |-> "idle"]

Returned(tag, added, removed, ignored) ==
  [tag |-> tag, added |-> added, removed |-> removed, ignored |-> ignored]
Plain(tag) == Returned(tag, {}, {}, {})
NotCalled == Plain("NotCalled")

\* How handle_cycle ends.
CycleVerdict(h) ==
  CASE h = "DebugAssert" -> IF DebugBuild THEN "Panicked" ELSE "CycleIgnored"
    [] h = "Error"       -> "CycleError"
    [] OTHER             -> "CycleIgnored"

\* Mutant: an edge already present is added again.
AddVerdictRepeats(from, to, c, h) ==
  IF from = to \/ (h # "Allow" /\ WouldCreateCycle(from, to, c))
  THEN CycleVerdict(h)
  ELSE "Added"

\* The checks add_dependency makes before it changes anything, in its order.
AddVerdict(from, to, c, h) ==
  IF to \in Dependencies(c)[from] THEN "AlreadyPresent"
  ELSE IF from = to \/ (h # "Allow" /\ WouldCreateCycle(from, to, c))
       THEN CycleVerdict(h)
       ELSE "Added"

-----------------------------------------------------------------------------
(* Changing the lists. *)

InsertEdge(from, to, c) ==
  /\ forward' = [forward EXCEPT ![c][from][to] = @ + 1]
  /\ reverse' = [reverse EXCEPT ![c][to][from] = @ + 1]
  /\ forwardChannels' = [forwardChannels EXCEPT ![from] = @ \cup {c}]
  /\ reverseChannels' = [reverseChannels EXCEPT ![to] = @ \cup {c}]

\* A list without one of its entries for k, if it has any.
Without(list, k) == [list EXCEPT ![k] = IF @ > 0 THEN @ - 1 ELSE 0]

\* Mutant: a cache that only grows.
KeptIfEmpty(cached, c, list) == cached

\* A cache with channel c dropped if the list it describes became empty.
DropIfEmpty(cached, c, list) == IF Listed(list) = {} THEN cached \ {c} ELSE cached

DeleteEdge(from, to, c) ==
  LET fwd == Without(forward[c][from], to)
      rev == Without(reverse[c][to], from)
  IN
  /\ forward' = [forward EXCEPT ![c][from] = fwd]
  /\ reverse' = [reverse EXCEPT ![c][to] = rev]
  /\ forwardChannels' = [forwardChannels EXCEPT ![from] = DropIfEmpty(@, c, fwd)]
  /\ reverseChannels' = [reverseChannels EXCEPT ![to] = DropIfEmpty(@, c, rev)]

\* Mutant: removes the entry without looking for it first.
RemoveUnchecked(from, to, c) ==
  /\ forward' = [forward EXCEPT ![c][from][to] = @ - 1]
  /\ reverse' = [reverse EXCEPT ![c][to][from] = @ - 1]
  /\ UNCHANGED <<forwardChannels, reverseChannels>>

\* remove_dependency: nothing happens unless the forward list has the entry.
RemoveEdge(from, to, c) ==
  IF to \in Dependencies(c)[from] THEN DeleteEdge(from, to, c) ELSE UNCHANGED edgeVars

-----------------------------------------------------------------------------
Init ==
  /\ forward = [c \in Channels |-> [a \in Keys |-> [b \in Keys |-> 0]]]
  /\ reverse = [c \in Channels |-> [a \in Keys |-> [b \in Keys |-> 0]]]
  /\ forwardChannels = [k \in Keys |-> {}]
  /\ reverseChannels = [k \in Keys |-> {}]
  /\ job = NoReplace
  /\ outcome = NotCalled

\* A call may start: no other holds the graph and the last result was read.
Free == job = NoReplace /\ outcome = NotCalled

\* The caller reads the value returned to it.
ReadOutcome ==
  /\ outcome # NotCalled
  /\ outcome' = NotCalled
  /\ UNCHANGED <<edgeVars, job>>

AddDependency(from, to, c, h) ==
  /\ Free
  /\ outcome' = Plain(AddVerdict(from, to, c, h))
  /\ IF AddVerdict(from, to, c, h) = "Added"
     THEN InsertEdge(from, to, c)
     ELSE UNCHANGED edgeVars
  /\ UNCHANGED job

RemoveDependency(from, to, c) ==
  /\ Free
  /\ outcome' = Plain(IF to \in Dependencies(c)[from] THEN "Removed" ELSE "NotFound")
  /\ RemoveEdge(from, to, c)
  /\ UNCHANGED job

-----------------------------------------------------------------------------
(* replace_dependencies, one inner call per step.  The target set is       *)
(* already deduplicated; the loops visit their lists in any order.         *)

BeginReplace(from, c, to, h) ==
  LET old == Dependencies(c)[from] IN
  /\ Free
  /\ IF old = to
     THEN outcome' = Plain("Replaced") /\ UNCHANGED job
     ELSE /\ job' = [phase |-> "apply", from |-> from, channel |-> c, handling |-> h,
                     toRemove |-> old \ to, toAdd |-> to \ old,
                     added |-> {}, removed |-> {}, ignored |-> {}]
          /\ UNCHANGED outcome
  /\ UNCHANGED edgeVars

\* Stale dependencies go first, so that the cycle checks see the graph
\* without them.
RemoveStale ==
  /\ job.phase = "apply"
  /\ \E dep \in job.toRemove :
       /\ job' = [job EXCEPT !.toRemove = @ \ {dep},
                             !.removed = @ \cup ({dep} \cap Dependencies(job.channel)[job.from])]
       /\ RemoveEdge(job.from, dep, job.channel)
  /\ UNCHANGED outcome

\* The add loop is at dep, and its add_dependency call answers `verdict`.
Adding(dep, verdict) ==
  /\ job.phase = "apply"
  /\ job.toRemove = {}
  /\ dep \in job.toAdd
  /\ AddVerdict(job.from, dep, job.channel, job.handling) = verdict

AddNew(dep) ==
  /\ Adding(dep, "Added")
  /\ InsertEdge(job.from, dep, job.channel)
  /\ job' = [job EXCEPT !.toAdd = @ \ {dep}, !.added = @ \cup {dep}]
  /\ UNCHANGED outcome

IgnoreCyclic(dep) ==
  /\ Adding(dep, "CycleIgnored")
  /\ job' = [job EXCEPT !.toAdd = @ \ {dep}, !.ignored = @ \cup {dep}]
  /\ UNCHANGED <<edgeVars, outcome>>

\* Mutant: the error is returned with the replacement half made.
FailWithoutUndo(dep) ==
  /\ Adding(dep, "CycleError")
  /\ job' = NoReplace
  /\ outcome' = Plain("CycleError")
  /\ UNCHANGED edgeVars

FailReplace(dep) ==
  /\ Adding(dep, "CycleError")
  /\ job' = [job EXCEPT !.phase = "undo"]
  /\ UNCHANGED <<edgeVars, outcome>>

\* The unwinding panic skips the roll-back.
PanicReplace(dep) ==
  /\ Adding(dep, "Panicked")
  /\ job' = NoReplace
  /\ outcome' = Plain("Panicked")
  /\ UNCHANGED edgeVars

FinishReplace ==
  /\ job.phase = "apply"
  /\ job.toRemove = {} /\ job.toAdd = {}
  /\ outcome' = Returned("Replaced", job.added, job.removed, job.ignored)
  /\ job' = NoReplace
  /\ UNCHANGED edgeVars

\* Roll-back: first the additions are taken out again ...
UndoAddition ==
  /\ job.phase = "undo"
  /\ \E dep \in job.added :
       /\ job' = [job EXCEPT !.added = @ \ {dep}]
       /\ RemoveEdge(job.from, dep, job.channel)
  /\ UNCHANGED outcome

\* ... then the removals are put back, without a cycle check.
UndoRemoval ==
  /\ job.phase = "undo"
  /\ job.added = {}
  /\ \E dep \in job.removed :
       /\ job' = [job EXCEPT !.removed = @ \ {dep}]
       /\ IF AddVerdict(job.from, dep, job.channel, "Allow") = "Added"
          THEN InsertEdge(job.from, dep, job.channel)
          ELSE UNCHANGED edgeVars
  /\ UNCHANGED outcome

FinishUndo ==
  /\ job.phase = "undo"
  /\ job.added = {} /\ job.removed = {}
  /\ outcome' = Plain("CycleError")
  /\ job' = NoReplace
  /\ UNCHANGED edgeVars

-----------------------------------------------------------------------------
(* remove_key: one pass over the cached channels of each direction, each   *)
(* emptying the key's own lists and taking the key out of the lists at the *)
(* other end of its edges.                                                 *)

\* Mutant: the key's own lists survive.
EmptiedNothing(mine, key, channels) == mine

\* `mine` with the key's lists emptied in the given channels.
Emptied(mine, key, channels) ==
  [c \in Channels |-> IF c \in channels
                      THEN [mine[c] EXCEPT ![key] = [k \in Keys |-> 0]]
                      ELSE mine[c]]

\* Mutant: the other ends keep their entries for the key.
UnlinkedNothing(theirs, mine, key, channels) == theirs

\* `theirs` with one entry for the key taken out per entry of `mine`.
Unlinked(theirs, mine, key, channels) ==
  [c \in Channels |->
     [k \in Keys |->
        IF c \in channels
        THEN [theirs[c][k] EXCEPT ![key] =
                IF @ > mine[c][key][k] THEN @ - mine[c][key][k] ELSE 0]
        ELSE theirs[c][k]]]

\* Mutant: the other ends keep their caches.
UnlistedNothing(cached, unlinked, mine, key, channels) == cached

\* The caches of the other ends, once `theirs` has become `unlinked`.
Unlisted(cached, unlinked, mine, key, channels) ==
  [k \in Keys |->
     cached[k] \ {c \in channels : mine[c][key][k] > 0 /\ Listed(unlinked[c][k]) = {}}]

RemoveKey(key) ==
  LET fwdChannels == forwardChannels[key]
      rev1   == Unlinked(reverse, forward, key, fwdChannels)
      fwd1   == Emptied(forward, key, fwdChannels)
      cachedFwd1 == [forwardChannels EXCEPT ![key] = {}]
      cachedRev1 == Unlisted(reverseChannels, rev1, forward, key, fwdChannels)
      revChannels == cachedRev1[key]
      fwd2   == Unlinked(fwd1, rev1, key, revChannels)
  IN
  /\ Free
  /\ forward' = fwd2
  /\ reverse' = Emptied(rev1, key, revChannels)
  /\ forwardChannels' = Unlisted(cachedFwd1, fwd2, rev1, key, revChannels)
  /\ reverseChannels' = [cachedRev1 EXCEPT ![key] = {}]
  /\ outcome' = Plain("KeyRemoved")
  /\ UNCHANGED job

-----------------------------------------------------------------------------
ReplaceStep ==
  \/ RemoveStale
  \/ \E dep \in Keys :
       AddNew(dep) \/ IgnoreCyclic(dep) \/ FailReplace(dep) \/ PanicReplace(dep)
  \/ FinishReplace
  \/ UndoAddition \/ UndoRemoval \/ FinishUndo

Next ==
  \/ ReadOutcome
  \/ \E from, to \in Keys, c \in Channels :
       \/ \E h \in Handlings : AddDependency(from, to, c, h)
       \/ RemoveDependency(from, to, c)
  \/ \E from \in Keys, c \in Channels, to \in SUBSET Keys, h \in Handlings :
       BeginReplace(from, c, to, h)
  \/ ReplaceStep
  \/ \E key \in Keys : RemoveKey(key)

Spec == Init /\ [][Next]_vars

-----------------------------------------------------------------------------
(* Properties. *)

Tags == {"NotCalled", "Added", "AlreadyPresent", "CycleIgnored", "CycleError",
         "Panicked", "Removed", "NotFound", "Replaced", "KeyRemoved"}

Outcomes == [tag : Tags, added : SUBSET Keys, removed : SUBSET Keys,
             ignored : SUBSET Keys]

Jobs == [phase : {"apply", "undo"}, from : Keys, channel : Channels,
         handling : Handlings, toRemove : SUBSET Keys, toAdd : SUBSET Keys,
         added : SUBSET Keys, removed : SUBSET Keys, ignored : SUBSET Keys]

\* Every variable keeps the type of the field it models (graph.rs, struct
\* InvalidationGraph), and no list count drops below zero.
TypeOK ==
  /\ forward \in [Channels -> [Keys -> [Keys -> Nat]]]
  /\ reverse \in [Channels -> [Keys -> [Keys -> Nat]]]
  /\ forwardChannels \in [Keys -> SUBSET Channels]
  /\ reverseChannels \in [Keys -> SUBSET Channels]
  /\ job \in Jobs \cup {NoReplace}
  /\ outcome \in Outcomes

\* The two directions agree entry for entry - also between the inner calls of
\* a replacement and after a panic.  The drain counts in-degrees on one side
\* and decrements them on the other; edges() expects the mirrored entry.
DirectionsAgree ==
  \A c \in Channels : \A a, b \in Keys : forward[c][a][b] = reverse[c][b][a]

\* No key is listed twice: a second entry would survive remove_dependency,
\* which takes out one, and be counted twice by a drain.
NoDuplicateEntries ==
  \A c \in Channels : \A a, b \in Keys : forward[c][a][b] <= 1 /\ reverse[c][a][b] <= 1

\* The channel caches name exactly the channels with a non-empty list.
\* remove_key trusts them to find every edge of the key, and the tracker skips
\* channels they do not name.
CachesExact ==
  \A k \in Keys :
    /\ forwardChannels[k] = {c \in Channels : Dependencies(c)[k] # {}}
    /\ reverseChannels[k] = {c \in Channels : Dependents(c)[k] # {}}

\* The tables of a graph are well typed and tell the same story: two lists of
\* each edge, once each, and caches that know of every list - between the
\* inner calls of a replacement, through its roll-back and after a panic.
TablesConsistent == TypeOK /\ DirectionsAgree /\ NoDuplicateEntries /\ CachesExact

\* What is asked about a graph describes one set of edges: edges() finds the
\* key of every list and with it every edge once, and the degrees, channels
\* and keys are those of these edges (graph.rs, edges to keys).
QueriesAgree ==
  LET edges == [c \in Channels |-> {e \in Keys \X Keys : e[2] \in Dependencies(c)[e[1]]}] IN
  /\ \A c \in Channels :
       /\ \A a \in Keys : \A first \in Dependencies(c)[a] :
            EdgesFrom(a, first, c) = {e \in edges[c] : e[1] = a}
       /\ EdgeCount(c) = Cardinality(edges[c])
       /\ \A k \in Keys :
            /\ InDegree(k, c) = Cardinality({e \in edges[c] : e[1] = k})
            /\ OutDegree(k, c) = Cardinality({e \in edges[c] : e[2] = k})
            /\ HasDependencies(k, c) <=> \E e \in edges[c] : e[1] = k
            /\ HasDependents(k, c) <=> \E e \in edges[c] : e[2] = k
  /\ \A k \in Keys :
       /\ DependencyChannels(k) = {c \in Channels : \E e \in edges[c] : e[1] = k}
       /\ DependentChannels(k) = {c \in Channels : \E e \in edges[c] : e[2] = k}
  /\ UsedChannels = {c \in Channels : edges[c] # {}}
  /\ IsEmpty <=> \A c \in Channels : edges[c] = {}
  /\ StoredKeys = UNION {{e[1], e[2]} : e \in UNION {edges[c] : c \in Channels}}

\* While no caller uses Allow, no channel ever holds a cycle: not in the
\* middle of a replacement, not after the unchecked re-additions of its
\* roll-back, and not when a panic abandons it.
AcyclicUnlessAllowed ==
  "Allow" \notin Handlings => \A c \in Channels : Acyclic(Dependencies(c))

\* The dependencies a caller may rely on: during a replacement, the old ones
\* of the key being changed.
Visible ==
  [c \in Channels |-> [k \in Keys |->
     IF job # NoReplace /\ job.channel = c /\ job.from = k
     THEN (Dependencies(c)[k] \ job.added) \cup job.removed
     ELSE Dependencies(c)[k]]]

Contract == INSTANCE DependencyContract WITH dependencies <- Visible

\* Every operation has the atomic effect, and returns the value, that its
\* documentation promises (graph.rs, the doc comments of add_dependency,
\* remove_dependency, replace_dependencies and remove_key): a failed
\* replacement changes nothing, a successful one reports exactly its changes.
ImplementsContract == Contract!Spec

\* The set of dependencies the replacement in progress was asked for.
Target ==
  (Dependencies(job.channel)[job.from] \ job.toRemove) \cup job.toAdd \cup job.ignored

\* The effect and the answer are those the contract gives for the very
\* arguments of the call.  A replacement, which only ends many steps later,
\* never loses sight of what it was asked for, and fails only over an addition
\* that it was asked for and that would close a cycle.
KeepsToArguments ==
  /\ \A from, to \in Keys, c \in Channels :
       /\ \A h \in Handlings :
            AddDependency(from, to, c, h) => Contract!AddDependency(from, to, c, h)
       /\ RemoveDependency(from, to, c) => Contract!RemoveDependency(from, to, c)
  /\ \A key \in Keys : RemoveKey(key) => Contract!RemoveKey(key)
  /\ \A from \in Keys, c \in Channels, to \in SUBSET Keys, h \in Handlings :
       BeginReplace(from, c, to, h) => IF job' = NoReplace
                                       THEN Contract!ReplaceDependencies(from, c, to, h)
                                       ELSE Target' = to
  /\ RemoveStale \/ (\E dep \in Keys : AddNew(dep) \/ IgnoreCyclic(dep)) => Target' = Target
  /\ FinishReplace =>
       Contract!ReplaceDependencies(job.from, job.channel, Target, job.handling)
  /\ (\E dep \in Keys : FailReplace(dep) \/ PanicReplace(dep)) =>
       Contract!RefusedAdditions(job.from, job.channel, Target, job.handling) # {}

CallsKeepToArguments == [][KeepsToArguments]_vars

=============================================================================
