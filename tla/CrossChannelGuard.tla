-------------------------- MODULE CrossChannelGuard -------------------------
(***************************************************************************)
(* The rules of an InvalidationTracker (tracker.rs) and the guard that     *)
(* keeps invalidation from running in circles through them (cycles.rs):    *)
(* dependencies within a channel, cascades from channel to channel, and    *)
(* cross-channel edges, combined into one relation on (key, channel)       *)
(* pairs.                                                                  *)
(*                                                                         *)
(* The parts are used by their contracts: the graph is the one of          *)
(* DependencyContract, the cascade a relation it keeps free of cycles, the *)
(* cross-channel edges the struct of CrossEdgeTables, whose generation     *)
(* tells the guard when its cached ChannelReach is out of date.  A search  *)
(* is modelled by what it finds, given the cache it prunes by.             *)
(*                                                                         *)
(* The two replacements call their parts edge by edge and can fail, or     *)
(* panic, half-way: they run one inner call per step, with the             *)
(* call in progress in `job`.                                              *)
(***************************************************************************)
EXTENDS CrossEdgeTables, Reachability, Sequences

CONSTANTS
  Handlings,         \* the cycle handlings callers ask for explicitly
  TrackerHandlings,  \* the cycle handlings a tracker may be created with
  DebugBuild,        \* whether debug assertions are compiled in
  MaxRules,          \* bound: rules of all three kinds that exist at a time
  MaxGeneration      \* bound: generations after which cross-channel edges stay

ASSUME GuardAssumption ==
  /\ Handlings \cup TrackerHandlings \subseteq {"DebugAssert", "Error", "Ignore", "Allow"}
  /\ DebugBuild \in BOOLEAN
  /\ MaxRules \in Nat /\ MaxGeneration \in Nat

VARIABLES
  dependencies,  \* dependencies[c][k]: the keys k depends on in channel c
  cascades,      \* cascades[c]: the channels c cascades to directly
  cross,         \* the cross-channel edges, as the struct that keeps them
  reach,         \* the cached ChannelReach, or NoReach
  handling,      \* the tracker's own cycle handling, fixed when it is created
  guarded,       \* history: no call so far could leave a cycle behind
  job,           \* the replacement in progress
  outcome        \* what the last call returned, until the caller reads it

rules == <<dependencies, cascades, cross>>
tracker == <<handling, guarded>>
vars == <<dependencies, cascades, cross, reach, handling, guarded, job, outcome>>

Graph == INSTANCE DependencyContract

-----------------------------------------------------------------------------
(* Channel-level reachability (ChannelReach). *)

NoReach == [generation |-> -1]

ChannelArrows(casc, edges) ==
  [c \in Channels |-> casc[c] \cup {d \in Channels : <<c, d>> \in ChannelPairs(edges)}]

\* Mutant: crossing only counts edges out of the channel itself.
ReachOneEdge(casc, edges) ==
  LET arrows  == ChannelArrows(casc, edges)
      from(c) == ReachableFrom(arrows, {c})
  IN  [generation |-> edges.generation,
       reach      |-> [c \in Channels |-> from(c)],
       crossing   |-> [c \in Channels |->
                         UNION {from(d) : d \in {d \in Channels : edges.pairs[c][d] > 0}}]]

\* ChannelReach::new: what a channel reaches, and what it reaches by a path
\* through at least one cross-channel edge.
ReachOf(casc, edges) ==
  LET arrows  == ChannelArrows(casc, edges)
      from(c) == ReachableFrom(arrows, {c})
  IN  [generation |-> edges.generation,
       reach      |-> [c \in Channels |-> from(c)],
       crossing   |-> [c \in Channels |->
                         UNION {from(d) : d \in {d \in Channels :
                                  \E s \in from(c) : edges.pairs[s][d] > 0}}]]

\* Mutant: a cache is as good as any other.
AnyReach == IF reach # NoReach THEN reach ELSE ReachOf(cascades, cross)

\* is_current.
IsCurrent(cache) == cache.generation = cross.generation

\* ensure_reach.
EnsuredReach == IF IsCurrent(reach) THEN reach ELSE ReachOf(cascades, cross)

CanReach(cache, from, to) == to \in cache.reach[from]
ReachesCrossing(cache, from, to) == to \in cache.crossing[from]

-----------------------------------------------------------------------------
(* The combined relation, and the search through it. *)

\* The pairs that invalidating p invalidates directly.
Flows(deps, casc, edges) ==
  [p \in Pairs |->
     {q \in Pairs : q[2] = p[2] /\ p[1] \in deps[p[2]][q[1]]}
       \cup {<<p[1], d>> : d \in casc[p[2]]}
       \cup Listed(edges.forward, p)]

\* flow_path finds a chain: it only visits pairs from whose channel the cache
\* says the goal's channel can be reached.
FlowPath(cache, flows, start, goal) ==
  LET hopeful == {p \in Pairs : CanReach(cache, p[2], goal[2])} IN
  /\ start \in hopeful
  /\ Reaches([p \in Pairs |-> flows[p] \cap hopeful], start, goal)

CurrentFlows == Flows(dependencies, cascades, cross)

\* flow(): whether invalidating start invalidates goal.
Flow(start, goal) == start = goal \/ FlowPath(EnsuredReach, CurrentFlows, start, goal)

\* flow() does not consult the cache for a pair and itself.
ReachAfterFlow(start, goal) == IF start = goal THEN reach ELSE EnsuredReach

\* crossing_flow(): the same within channel c, where a chain could leave it
\* and come back.
CrossingFlow(c, start, goal) ==
  /\ ReachesCrossing(EnsuredReach, c, c)
  /\ Flow(<<start, c>>, <<goal, c>>)

\* dependency_cycle() and cross_cycle().
CycleVerdict(h) == Graph!CycleVerdict(h)

-----------------------------------------------------------------------------
NoJob == [op |-> "none"]
Free == job = NoJob /\ outcome = Graph!NotCalled

RuleCount ==
  Cardinality({e \in Channels \X Keys \X Keys : e[3] \in dependencies[e[1]][e[2]]})
    + Cardinality({e \in Channels \X Channels : e[2] \in cascades[e[1]]})
    + Cardinality(Entries(cross.forward))

Returns(tag) == outcome' = Graph!Plain(tag)

DefaultHandling == "DebugAssert"

\* with_cycle_handling and new.
WithCycleHandling(h) ==
  /\ Graph!Init
  /\ cascades = [c \in Channels |-> {}]
  /\ handling = h
  /\ guarded = (h # "Allow")

\* with_cascades; ChannelCascade::from_edges fails if they form a cycle.
WithCascades ==
  /\ Graph!Init
  /\ cascades \in {casc \in [Channels -> SUBSET Channels] : Acyclic(casc)}
  /\ handling = DefaultHandling
  /\ guarded = TRUE

\* from_graph_with_cycle_handling and from_graph.  The graph is not
\* revalidated: a cyclic one is as if its edges had been added under Allow.
FromGraph(h) ==
  /\ dependencies \in [Channels -> {D \in [Keys -> SUBSET Keys] : \A k \in Keys : k \notin D[k]}]
  /\ outcome = Graph!NotCalled
  /\ cascades = [c \in Channels |-> {}]
  /\ handling = h
  /\ guarded = (h # "Allow" /\ \A c \in Channels : Acyclic(dependencies[c]))

Init ==
  /\ cross = NoEdges
  /\ reach = NoReach
  /\ job = NoJob
  /\ \/ \E h \in TrackerHandlings : WithCycleHandling(h) \/ FromGraph(h)
     \/ DefaultHandling \in TrackerHandlings /\ WithCascades
  /\ RuleCount <= MaxRules

\* A caller names a handling or leaves it to the tracker's own.
Asked == Handlings \cup {handling}

\* A call that asks for Allow may leave a cycle behind.
CalledWith(h) == guarded' = (guarded /\ h # "Allow") /\ UNCHANGED handling

ReadOutcome ==
  /\ job = NoJob
  /\ Graph!ReadOutcome
  /\ UNCHANGED <<cascades, cross, reach, tracker, job>>

-----------------------------------------------------------------------------
(* Dependencies. *)

\* add_dependency_with: a chain through other channels decides before the
\* graph is asked.
AddDependencyWith(from, to, c, h) ==
  LET checked == h # "Allow" /\ from # to IN
  /\ Free /\ RuleCount < MaxRules
  /\ IF checked /\ CrossingFlow(c, from, to)
     THEN /\ Returns(IF to \in dependencies[c][from] THEN "AlreadyPresent" ELSE CycleVerdict(h))
          /\ UNCHANGED dependencies
     ELSE Graph!AddDependency(from, to, c, h)
  /\ reach' = IF checked THEN EnsuredReach ELSE reach
  /\ CalledWith(h)
  /\ UNCHANGED <<cascades, cross, job>>

AddDependency(from, to, c) == AddDependencyWith(from, to, c, handling)

RemoveDependency(from, to, c) ==
  /\ Free
  /\ Graph!RemoveDependency(from, to, c)
  /\ UNCHANGED <<cascades, cross, reach, tracker, job>>

\* replace_dependencies_with: the graph makes the replacement, with its own
\* checks; what it added is then checked across channels.
ReplaceDependenciesWith(from, c, to, h) ==
  /\ Free
  /\ Cardinality(to \ dependencies[c][from]) + RuleCount <= MaxRules
  /\ Graph!ReplaceDependencies(from, c, to, h)
  /\ job' = IF outcome'.tag = "Replaced" /\ h # "Allow" /\ outcome'.added # {}
            THEN [op |-> "dependencies", from |-> from, channel |-> c, handling |-> h,
                  old |-> dependencies[c][from], before |-> rules,
                  toCheck |-> outcome'.added, changes |-> [outcome' EXCEPT !.added = {}]]
            ELSE NoJob
  /\ guarded' = (guarded /\ h # "Allow" /\ outcome'.tag # "Panicked")
  /\ UNCHANGED handling
  /\ UNCHANGED <<cascades, cross, reach>>

ReplaceDependencies(from, c, to) == ReplaceDependenciesWith(from, c, to, handling)

\* The checking loop is at dep; `cyclic` is what crossing_flow found.
Checking(dep, cyclic) ==
  /\ job.op = "dependencies"
  /\ dep \in job.toCheck
  /\ CrossingFlow(job.channel, job.from, dep) = cyclic
  /\ reach' = EnsuredReach
  /\ UNCHANGED <<cascades, cross>>

KeepAdded(dep) ==
  /\ Checking(dep, FALSE)
  /\ job' = [job EXCEPT !.toCheck = @ \ {dep}, !.changes.added = @ \cup {dep}]
  /\ UNCHANGED <<dependencies, tracker, outcome>>

DropAdded(dep) ==
  /\ Checking(dep, TRUE)
  /\ CycleVerdict(job.handling) = "CycleIgnored"
  /\ dependencies' = [dependencies EXCEPT ![job.channel][job.from] = @ \ {dep}]
  /\ job' = [job EXCEPT !.toCheck = @ \ {dep}, !.changes.ignored = @ \cup {dep}]
  /\ UNCHANGED <<tracker, outcome>>

\* Mutant: only the edge that failed is taken back.
FailDroppingOne(dep) ==
  /\ Checking(dep, TRUE)
  /\ CycleVerdict(job.handling) = "CycleError"
  /\ dependencies' = [dependencies EXCEPT ![job.channel][job.from] = @ \ {dep}]
  /\ Returns("CycleError")
  /\ job' = NoJob
  /\ UNCHANGED tracker

\* The old dependencies are put back under Allow, which refuses none of them.
FailAdded(dep) ==
  /\ Checking(dep, TRUE)
  /\ CycleVerdict(job.handling) = "CycleError"
  /\ dependencies' = [dependencies EXCEPT ![job.channel][job.from] = job.old]
  /\ Returns("CycleError")
  /\ job' = NoJob
  /\ UNCHANGED tracker

\* The panic leaves every edge the graph added, unchecked ones too.
PanicAdded(dep) ==
  /\ Checking(dep, TRUE)
  /\ CycleVerdict(job.handling) = "Panicked"
  /\ Returns("Panicked")
  /\ job' = NoJob
  /\ guarded' = FALSE
  /\ UNCHANGED <<dependencies, handling>>

FinishDependencies ==
  /\ job.op = "dependencies" /\ job.toCheck = {}
  /\ outcome' = job.changes
  /\ job' = NoJob
  /\ UNCHANGED <<rules, reach, tracker>>

-----------------------------------------------------------------------------
(* Cascades. *)

\* Mutant: the cache outlives the rules it was computed from.
RemoveCascadeKeepingReach(from, to) ==
  /\ Free
  /\ cascades' = [cascades EXCEPT ![from] = @ \ {to}]
  /\ Returns(IF to \in cascades[from] THEN "Removed" ELSE "NotFound")
  /\ UNCHANGED <<dependencies, cross, reach, tracker, job>>

RemoveCascade(from, to) ==
  /\ Free
  /\ cascades' = [cascades EXCEPT ![from] = @ \ {to}]
  /\ Returns(IF to \in cascades[from] THEN "Removed" ELSE "NotFound")
  /\ reach' = IF to \in cascades[from] THEN NoReach ELSE reach
  /\ UNCHANGED <<dependencies, cross, tracker, job>>

\* Mutant: searches the rules as they were before the cascade.
CrossEdgeOnOldCycle(cache, casc) ==
  \E e \in Entries(cross.forward) :
    FlowPath(cache, Flows(dependencies, cascades, cross), e[2], e[1])

\* The search add_cascade makes: any cycle through a cross-channel edge.
CrossEdgeOnCycle(cache, casc) ==
  \E e \in Entries(cross.forward) :
    FlowPath(cache, Flows(dependencies, casc, cross), e[2], e[1])

\* The chains flow_path may return: the shortest from start to goal.
ShortestChains(cache, flows, start, goal) ==
  LET hopeful   == {p \in Pairs : CanReach(cache, p[2], goal[2])}
      chains(n) == {s \in [1..n -> hopeful] :
                      /\ s[1] = start /\ s[n] = goal
                      /\ \A i \in 1..(n - 1) : s[i + 1] \in flows[s[i]]}
      lengths   == {n \in 1..Cardinality(Pairs) : chains(n) # {}}
  IN  chains(CHOOSE n \in lengths : \A m \in lengths : n <= m)

\* The cycles add_cascade's search may find, from a pair back to itself.
FoundCycles(cache, casc) ==
  LET flows == Flows(dependencies, casc, cross) IN
  UNION {{<<e[1]>> \o chain : chain \in ShortestChains(cache, flows, e[2], e[1])} :
           e \in {e \in Entries(cross.forward) : FlowPath(cache, flows, e[2], e[1])}}

\* A path of channels goes on to one more, unless it is there already.
Passing(path, c) == IF path # << >> /\ path[Len(path)] = c THEN path ELSE Append(path, c)

\* The channels that the first n pairs of a cycle pass, once each in a row, up
\* to the end that repeats the start.
Passed(cycle) ==
  LET passed[n \in 0..(Len(cycle) - 1)] ==
        IF n = 0 THEN << >> ELSE Passing(passed[n - 1], cycle[n][2])
  IN  passed

\* The channels of the whole cycle, which may come back to its first one.
ChannelsPassed(cycle) ==
  LET once == Passed(cycle)[Len(cycle) - 1]
  IN  IF Len(once) > 1 /\ once[1] = once[Len(once)]
      THEN SubSeq(once, 1, Len(once) - 1) ELSE once

\* Mutant: wherever the search came upon the cycle, the path starts there.
CascadeCycleUnturned(from, to, cycle) == ChannelsPassed(cycle)

\* cascade_cycle_error: turned to start just after the new cascade's step.
CascadeCycle(from, to, cycle) ==
  LET channels == ChannelsPassed(cycle)
      n        == Len(channels)
      steps    == {i \in 1..n : channels[i] = from /\ channels[(i % n) + 1] = to}
      first    == CHOOSE i \in steps : \A j \in steps : i <= j
  IN  IF steps = {} THEN channels
      ELSE [j \in 1..n |-> channels[((first + j - 1) % n) + 1]]

\* add_cascade: the cascade's own check, then the rule goes in, and out again
\* if a cycle across channels is found.
AddCascade(from, to) ==
  LET added  == [cascades EXCEPT ![from] = @ \cup {to}]
      cache  == ReachOf(added, cross)
      closed == /\ handling # "Allow"
                /\ ReachesCrossing(cache, to, from)
                /\ CrossEdgeOnCycle(cache, added)
  IN
  /\ Free /\ RuleCount < MaxRules
  /\ \/ /\ to \in cascades[from]
        /\ Returns("AlreadyPresent")
        /\ UNCHANGED <<cascades, reach>>
     \/ /\ Reaches(cascades, to, from)
        /\ Returns("CycleError")
        /\ UNCHANGED <<cascades, reach>>
     \/ /\ to \notin cascades[from] /\ ~Reaches(cascades, to, from)
        /\ IF closed
           THEN /\ Returns("CycleError")
                /\ reach' = NoReach
                /\ UNCHANGED cascades
           ELSE /\ Returns("Added")
                /\ cascades' = added
                /\ reach' = IF handling = "Allow" THEN NoReach ELSE cache
  /\ UNCHANGED <<dependencies, cross, tracker, job>>

-----------------------------------------------------------------------------
(* Cross-channel edges. *)

MayChangeCross == Free /\ cross.generation < MaxGeneration

\* add_cross_dependency_with.
AddCrossDependencyWith(from, to, h) ==
  LET present == to \in Listed(cross.forward, from)
      checked == ~present /\ h # "Allow"
      cyclic  == checked /\ Flow(to, from)
  IN
  /\ MayChangeCross /\ RuleCount < MaxRules
  /\ Returns(IF present THEN "AlreadyPresent" ELSE IF cyclic THEN CycleVerdict(h) ELSE "Added")
  /\ cross' = IF present \/ cyclic THEN cross ELSE Linked(cross, from, {to})
  /\ reach' = IF checked THEN ReachAfterFlow(to, from) ELSE reach
  /\ CalledWith(h)
  /\ UNCHANGED <<dependencies, cascades, job>>

AddCrossDependency(from, to) == AddCrossDependencyWith(from, to, handling)

\* remove_cross_dependency and the clears: the cache learns of it from the
\* generation.
RemoveCross(after) ==
  /\ MayChangeCross
  /\ cross' = after
  /\ Returns(IF after = cross THEN "NotFound" ELSE "Removed")
  /\ UNCHANGED <<dependencies, cascades, reach, tracker, job>>

RemoveCrossDependency(from, to) == RemoveCross(Unlinked(cross, from, to))
ClearCrossDependents(from) == RemoveCross(WithoutDependents(cross, {from}))
ClearCrossDependencies(to) == RemoveCross(WithoutDependencies(cross, {to}))

\* replace_cross_dependents: the stale targets go first ...
ReplaceCrossDependents(from, targets) ==
  LET old == Listed(cross.forward, from) IN
  /\ MayChangeCross
  /\ Cardinality(targets \ old) + RuleCount <= MaxRules
  /\ job' = [op |-> "cross", from |-> from, old |-> old, before |-> rules,
             toRemove |-> old \ targets, toAdd |-> targets \ old,
             changes |-> Graph!Returned("Replaced", {}, old \ targets, {})]
  /\ UNCHANGED <<rules, reach, tracker, outcome>>

RemoveStaleTarget ==
  /\ job.op = "cross"
  /\ \E to \in job.toRemove :
       /\ cross' = Unlinked(cross, job.from, to)
       /\ job' = [job EXCEPT !.toRemove = @ \ {to}]
  /\ UNCHANGED <<dependencies, cascades, reach, tracker, outcome>>

\* ... then the new ones are judged and added one by one.
AddingTarget(to, cyclic) ==
  LET checked == handling # "Allow" IN
  /\ job.op = "cross" /\ job.toRemove = {}
  /\ to \in job.toAdd
  /\ (checked /\ Flow(to, job.from)) = cyclic
  /\ reach' = IF checked THEN ReachAfterFlow(to, job.from) ELSE reach
  /\ UNCHANGED <<dependencies, cascades, tracker>>

AddTarget(to) ==
  /\ AddingTarget(to, FALSE)
  /\ cross' = Linked(cross, job.from, {to})
  /\ job' = [job EXCEPT !.toAdd = @ \ {to}, !.changes.added = @ \cup {to}]
  /\ UNCHANGED outcome

\* Mutant: reported as ignored, and added.
IgnoreAndAddTarget(to) ==
  /\ AddingTarget(to, TRUE)
  /\ CycleVerdict(handling) = "CycleIgnored"
  /\ cross' = Linked(cross, job.from, {to})
  /\ job' = [job EXCEPT !.toAdd = @ \ {to}, !.changes.ignored = @ \cup {to}]
  /\ UNCHANGED outcome

IgnoreTarget(to) ==
  /\ AddingTarget(to, TRUE)
  /\ CycleVerdict(handling) = "CycleIgnored"
  /\ job' = [job EXCEPT !.toAdd = @ \ {to}, !.changes.ignored = @ \cup {to}]
  /\ UNCHANGED <<cross, outcome>>

FailTarget(to) ==
  /\ AddingTarget(to, TRUE)
  /\ CycleVerdict(handling) = "CycleError"
  /\ cross' = Relinked(cross, job.from, job.old)
  /\ Returns("CycleError")
  /\ job' = NoJob

\* The panic leaves the targets handled so far.
PanicTarget(to) ==
  /\ AddingTarget(to, TRUE)
  /\ CycleVerdict(handling) = "Panicked"
  /\ Returns("Panicked")
  /\ job' = NoJob
  /\ UNCHANGED cross

FinishCross ==
  /\ job.op = "cross" /\ job.toRemove = {} /\ job.toAdd = {}
  /\ outcome' = job.changes
  /\ job' = NoJob
  /\ UNCHANGED <<rules, reach, tracker>>

\* remove_key, as far as rules go.
RemoveKey(key) ==
  /\ MayChangeCross
  /\ Graph!RemoveKey(key)
  /\ cross' = WithoutKey(cross, key)
  /\ UNCHANGED <<cascades, reach, tracker, job>>

-----------------------------------------------------------------------------
ReplaceStep ==
  \/ \E dep \in Keys : KeepAdded(dep) \/ DropAdded(dep) \/ FailAdded(dep) \/ PanicAdded(dep)
  \/ FinishDependencies
  \/ RemoveStaleTarget
  \/ \E to \in Pairs : AddTarget(to) \/ IgnoreTarget(to) \/ FailTarget(to) \/ PanicTarget(to)
  \/ FinishCross

Next ==
  \/ ReadOutcome
  \/ \E from, to \in Keys, c \in Channels :
       \/ AddDependency(from, to, c)
       \/ \E h \in Handlings : AddDependencyWith(from, to, c, h)
       \/ RemoveDependency(from, to, c)
  \/ \E from \in Keys, c \in Channels, to \in SUBSET Keys :
       \/ ReplaceDependencies(from, c, to)
       \/ \E h \in Handlings : ReplaceDependenciesWith(from, c, to, h)
  \/ \E from, to \in Channels : AddCascade(from, to) \/ RemoveCascade(from, to)
  \/ \E from, to \in Pairs :
       \/ AddCrossDependency(from, to)
       \/ \E h \in Handlings : AddCrossDependencyWith(from, to, h)
       \/ RemoveCrossDependency(from, to)
  \/ \E p \in Pairs : ClearCrossDependents(p) \/ ClearCrossDependencies(p)
  \/ \E from \in Pairs, targets \in SUBSET Pairs : ReplaceCrossDependents(from, targets)
  \/ ReplaceStep
  \/ \E key \in Keys : RemoveKey(key)

Spec == Init /\ [][Next]_vars

-----------------------------------------------------------------------------
(* Properties. *)

Reaching == [generation : Nat, reach : [Channels -> SUBSET Channels],
             crossing : [Channels -> SUBSET Channels]]

Tags == {"Replaced", "Added", "AlreadyPresent", "CycleIgnored", "CycleError", "Panicked",
         "Removed", "NotFound", "KeyRemoved", "NotCalled"}

\* Every variable keeps the type of the field it models (tracker.rs, struct
\* InvalidationTracker); the edge counters never drop below zero.
TypeOK ==
  /\ dependencies \in [Channels -> [Keys -> SUBSET Keys]]
  /\ cascades \in [Channels -> SUBSET Channels]
  /\ Entries(cross.forward) \subseteq Pairs \X Pairs
  /\ cross.sources \in [Channels -> Nat]
  /\ cross.pairs \in [Channels -> [Channels -> Nat]]
  /\ reach = NoReach \/ reach \in Reaching
  /\ handling \in TrackerHandlings /\ guarded \in BOOLEAN
  /\ job.op \in {"none", "dependencies", "cross"}
  /\ outcome.tag \in Tags
  /\ outcome.added \cup outcome.removed \cup outcome.ignored \subseteq Keys \cup Pairs

\* A cache whose generation is the edges' own describes the rules as they are
\* now.  Cascades have no generation: every change of theirs must drop the
\* cache, those add_cascade takes back included; and edges may come and go,
\* key removals included, only with a new generation.
CurrentCacheIsTrue ==
  reach.generation = cross.generation => reach = ReachOf(cascades, cross)

\* Types, and the cache: also where it is the counters of the edges, which
\* every removal decrements, that say when a pair of channels is gone.
CacheSound == TypeOK /\ CurrentCacheIsTrue

\* As long as nobody has asked for Allow, invalidation never runs in a
\* circle, by any mix of the three kinds of rule: not after a cascade closed a
\* loop that dependencies and edges had left open, not after a replacement was
\* rolled back, and not after one of cross-channel edges panicked half-way.
\* (While replace_dependencies checks what the graph has added already, and
\* after a panic there, which leaves such an edge unchecked, one may exist.)
CombinedAcyclic ==
  guarded /\ job.op # "dependencies" => Acyclic(CurrentFlows)

\* Whether the pair q's invalidation already comes to the pair p.
ComesTo(q, p) == Reaches(CurrentFlows, q, p)

\* A call that ended in this step with the answer to an addition.
Answered == outcome = Graph!NotCalled /\ job = NoJob
            /\ outcome'.tag \in {"Added", "CycleIgnored", "CycleError"}

\* Every single addition is judged by the whole relation, whatever cycles are
\* there already: it is made exactly if it closes none.  The cache and the
\* pruning only save work; a chain they cut off would be a cycle let in.
AdditionsJudged ==
  [][Answered =>
     /\ \A from, to \in Keys, c \in Channels, h \in Asked \ {"Allow"} :
          to \notin dependencies[c][from] /\ AddDependencyWith(from, to, c, h)
          => (outcome'.tag = "Added" <=> ~ComesTo(<<from, c>>, <<to, c>>))
     /\ \A from, to \in Pairs, h \in Asked \ {"Allow"} :
          to \notin Listed(cross.forward, from) /\ AddCrossDependencyWith(from, to, h)
          => (outcome'.tag = "Added" <=> ~ComesTo(to, from))]_vars

\* A cascade that is let in, by a tracker that does not allow cycles, lets no
\* key's invalidation in `to` come back to it in `from` - though it adds an
\* arrow for every key at once, and cycles allowed by explicit calls are there.
CascadesJudged ==
  [][\A from, to \in Channels :
       /\ outcome'.tag = "Added" /\ cascades' # cascades /\ handling # "Allow"
       /\ AddCascade(from, to)
       => \A k \in Keys : ~Reaches(CurrentFlows', <<k, to>>, <<k, from>>)]_vars

\* The error for a cascade that would close a cycle across channels names a
\* way from `to` back to `from`, each channel passing invalidation on to the
\* next, whichever shortest cycle the search came upon and wherever on it -
\* provided there was no cycle before (cascade.rs, CascadeCycleError.path).
CascadeErrorsExplained ==
  [][\A from, to \in Channels :
       /\ guarded /\ outcome'.tag = "CycleError" /\ AddCascade(from, to)
       => LET added == [cascades EXCEPT ![from] = @ \cup {to}]
              found == IF Reaches(cascades, to, from) THEN {}
                       ELSE FoundCycles(ReachOf(added, cross), added)
          IN  \A cycle \in found :
                LET path == CascadeCycle(from, to, cycle) IN
                /\ path[1] = to /\ path[Len(path)] = from
                /\ \A i \in 1..(Len(path) - 1) :
                     /\ path[i] # path[i + 1]
                     /\ path[i + 1] \in ChannelArrows(added, cross)[path[i]]]_vars

\* add_cascade judges rightly, and gives the right reason.
CascadesDecided == CascadesJudged /\ CascadeErrorsExplained

\* The edges of one pair or key that a replacement is about.
Owned == IF job.op = "cross" THEN Listed(cross.forward, job.from)
         ELSE dependencies[job.channel][job.from]

SameRules(before, deps, casc, edges) ==
  before[1] = deps /\ before[2] = casc /\ Entries(before[3].forward) = Entries(edges.forward)

\* A replacement that fails leaves every rule as it found it, and one that
\* succeeds reports exactly how the edges it owns have changed (tracker.rs,
\* replace_cross_dependents: "On `Err`, no changes are retained").
ReplacementsReport ==
  [][job # NoJob /\ job' = NoJob =>
       /\ outcome'.tag = "CycleError" => SameRules(job.before, dependencies', cascades', cross')
       /\ outcome'.tag = "Replaced" =>
            /\ outcome'.added = Owned \ job.old
            /\ outcome'.removed = job.old \ Owned
            /\ outcome'.ignored \cap Owned = {}]_vars

\* "This rejects a cascade that would close a cycle through cross-channel
\* edges: some key whose invalidation in `to` would come back to it in
\* `from`" (tracker.rs, add_cascade): a cascade refused is such a cascade.
RefusedCascadeClosesCycle ==
  [][\A from, to \in Channels :
       outcome'.tag = "CycleError" /\ AddCascade(from, to) =>
         \/ Reaches(cascades, to, from)
         \/ \E k \in Keys : ComesTo(<<k, to>>, <<k, from>>)]_vars

=============================================================================
