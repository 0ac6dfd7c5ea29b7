# A verification of the `invalidation` crate

This directory holds TLA+ modules, model-checking configurations and
machine-checked proofs about `crates/invalidation`, a `no_std` Rust crate that
tracks which derived values must be recomputed after a change. Line numbers
refer to `src/crates/invalidation/src` unless another path is given.

Contents: [the system](#1-the-system), [the hard parts](#2-what-is-hard-here),
[the modules](#3-the-modules), [the runs](#4-the-runs-and-their-bounds),
[fairness](#5-fairness), [the proofs](#6-what-is-proved),
[what is left out](#7-what-is-not-modelled), [the plan](#8-plan).

## 1. The system

A *key* is a dense index. A *channel* is one of up to 64 independent kinds of
invalidation (layout, paint, ...). "`a` depends on `b` in channel `c`" means
that a change of `b` makes `a` stale in `c`. Everything runs on one thread,
behind `&mut` borrows; nothing is persisted and nothing blocks. What makes the
crate hard is not concurrency but long sequences of calls over several tables
that have to agree, operations that stop half-way (an error, a panic, a dropped
iterator), and graph algorithms that skip work on the strength of an invariant
kept somewhere else.

| Component | State it keeps | Operations that change it | What makes it correct |
|---|---|---|---|
| Dependency graph (`graph.rs`) | edges per channel, listed forward and in reverse, and for each key the channels in which each list is not empty | `add_dependency` under four cycle handlings, `remove_dependency`, `replace_dependencies` with roll-back, `remove_key` | the two directions and the caches agree; no duplicates; no cycle unless `Allow` was asked for; a failed replacement changes nothing |
| Invalidation set (`set.rs`) | invalidated keys per channel, a generation | `mark`, `take`, `drain`, `clear`, `clear_all`, `remove_key` | the generation changes whenever the contents do |
| Sorted drains (`drain.rs`) | in-degrees, ready queue, stall flag; borrows the set | `next`, `Drop` | dependencies come first; a stall means a cycle; what is not handed out goes back to the set; hints of its length are true at every point |
| Drain builder (`drain_builder.rs`) | the options asked for | `run`: takes roots out of the set, expands them, retains dependents outside the scope | what is expanded is what is affected; nothing is lost across the edge of a scope |
| Mark closure (`tracker.rs`, `policy.rs`) | worklist, processed and scanned pairs, stack | `mark`, `mark_with`, `mark_many_with`, `mark_with_trace` | marks what the policy promises and no less, whatever was marked before; reports what it marked; ends |
| Trace recorder (`trace.rs`) | one cause per (key, channel) | `record`, `clear` | following causes leads to a root |
| Channel cascade (`cascade.rs`) | direct and transitive rules channel → channel | `add_cascade`, `remove_cascade` | the transitive table is the closure of the direct one; no cycle |
| Cross-channel edges (`cross_channel.rs`) | edges (key, channel) → (key, channel) both ways, counts per source channel and channel pair | `add_edge`, `remove_edge`, `remove_key` | tables mirror each other; counts are exact |
| Channel reach cache, combined cycle search (`cycles.rs`) | cached channel reachability | `ensure_reach`, invalidated by every change of a rule or a first or last edge | never stale when used |
| Tracker (`tracker.rs`) | all of the above | cross-channel additions and replacements, affected drains across channels, `drain_channels_sorted` | no forbidden cycle across channels; draining ends with nothing invalidated |
| Adaptive tables and scratch (`adaptive.rs`, `scratch.rs`) | key sets, pair sets and in-degrees, in a hash map or a dense table; a stack | growth, insertion, removal, `reset` | a key is in exactly one of the two; the table stays within its budget; a walk does not see what the last one left |
| Interner (`intern.rs`) | values and their dense identifiers | `intern`, `clear` | equal values have one identifier, also if a hash unwinds or identifiers run out |
| Channels and names (`channel.rs`) | a bit set; names | pure operations | the bits are the set, and are listed in order |

How they interact: the tracker owns one of each. A mark reads the graph, the
cascades and the cross-channel edges, and writes the set and the recorder. A
drain takes keys out of the set, reads the graph while it iterates, and writes
what is left to the set when it is dropped. `remove_key` runs through all of
them. The graph calls back into itself: `replace_dependencies` is built from
`remove_dependency` and `add_dependency`, and so is its roll-back.

## 2. What is hard here

`PROJECT.json` lists the hazards with their lines. The themes:

* **Several tables, one truth.** Forward and reverse lists and two caches of
  channels; the drain counts in-degrees along one direction and decrements them
  along the other; the cycle search is skipped (`graph.rs:446`) because the
  reverse list is empty; `remove_key` visits only the channels the caches name.
* **Operations that stop half-way.** A replacement rolled back after its third
  addition (`graph.rs:601`), re-adding edges with the cycle check switched off
  (`graph.rs:606`); a debug panic that skips the roll-back (`graph.rs:405`); a
  drain dropped in the middle of the iteration (`drain.rs:378`).
* **Work skipped because it was done before.** The eager walk stops at pairs it
  has scanned, and must not stop at pairs that were merely invalidated before
  the call (`tracker.rs:1057`); the fast path ignores other channels
  (`tracker.rs:980`).
* **Lazy marks.** Only roots are marked, and the keys between two marked keys
  are not; the order of an affected drain must respect paths through keys
  nobody marked.
* **Scopes.** A drain of a few keys clears marks on which keys outside the
  scope still depend.
* **One relation in three places.** Whether an addition closes a cycle depends on
  dependencies, cascades and cross-channel edges together. The tracker answers
  with a search pruned by a cached reachability between channels
  (`tracker.rs:757`), which must be dropped by every change that matters to it.
  A cascade is an arrow for every key at once, and is added before it is
  checked (`tracker.rs:546`); a replaced row is checked after the graph has
  already changed (`tracker.rs:516`).
* **Cycles.** `Allow` admits them, so every traversal has to end on a cyclic
  graph, and a drain has to report the keys it cannot order.
* **Objects that outlive the call.** A recorder sees many marks and edits in
  between; the first cause wins, and holds only a part of its source
  (`trace.rs:93`). A scratch is reused after a callback unwound in the middle of a
  walk (`graph.rs:870`).
* **Drains that make work for each other.** A drain marks pairs in other channels
  while it holds keys of its own (`drain_builder.rs:126`): what comes back to its
  channel must not be marked if it holds it, and must be if it does not; and
  channels drained in turn must come to an end.
* **One container, two tables.** Keys move from a hash map to a table while the
  table grows, within a budget that changes with the number of keys
  (`adaptive.rs:198`).

## 3. The modules

```
Reachability                        reference definitions: reachable, acyclic, transposed
  ReachabilityTheorems              lemmas about them, about loops and about chains
DependencyContract                  the graph as its caller sees it: atomic operations
  ^ implemented by
DependencyGraph                     graph.rs: lists, caches, replacement in small steps
  DependencyGraphProofs             types, agreement of the tables, queries, acyclicity,
                                    DependencyGraph implements DependencyContract
PendingWork                         what one channel owes its user
  ^ implemented by (careful drains)
SortedDrain                         drain.rs, drain_builder.rs
  SortedDrainProofs                 exact in-degrees, order, stalls, no lost work
TrackerDrains                       tracker.rs, drain_builder.rs, trace.rs: drains
                                    that pass work on to other channels
  TrackerDrainsProofs               work is held once, delivered first, explained,
                                    never lost; passes; settled channels
MarkContract                        a mark as one step, by reachability
  ^ implemented by
MarkClosure                         tracker.rs mark_closure, policy.rs, trace.rs
  MarkClosureProofs                 what is scanned is covered, reports, causes, progress,
                                    MarkClosure implements MarkContract
ChannelCascade                      cascade.rs: direct rules and their closure
  ChannelCascadeProofs              the rules stay acyclic, the table is their closure
CrossEdgesContract                  a set of edges between pairs
  ^ implemented by
CrossChannelEdges                   cross_channel.rs: the operations, on ...
  CrossEdgeTables                   ... the struct: two maps, counters, generation
CrossChannelGuard                   tracker.rs, cycles.rs: checks across channels,
                                    composed from DependencyContract, a cascade
                                    and CrossEdgeTables
  CrossChannelProofs                of both: maps, counters and generation, the
                                    contract; the cache is true, no cycle across
                                    channels, additions judged, replacements atomic
AdaptiveTables                      adaptive.rs: a key set, a pair set, in-degrees
  Traversals                        scratch.rs, graph.rs, policy.rs: the walks that
                                    use a key set and a stack
InternedMarks                       set.rs with the identifiers of intern.rs
  ContainerProofs                   of Traversals: containers are sets, walks meet all,
                                    paths are shortest; of InternedMarks: identifiers and
                                    generations hold, marks are those that calls meant
  MarkedChannelSets                 the channels of a set of marks, as ...
    ChannelSets                     ... channel.rs: sets of channels as bits
      ChannelIndices                the channels there can be
MCDependencyGraph, MCMarkClosure, MCCrossChannelEdges, MCCrossChannelGuard,
MCTraversals, MCTrackerDrains, MCInternedMarks       instances for TLC
```

Reachability is defined without recursion, as membership in every closed set
that contains the start. That is what every traversal in the crate computes,
and it makes a proof about reachability the choice of one closed set.

**DependencyGraph.** `forward` and `reverse` hold, per channel, how often a key
is listed in a list (`graph.rs:207-220`): duplicates and one-sided entries are
states the representation admits and the invariants exclude. The caches of
channels are variables of their own. `AddDependency`, `RemoveDependency` and
`RemoveKey` are single steps, as are the functions. `replace_dependencies` is
the function that calls others and can fail, so it is a `job` that runs one
inner call per step: `RemoveStale`, then `AddNew`, `IgnoreCyclic`,
`FailReplace` or `PanicReplace` per addition, then `FinishReplace`; or, after a
failure, `UndoAddition`, `UndoRemoval`, `FinishUndo`. The order in which the
loops visit their lists is left open. `outcome` is the returned value; the
caller reads it (`ReadOutcome`) before the next call. `DebugBuild` chooses
whether `DebugAssert` panics or ignores. The queries are operators, which
`QueriesAgree` relates: `edges` takes its sources from the other table's lists.

**DependencyContract** has the same operations as single steps over one set of
dependencies per key and channel. The mapping shows the caller, during a
replacement, the row the roll-back would restore (`Visible`).

**SortedDrain.** One channel. `OpenDrain` is `DrainBuilder::run` for any mode,
scope, order and retention: take the roots, expand them inside the scope,
retain dependents outside it, set up Kahn's algorithm. `OpenPeek` is
`peek_sorted`. `Yield` is one successful `next`, `Exhausted` an unsuccessful
one, which sets the stall flag; `Drop` may happen at any time and gives the
rest back to the set if the drain owns its keys. `IsEmpty`, `Remaining`, `Completion` and
`SizeHint` are what the open drain would answer. While a drain is open nothing
else changes, since it borrows the set and the graph. Which scope a caller
names is open: any list of keys, or what `within_dependencies_of` computes.

**PendingWork** reduces a channel to its marks. A key is *owed* if it is marked
or depends on a marked key. A step may rewrite the marks if they say the same,
or hand out one key and keep everything else owed.

**TrackerDrains.** All channels of one tracker, whose rules are chosen at the start and
borrowed by its drains. `Drain` is the builder the tracker hands out, with the
rules that pass work on only if something leads out of the channel; the
builder's options are functions of it. A drain takes its roots (`TakeKeys`),
expands them (`Collect`), retains and lists what is to be passed on (`Retain`),
passes it on (`Follow`, one turn of `CrossRules::follow`), and becomes an iterator
(`Run`) that hands keys out (`Yield`) until it is dropped. `drain_channels_sorted` is a
pass of such drains. `settled` is a history variable: the channels of which the
caller may believe that they are done.

**MarkClosure.** (key, channel) pairs. Cascades enter by their direct rules, of
which `CascadesFrom` takes the closure; cross-channel edges by the relation
`dependents()` returns. `BeginMark` chooses the fast path as the code does. One
turn of the outer loop is `SkipProcessed`, `SkipScanned`, `EagerStep` or
`PolicyStep`; one turn of the walk is `Walk`. Worklist and stack are sets, so
all orders are covered, the code's among them. A custom policy marks the key and
any of its dependents. `causes` is a `OneParentRecorder` that outlives calls: a
cause is a record of its kind with the part of the source the code keeps, and
`Source` puts the source together as `trace.rs:93` does. That a pair has a path back
(`HasPath`) is reachability along the pairs its causes blame. The report of the call
counts as the code counts, by differences of lengths.

**MarkContract** gives, in one step and for the roots and the policy asked for,
each policy's result: the eager policy marks all that the roots reach, the lazy
one what they reach without following same-channel dependents, any other policy
something between the two. The request is a variable of the contract, so an
implementation cannot answer for other roots.

**ChannelCascade.** `direct` is the rules, `transitive` the table kept beside them.
`recompute_transitive` is `Closure`: for each channel a loop (`Turns`) whose turn
is `FollowFrontier`. `from_edges` adds one edge per step (`BuildEdge`) and may fail on
each. The chain an error carries (`CascadePath`) is walked through the transitive
table as the code walks it (`Walk`, one channel per turn), and in the order a
`ChannelSet` yields channels, which is why channels are numbers here.

**CrossEdgeTables, CrossChannelEdges.** The struct as one record: two maps from
pairs to lists, the number of entries per source channel, the number of edges
per channel pair, and the generation, which changes when a pair of channels
gains its first or loses its last edge. An empty list and no list are different
values, because `clear_dependents` and the queries tell them apart. Each
operation is a function of the record; `CrossChannelEdges` makes them the actions
of a machine, `CrossEdgesContract` says what they mean for a set of edges.

**CrossChannelGuard.** All rules of a tracker and every operation that changes
one. The graph is used by its contract, the cascade as a relation, the edges as
the struct whose generation the guard reads. `EnsuredReach` is `ensure_reach`:
the cached `ChannelReach` if its generation is the edges' own, else a new one.
`FlowPath` is the search, pruned by that cache. `replace_dependencies_with` and
`replace_cross_dependents` are `job`s that make one inner call per step and may
fail (`FailAdded`, `FailTarget`) or panic (`PanicAdded`, `PanicTarget`) at any of
them. `handling` is the handling a tracker was created with; a call may name
another. `guarded` is a history variable: no call so far could leave a cycle
behind. A tracker starts empty, or from a graph or a cascade built elsewhere
(`FromGraph`, `WithCascades`). The chains found matter for the errors of cascades only:
`FoundCycles` are the shortest ones, any of which the search may return, and
`CascadeCycle` turns one round and drops repeated channels as the code does.

**AdaptiveTables.** A container is a record with the entries in the table, its
length, the entries in the hash map and the bookkeeping (`min_hashed`, the number of
keys). `KeySet` and `PairSet` grow by `GrowFor`, `InDegrees` is sized once; insertion,
lookup and removal choose the half by the index. A `KeySet` keeps its words when it is cleared,
so its budget is that of the most keys it ever held, which `peak` remembers. The width of a word, the
budget's two constants and the largest index are parameters.

**Traversals.** A walk meets the dependents of a root through a key set and a stack,
either its own or those of a scratch it resets first. `Visit`, `Trace` and `Search` are one
turn each of the three loops; `Abandon` is a callback that unwinds and leaves the
scratch as it is. `dependency_path` keeps a queue, since its answer depends on the order.

**InternedMarks, MarkedChannelSets, ChannelSets.** The interner's list of keys and its index of identifiers,
with a hash that collides and may unwind while the index grows; the set of
invalidated identifiers with its generation; a reader that keeps a clone and the
generation it was taken at, to see whether a change of the contents always shows.
There are `IdLimit` identifiers and `Generations` generations. `ChannelSets` computes
with the bits of a word; `MarkedChannelSets` lists the channels of a set of marks with them, and
`ChannelSetsExact` compares them with the sets they stand for. It is a module of its own since
the prover has no theory of bits, and what is proved of the identifiers needs none.
`clear` of the interner asks nobody for the identifiers it gave out: they become `lapsed`,
stay in the set, may be used in any later call, and their numbers go to other keys.
What the composition means to a caller who knows only keys is kept in history variables:
`meant` has the pairs marked by the keys' own identifiers since the last clear, `extra` the
channels that may hold marks nobody meant (the clear left them there, or a lapsed identifier was marked),
`lacking` those where a lapsed identifier took a mark away. Emptying a channel ends both. `MarksMeant`
compares the set with them: an identifier taken for another key, or a key found where another is, would mark or
clear the wrong one.

## 4. The runs and their bounds

A property that has parts is a conjunction of named definitions; the mutants in
`PROJECT.json` break the parts one by one.

| Property | Its parts |
|---|---|
| `TablesConsistent` (`graph`) | `TypeOK`, `DirectionsAgree`, `NoDuplicateEntries`, `CachesExact` |
| `CountsExact`, `StallsTold`, `KeepsOrder` (`drain`) | `TypeOK` and `DegreesExact`; `StalledBehindCycle` and `HintsHold`; `DependenciesFirst`, `AffectedOrder` and `SmallestFirst` |
| `WalkSound` (`mark_trace`) | `TypeOK`, `ScannedIsCovered` |
| `TablesExact` (`cascade`) | `TypeOK`, `TransitiveExact` |
| `CountersServe` (`cross_edges`) | `EdgesTypeOK`, `CountersExact`, `QueriesAnswer` |
| `CacheSound`, `CascadesDecided` (`guard`) | `TypeOK` and `CurrentCacheIsTrue`; `CascadesJudged` and `CascadeErrorsExplained` |
| `TablesSound`, `WalkRemembers`, `WalksAnswer` (`tables`) | `TypeOK`, `KeptWhereLookedUp`, `BookkeepingExact` and `WithinBudget`; `MeetsOnce` and `SourcesLeadToRoot`; `MeetsAll` and `PathIsShortest` |
| `WorkDivided` (`tracker_drains`) | `TypeOK`, `HeldOnce` |
| `TokensHold`, `ChannelsExact`, `MarksMeant` (`interned_marks`) | `MarksTypeOK`, `InternedOnce` and `GenerationTells`; `ChannelsListed` and `ChannelSetsExact`; no mark too many but in `extra` channels, none too few but in `lacking` ones |

| Run | Instance | What it shows |
|---|---|---|
| `graph` | 3 keys, 2 channels, `DebugAssert`, `Error` and `Ignore`, debug build | types; the tables agree, within and across channels; queries agree; every operation is atomic, and has the effect and the answer the contract gives for its arguments; no cycle at any step |
| `drain` | keys 1..3, both modes, both orders, with and without retention, peeks | order of all kinds, exact in-degrees, a stall shows a cycle, hints are true; a careful drain implements `PendingWork` |
| `mark_policies` | 2 keys, 2 channels, 2 edges and rules at a time, all policies | each policy keeps its promise on the marks the others left, the report tells what was marked, every turn comes nearer the end |
| `mark_trace` | 2 keys, 2 channels, 2 edges and rules, traced | the recorder explains every pair; the walk's invariant |
| `cascade` | channels 0..3 | no cycle, the table is the closure, an error's chain is a cycle |
| `cross_edges` | 2 keys, 2 channels, 3 edges at a time | maps, counters and generation in step; queries; every call has the effect and the answer the contract gives for its arguments |
| `guard` | 2 keys, 2 channels, 3 rules at a time, trackers of all four handlings, debug build | the cache is true when it is used; no combined cycle until `Allow` is asked for; additions are judged exactly, no cascade that closes a cycle is let in, and the error of a refused one shows a cycle, among cycles allowed before |
| `guard_rollback` | 3 keys, 1 channel, 4 rules at a time | a replacement that fails late leaves no trace, one that succeeds reports exactly |
| `guard_refuses_cascade` | as `guard`, `Error` only | a violation, below |
| `tables` | keys 3, 5, 6, 9, 2 channels, 2 slots per entry, 2 free, words of 2 bits, 3 edges | containers are sets, keys are where they are looked up, the budget is kept; walks meet everything once, whatever was abandoned before; paths are shortest |
| `tracker_drains` | 2 keys, 2 channels, 2 rules, passes over up to 2 channels | work is passed on before a key is handed out, held once, never lost; one pass is enough; stalls are listed; draining ends |
| `interned_marks` | 3 keys, 2 of which collide, 2 ids, 4 generations, 3 bits of channels | one id per key through collisions, unwinding and exhaustion; the generation tells a change; channel bits are sets; the marks are those that calls by keys meant, with the interner cleared at any time and its earlier identifiers still in use |

Why these are enough for the interesting cases. Three keys have cycles of
length two and three, a replacement with one stale dependency, one good and one
refused addition, and a roll-back with something to undo in both directions.
In a drain three keys make a chain with an unmarked key in the middle, a
diamond side and a key behind a two-cycle, and a scope that cuts the chain.
In a mark two keys and two channels give a pair to every combination of "same
key, other channel" and "other key, same channel", and the marks left by earlier
calls start each call from every subset. Three rules on two keys and two
channels close a cycle through one of each kind; three keys and four rules let
the first of two additions pass and the second fail, with something removed
before either. Two rules of a tracker make work that comes back to the channel it
left from, to a key the drain holds or to one it does not, and a chain of two
channels. With two slots per entry and two free ones a table has room for key 3 at
once, and for 5, 6 and 9 only when enough other keys are there: a key that arrives
early is hashed, and moved when a later one makes the table grow past it. With two identifiers
the third key finds none left; four generations come round after four changes.

`Allow` is not among the handlings of `graph`, so that acyclicity can be checked
in the same instance; the theorems about the graph cover all four
handlings, and `guard` runs the graph's contract under `Allow`.

The artificial bounds are these. `MaxEdges` and `MaxRules` limit the edges and
rules that exist at the same time, not how often they change (in `tables` and
`tracker_drains`, where the rules are borrowed, those there are). `MaxOrder` limits the
channels listed for one pass. `MaxDegree` limits the in-degrees written to a
table, and `MaxCapacity` the growth of the interner's index, which is then as
large as the identifiers need. `ReadsOn` is false in `interned_marks`: the reader compares generations
to the end but takes no new clone once the interner was cleared, which changes nothing that it reads. `MaxGeneration` (`LastGeneration` in `cross_edges`) ends the changes
to cross-channel edges of a behaviour, since that generation is an unbounded counter here. It leaves room
for a first edge, its removal and another first edge between the same
channels, which is what makes a cache stale twice. Where it applies
(`cross_edges`, `guard`, `guard_rollback` and `guard_refuses_cascade`) deadlock is not
checked, since the bound is what may stop the system; elsewhere the next-state
relations have no final states, and deadlock is checked.

Symmetry permutes keys and channels where they are model values and no liveness
property is checked. `MCTrackerDrains`, which checks one, chooses among trackers that
differ by names only: the channel, and the key, that more rules leave from
comes first. (The order of keys matters to deterministic drains only, whose
choice among ready keys no property of this run speaks of.)

`GenerationTells` speaks of a reader who knows of fewer calls, since it looked last,
than make the counter come round. With the 64 bits of the code that is no
restriction.

**The violation.** `add_cascade` is documented (`tracker.rs:535-544`) to reject a
cascade that would close a cycle. It looks for *any* cycle through a
cross-channel edge (`tracker.rs:566`) once the channels of the new rule could lie on
one. If an explicit call under `Allow` has left a cycle elsewhere, a cascade that
closes none is refused. `guard_refuses_cascade` finds it;
`CascadesJudged` in `guard` shows that the error is on the safe side only.

## 5. Fairness

`TrackerDrains` has the liveness property, `BecomesClean`: where the rules form no cycle,
and once nothing new is marked, the tracker is clean in the end.

* `WF_vars(Draining)`, and the weak fairness of the steps of a pass: `run` and
  `drain_channels_sorted` are ordinary functions on the caller's thread, and nothing
  they wait for exists.
* `WF_vars(Drop)`: an iterator is a value on the stack, with a borrow of the tracker. A
  caller who kept it for ever would have no tracker to speak of.
* `SF_vars` of opening an affected drain of each whole channel: the caller comes back
  for every channel. This is what the property assumes of a caller, not what the
  code does; strong, since the tracker is busy with other drains in between.
* `SF_vars` of handing out each key that is held: drains are opened again and again,
  and a caller who drops each just before a certain key would never get it.

No order among the channels is assumed. That a caller marks no more is a
hypothesis of the property, `<>[][~Marking]_vars`, and acyclic rules are another: on a
cycle across channels two drains can hand the work to each other for ever, as
the documentation of `add_cross_dependency_with` says.

That a mark call ends is checked as an action property, not as liveness:
`CallsAdvance` says that each turn of its loops comes nearer the end by a measure that
cannot fall for ever. It needs no fairness but that the function goes on running.

## 6. What is proved

All theorems hold for every value of the constants that satisfies the named
assumptions: keys are finitely many (`GraphAssumption`, with the four handlings of
`CycleHandling`), and so are channels where a proof counts pairs
(`MarkAssumption`, `TablesAssumption`, `TrackerDrainsAssumption`; the crate has 64); keys are numbers
where drains are to be deterministic (`DrainAssumption`, `TrackerDrainsAssumption`) and where
tables are indexed (`TableAssumption`: each below the number that stands for "none", for
any word size and budget), channels where the order of a
`ChannelSet` matters (`CascadeAssumption`); there is at least one generation, and hashes are
any function (`InternedMarksAssumption`); the bounds are natural numbers
(`EdgesAssumption`, `GuardAssumption`). The bounds do not enter the proofs
otherwise: a machine that may stop early has fewer behaviours, and the theorems
hold for each value of the bound. Every property of the runs `graph`, `drain`,
`mark_policies`, `mark_trace`, `cascade`, `cross_edges`, `guard`, `guard_rollback` and `tables` is a
theorem, and so are those of `tracker_drains` but `BecomesClean` and those of `interned_marks`
but `ChannelsExact`.

**The graph.** The invariant comes in three layers, each inductive given the
ones below.

1. `TypeCorrect`: the tables and the replacement in progress have their types.
2. `TablesAgree`: directions, multiplicities and caches agree, which with the types is
   `TablesConsistent`. The three are
   inductive together only: a removal keeps the directions mirrored because
   there is one entry to remove, and `remove_key` reaches every edge of the key
   because the caches are exact.
3. `JobInvariant`: a replacement knows what it has done. What it added is
   listed, what it removed is not, each addition made was judged acyclic, each
   one ignored was judged cyclic. It uses `InsertKeepsReachingSource`: edges out of a
   key do not change what reaches that key, so the judgement of one addition
   does not depend on which others were made before.

Then:

* `GraphAcyclic`: no cycle unless `Allow` was asked for. Acyclicity alone is not
  inductive, because the roll-back re-adds edges without a check; the
  inductive form also says that what would be rolled back to (`Visible`) is
  acyclic. The shortcut of the cycle search is sound by layer 2
  (`ShortcutSound`), and an insertion is by `InsertAcyclic`.
* `QueriesAreConsistent`: `QueriesAgree` follows from `TablesConsistent` without another
  invariant. The degrees and `edge_count` are sums of list lengths; that such a
  sum counts edges is shown owner by owner, by induction over the set of keys
  (`SumCounts`).
* `GraphImplementsContract`: inner steps stutter, since they keep `Visible`; the
  last step is the contract's replacement. The target set it needs is put
  together from the state: the row and the ignored additions, or the row and
  the addition that failed.
* `GraphKeepsToArguments`: the contract's step is the one for the arguments of
  the call in progress. Without it a graph that refused harmless additions, or
  replaced with a set of its own choosing, would still implement some contract
  step.

**The drain.** `DrainInv` joins three parts. Types are not inductive without
exact degrees (an in-degree is a natural number because a key with a waiting
dependency has a positive count), so `TypeOK` and `DegreesExact` go together.
`ScopeInv` says where keys come from: the keys of a drain are in its scope, an
owned drain leaves no mark inside it, and an affected drain holds, with each
key, its dependents in the scope. From it follow:

* `CountsAreExact`: types and degrees together.
* `DependenciesComeFirst`, `SmallestComesFirst`: directly from exact degrees.
* `AffectedInOrder`: the keys of the scope that no longer wait are closed under
  dependencies, so whatever the yielded key depends on, at any distance, is
  among them. `OrderIsKept` joins the three.
* `StallsAreTold`: a drain says that it stalled only when nothing is ready and
  keys wait (`StallInv`). Each of them then waits for another, and a finite set in
  which each member depends on another has a cycle: `NoEndWithoutCycle`, by induction over
  that set.
* `NoWorkIsLost`: the steps of a careful drain, a peek or an affected drain with
  retention, are steps of `PendingWork`, whatever drains there were before. `RetainInv` adds
  that the dependents of a waiting key outside the scope are marked; so the set
  of keys still owed, with the yielded key, is closed. Of other drains the
  property would be false, as it should be: a drain of marked keys only, under
  lazy marks, gives their dependents up.

**The mark closure.** `MarkInvariant`. The inductive invariant says of a call in
progress:

* `Bounded`: what it marks, lists, scans and stacks is within what the roots reach by the
  relation its policy follows (`Limit`);
* `Covered`: what was left behind is complete. An eager call covers what it has
  scanned: all that a scanned pair flows to is scanned, stacked or listed. That a
  pair was *invalidated* when the call began plays no part, which is the
  point. Any other call covers the channels it has to cross to. The fast path
  stays in one channel that nothing leaves;
* `Counted`: the report agrees with the marks, but for the walk in progress, whose
  new marks are the difference of two lengths;
* `Sourced`, between calls too, and without custom policies, which may leave a
  cause out: every cause in the recorder leads to a root, and whatever is going to
  be blamed has a cause already.

`WalksAreSound`, `ReportsAlwaysTell` and `RecordersExplain` are read off it.
`MarksImplementContract`: when a call returns nothing is stacked or listed, so by
`Covered` the scanned pairs are closed under the flow and hold the roots; by
`Bounded` they are nothing more. `CallsAlwaysAdvance` needs the types alone.

**The cascade.** `CascadeAcyclic`. Acyclicity of the direct rules is inductive by
itself: a rule is inserted only if its target does not reach its source, and a
removal leaves fewer chains. The table does not enter, because the check
searches the direct rules. `CascadeInvariant` adds the table:

* `TablesAreExact`: the frontiers of `recompute_transitive` never meet again what was
  found, so there are at most as many turns with something to do as there are
  channels (`LoopInvariant`), and what is found then is closed (`ClosureExact`).
* `ErrorsNameCycles`: by the exact table the walk always has a step towards its goal
  (`AlwaysAStep`), so the code's `expect` is never reached; without a cycle it meets no
  channel twice (`ChainIsSimple`), so it ends.

**The cross-channel edges.** The invariant (`Counts`): the reverse map holds the
flipped entries of the forward map, neither holds an empty list, a source channel's
count is the number of its lists, and a channel pair's count the number of the edges
between the two. The maps need each other: an entry is taken out of a
list found through the other map, and a list is dropped when it is emptied. The
counts need the maps. The lemmas that open `CrossChannelProofs`
say what each operation on the struct does to its entries, counters and generation; from them
`MapsAlwaysAgree`, `CountersAlwaysServe`, `GenerationAlwaysTells`,
`CrossEdgesImplementContract` (the set of entries is the set
of edges, and the answers, which the code reads off lists and lengths, are the
contract's), and `CrossEdgesKeepToArguments`. The run checks the last only: where each
action is the contract's for the same arguments, the contract is implemented.

**The checks across channels.** `InvHolds`. Its parts:

* the struct of edges is sound (`Counts`) and the cascade acyclic;
* a cache is of an earlier generation, or it is `ReachOf` the rules as they are
  (`IsCache`). That is inductive because the generation moves whenever the channel pairs do
  (`Moves`) and every change of a cascade drops the cache. `CacheAlwaysSound` follows;
* a replacement in progress knows what it found, added and removed (`JobInv`);
* while every call was guarded the combined relation has no cycle (`GuardedInv`). In the
  middle of a replacement of dependencies it may have one, since the graph
  adds first and the tracker checks after; without the additions not yet checked it
  has none, and neither have the rules that a failure goes back to.

`PruningLosesNothing` is the heart: a chain to the goal never leaves the channels from
which a true cache says that the goal's channel is reached, since a flow between
pairs projects to arrows between channels. So a pruned search answers as a full one
(`AdditionsAreJudged`), also within a channel that no chain can leave and come back
to (`ChainStaysInChannel`), and for a cascade, an arrow for every key at once, it is enough
to look for cycles through cross-channel edges (`CascadeSearched`). From these
`GuardedStaysAcyclic` and `CascadesAreDecided`, whose second half is about errors: a
shortest chain visits no pair twice (`ShortChain`), so there is one to return; the cycle it
closes goes through the new cascade, since there was none without it
(`CycleIsNew`); the ring of its channels (`ChannelsMakeARing`), turned, is the path
(`PathTurned`). `ReplacementsTell`: a failure leaves the rules as `job.before` has them.

**The tracker's drains.** A drain looks for what to pass on by worklists, and
`ClosureReaches` says once what they come to: as many rounds as there are points reach
all that is reachable. `Progress` is what a drain knows of its own progress, and each
promise adds its part to it, inductive given those before:

* `Progress`: types; the keys of a drain are in its scope, what it retained is marked and outside,
  and each item of work comes from where the drain was (`Selection`); no pair is held and
  marked (`HeldOnce`). The last needs the others: `follow` may mark a pair of the drain's own
  channel, and does so only if the drain does not hold it. `AlwaysWorkDivided`.
* `Delivery`: where a drain was leads to pairs it met or has still to follow. With
  nothing left to follow the pairs it met are closed (`AlwaysDeliversFirst`).
* `Paths`: a cause, once noted, stays, and the source of what will be noted has a path
  already (`AlwaysExplained`).
* `Settlement`: what feeds a settled channel is settled, so a drain that leads into it has no keys, and
  a drain of a whole channel takes all its marks, which do not come back while
  what feeds it is settled (`AlwaysOnePass`).
* `PassState`: where a drain of a pass ends, each key still held waits for another; another
  drain of that channel finds them as they were and hands out none of
  them either (`AlwaysStalledListed`).
* `Coverage`: a careful drain has all that its keys lead to, in its own channel and in others.
  So a key it hands out leaves nothing behind that is not marked, held or
  handed out before, and `AlwaysKeepsWork` follows action by action.

**The tables and the walks.** For each kind of container a predicate says that it is sound
(`IsKeySet`, `IsPairSet`, `IsInDegrees`): a key is in the half its index belongs to, the bookkeeping
is exact, and the table is no longer than the budget allows (of a `KeySet`, what it allows for the most
keys held so far: `KeyHalves` is the rest of `IsKeySet`, and a larger number of keys has a larger
budget, `BudgetInOrder`). Making a table longer takes
over the keys it covers now, and changes nothing that is found (`AlwaysTablesSound`,
`AlwaysTablesFaithful`). `WalkInv` joins that with what a walk knows:

* the key set is what the walk has met, and all that a met key leads to is met or on
  the stack, whatever the scratch held before (`VisitSound`, `TraceSound`): `AlwaysWalkRemembers`,
  and, when the stack is empty, the first half of `AlwaysWalksAnswer`;
* the frontier of a search holds keys that are `e` arrows away and then keys that are `e + 1` away
  (`InOrder`); what a key was found from is one arrow nearer. So the chain back from the goal
  (`Back`) is as long as the goal is away, and nothing is shorter (`PathLeads`).

**The identifiers.** `TokensInv`. The index holds the identifiers of all keys, none of which is there
twice, and each identifier the caller has is below the number of keys and its key's
own. Of identifiers given out before a clear nothing is known but that they are numbers.
A reader is behind by no more generations than there were calls (`Behind`), and if it is not
behind it saw the marks there are: the counter cannot have come round with
fewer calls than there are generations. `AlwaysTokensHold` follows. `AlwaysMarksMeant` needs besides
that another key has another identifier (`IdOfKey`, from `InternedOnce`), so that the identifiers of the keys meant in a
channel (`IdsOf`) gain and lose exactly the one a call names (`IdsWithOneMore`, `IdsWithoutKey`), and none
as other keys are interned (`IdsOfMoreKeys`). Then the set is compared with them action by
action: `InternMeaning`, `KeyCallMeaning`, `EmptiedMeaning`, `LapsedMeaning`, `ClearInternerMeaning`.

**Loops and sets.** The induction theorems of the library take operators, which the provers
at hand do not instantiate. `ReachabilityTheorems` states them with sets
instead (`EveryTurn` over the turns of a loop, `EverySubset` over a finite
set, both from the library's well-founded orders), and that a recursively defined loop has the
values its turns give it (`LoopRuns`, `TurnsRun`). That is why the models keep the
loops of the code as recursive functions of the number of the turn.

Not proved, only model-checked:

* `BecomesClean`, because liveness under fairness is out of the prover's reach;
* `ChannelsExact`, because the prover has no theory of the bit operations `ChannelSets` is written
  with.

## 7. What is not modelled

* Table growth and dense indexing in the graph's own lists: a missing row reads as
  an empty one. A capacity overflow in the middle of `add_edge`, which takes an
  index of the order of the address space, is left out with it.
* The order of entries in a list: `swap_remove` shuffles it, and no result but
  the order of a plain drain's ready keys depends on it; that order is open.
* Names of channels and keys, `Debug` and `Display`, error text, and the path of keys in
  the error of a dependency or a cross-channel edge.
* The order of worklists and stacks, except that every order is explored.
* A trace recorder or a policy that unwinds: the code promises nothing there
  (`drain_builder.rs:679` would lose the roots it has taken). Callbacks of walks and
  hashers that unwind are modelled.
* In `SortedDrain`: cascades and cross-channel rules of a drain, and the trace it
  writes, which are `TrackerDrains`' subject; the selection of the keys is one step there,
  and the whole iteration of `collect_with_completion` is the steps of any caller. In
  `TrackerDrains`: the in-degrees, and changes to the rules.
* In `MarkClosure`: how rules and edges are kept, and who checks them
  for cycles; any relation on pairs is admitted, and dependencies may form
  cycles.
* In `CrossChannelGuard`: the order in which the breadth-first searches visit pairs; the
  set and the recorder, which rules do not touch except in `remove_key`.
* `CombinedAcyclic` says nothing once `replace_dependencies_with` has panicked
  (`tracker.rs:1402`): the graph has then added edges that were not checked across
  channels, and the code promises nothing there. The other panics are included.
* The generation of the cross-channel edges is an integer; that it wraps after 2^64
  changes and could meet a cache of the same number is left out. That of the set
  wraps in `InternedMarks`.
* An order across channels: a cross-channel edge that stays in its channel puts
  the keys one drain holds in no order (`tracker.rs:2853` tests this), so no property
  demands one.
* What a mark by an identifier from before a clear of the interner stands for: the documentation
  declares such identifiers invalid, and `MarksMeant` promises nothing of the channels
  where one was used until they are emptied. The calls themselves are modelled.
* The crate root, the examples and the benchmarks, which have no state of their own.

## 8. Plan

Done: every component of the crate that keeps state has its module, and every property of the
passing runs that the provers can reach has its proof.

What a maintainer may want to add, should the code go that way:

1. The order of entries in the graph's lists, if an order of plain drains is ever promised.
2. A capacity overflow in the middle of an edit of the graph, if the index space shrinks.
