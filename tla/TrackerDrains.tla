---------------------------- MODULE TrackerDrains -----------------------------
(***************************************************************************)
(* Drains of an InvalidationTracker (drain_builder.rs, and the drains of   *)
(* tracker.rs built from it): a drain takes keys out of one channel, finds *)
(* what depends on them there, passes the work on to other channels along  *)
(* cascades and cross-channel edges, and hands its keys out; what it does  *)
(* not hand out is marked again when it is dropped.                        *)
(*                                                                         *)
(* A key is handed out once the drain holds none of its dependencies:      *)
(* that the iterators' counters come to this, and how they order the keys  *)
(* that are ready, is SortedDrain's subject.  Stacks and worklists are     *)
(* sets; every order of taking from them is explored.                      *)
(*                                                                         *)
(* The rules of the tracker stay as they are: a drain borrows them, and    *)
(* MarkClosure and CrossChannelGuard change them between calls.            *)
(***************************************************************************)
EXTENDS Naturals, FiniteSets, Sequences, Reachability

CONSTANTS
  Keys,      \* the dense keys in use
  Channels,  \* the channels in use
  MaxRules,  \* bound: edges and cascade rules of the tracker
  MaxOrder   \* bound: channels listed for drain_channels_sorted

ASSUME TrackerDrainsAssumption ==
  /\ IsFiniteSet(Keys) /\ Keys \subseteq Nat /\ IsFiniteSet(Channels)
  /\ MaxRules \in Nat /\ MaxOrder \in Nat

VARIABLES
  dependencies,     \* dependencies[c][k]: the keys k depends on in channel c
  cascadesFrom,     \* cascadesFrom[c]: the channels c cascades to, all of them
  crossDependents,  \* crossDependents[p]: the pairs a cross-channel edge leads to
  invalidated,      \* the invalidated (key, channel) pairs
  drain,            \* the drain in progress
  pass,             \* the drain_channels_sorted in progress
  settled           \* what the caller may count on: see Drop

rules == <<dependencies, cascadesFrom, crossDependents>>
vars == <<dependencies, cascadesFrom, crossDependents, invalidated, drain, pass, settled>>

-----------------------------------------------------------------------------
Pairs == Keys \X Channels
In(c, keys) == keys \X {c}

\* graph.dependents.
Dependents(k, c) == {d \in Keys : k \in dependencies[c][d]}

\* has_sources_in.
HasSourcesIn(c) == \E k \in Keys : crossDependents[<<k, c>>] # {}

\* for_each_cross_successor.
CrossSuccessors(p) == {<<p[1], c>> : c \in cascadesFrom[p[2]]} \cup crossDependents[p]

\* All that so many rounds along D come to, started with roots.
Rounds(D, roots) ==
  LET reached[n \in 0..Cardinality(DOMAIN D)] ==
        IF n = 0 THEN roots
        ELSE LET before == reached[n - 1] IN before \cup UNION {D[x] : x \in before}
  IN  reached

\* What a worklist reaches: as many rounds as there are points are enough.
Closure(D, roots) == Rounds(D, roots)[Cardinality(DOMAIN D)]

\* Where invalidation flows in one step.
Flow == [p \in Pairs |-> In(p[2], Dependents(p[1], p[2])) \cup CrossSuccessors(p)]

\* transitive_dependents_cross.
TransitiveDependentsCross(p) == Closure(Flow, {p}) \ {p}

-----------------------------------------------------------------------------
(* DrainBuilder, and the drains of the tracker built with it. *)

\* DrainBuilder::new.
NewBuilder(c) ==
  [channel |-> c, affected |-> FALSE, within |-> Keys, retain |-> FALSE, follow |-> FALSE,
   trace |-> FALSE, order |-> "AnyOrder"]

\* with_rules.
WithRules(b) == [b EXCEPT !.follow = TRUE]

\* Mutant: only a cascade makes the rules matter.
DrainUnlessCascading(c) ==
  IF cascadesFrom[c] = {} THEN NewBuilder(c) ELSE WithRules(NewBuilder(c))

\* InvalidationTracker::drain.
Drain(c) ==
  IF cascadesFrom[c] = {} /\ ~HasSourcesIn(c) THEN NewBuilder(c) ELSE WithRules(NewBuilder(c))

InvalidatedOnly(b) == [b EXCEPT !.affected = FALSE]
Affected(b) == [b EXCEPT !.affected = TRUE]
WithinKeys(b, keys) == [b EXCEPT !.within = keys]

\* compute_allowed_dependencies.
AllowedDependencies(k, c) == Closure(dependencies[c], {k})

WithinDependenciesOf(b, k) == [b EXCEPT !.within = AllowedDependencies(k, b.channel)]
RetainOutOfScope(b) == [b EXCEPT !.retain = TRUE]

Trace(b) == [b EXCEPT !.trace = TRUE]

Deterministic(b) == [b EXCEPT !.order = "Deterministic"]

DrainSorted(c) == InvalidatedOnly(Drain(c))
DrainAffectedSorted(c) == Affected(Drain(c))
DrainAffectedSortedWithTrace(c) == Trace(Affected(Drain(c)))
DrainSortedDeterministic(c) == Deterministic(InvalidatedOnly(Drain(c)))
DrainAffectedSortedDeterministic(c) == Deterministic(Affected(Drain(c)))

\* The builders callers come to; a trace is asked for where it has most to
\* explain.
Builders(c) ==
  LET affected == {WithinKeys(DrainAffectedSorted(c), keys) : keys \in SUBSET Keys \ {{}}}
                    \cup {WithinDependenciesOf(DrainAffectedSorted(c), k) : k \in Keys}
  IN  {DrainSorted(c), DrainSortedDeterministic(c),
       DrainAffectedSortedDeterministic(c), DrainAffectedSortedWithTrace(c)}
        \cup {WithinKeys(DrainSorted(c), {k}) : k \in Keys}
        \cup affected
        \cup {Trace(RetainOutOfScope(b)) : b \in affected}

-----------------------------------------------------------------------------
NoDrain == [phase |-> "none"]
NoPass == [open |-> FALSE]

Open == drain.phase # "none"

\* The keys the drain took and has not handed out, and all that is either
\* marked or in its hands.
Held ==
  CASE drain.phase = "none"  -> {}
    [] drain.phase = "yield" -> In(drain.channel, drain.held)
    [] OTHER                 -> In(drain.channel, drain.keys)
InFlight == invalidated \cup Held

\* Mutant: a dependency that was not drained is waited for, too.
ReadyOverall == {k \in drain.held : dependencies[drain.channel][k] = {}}

\* Mutant: counts what depends on the key.
ReadyByDependents == {k \in drain.held : Dependents(k, drain.channel) \cap drain.held = {}}

\* A key is ready when no dependency of it is held.
Ready == {k \in drain.held : dependencies[drain.channel][k] \cap drain.held = {}}

DependencyEdges == {e \in Keys \X Keys \X Channels : e[1] # e[2]}
CascadeEdges == {e \in Channels \X Channels : e[1] # e[2]}
CrossEdges == {e \in Pairs \X Pairs : e[1] # e[2]}

\* A tracker that was given some rules.  Edges within a channel and across
\* channels may form cycles (Allow), cascades may not.
Init ==
  /\ \E crossing \in {S \in SUBSET CrossEdges : Cardinality(S) <= MaxRules} :
     \E cascading \in SUBSET CascadeEdges : \E depending \in SUBSET DependencyEdges :
       /\ Cardinality(crossing) + Cardinality(cascading) + Cardinality(depending) <= MaxRules
       /\ dependencies =
            [c \in Channels |-> [k \in Keys |-> {d \in Keys : <<k, d, c>> \in depending}]]
       /\ cascadesFrom = [c \in Channels |-> {d \in Channels : <<c, d>> \in cascading}]
       /\ crossDependents = [p \in Pairs |-> {q \in Pairs : <<p, q>> \in crossing}]
  /\ \A c \in Channels : \A d \in cascadesFrom[c] :
       c \notin cascadesFrom[d] /\ cascadesFrom[d] \subseteq cascadesFrom[c]
  /\ invalidated = {} /\ drain = NoDrain /\ pass = NoPass /\ settled = {}

Idle == ~Open /\ ~pass.open

\* InvalidationTracker::mark: the key on the channel and those it cascades to.
Mark(p) ==
  /\ Idle
  /\ invalidated' = invalidated \cup {p} \cup {<<p[1], c>> : c \in cascadesFrom[p[2]]}
  /\ settled' = {}
  /\ UNCHANGED <<rules, drain, pass>>

Clear(c) ==
  /\ Idle
  /\ invalidated' = invalidated \ In(c, Keys)
  /\ UNCHANGED <<rules, drain, pass, settled>>

ClearAll ==
  /\ Idle
  /\ invalidated' = {}
  /\ UNCHANGED <<rules, drain, pass, settled>>

-----------------------------------------------------------------------------
(* take_keys. *)

\* take_roots.
TakenRoots(b) == {k \in b.within : <<k, b.channel>> \in invalidated}

\* OneParentRecorder::record: the first cause of a pair is the one it keeps.
Recorded(causes, pairs, source) ==
  IF drain.trace
  THEN [p \in DOMAIN causes \cup pairs |-> IF p \in DOMAIN causes THEN causes[p] ELSE source]
  ELSE causes

\* The roots are taken; an invalidated-only drain leaves it at that.  A
\* recorder is taken to be new for the drain.
TakeKeys(b) ==
  LET roots == TakenRoots(b)
      noted == b.trace /\ b.affected
  IN
  /\ invalidated' = invalidated \ In(b.channel, roots)
  /\ drain' =
       [channel  |-> b.channel,
        affected |-> b.affected,
        within   |-> b.within,
        retain   |-> b.retain,
        follow   |-> b.follow,
        trace    |-> noted,
        order    |-> b.order,
        phase    |-> IF b.affected THEN "collect" ELSE "follow",
        keys     |-> roots,
        stack    |-> IF b.affected THEN roots ELSE {},
        work     |-> {},
        seen     |-> {},
        retained |-> {},
        causes   |-> [p \in IF noted THEN In(b.channel, roots) ELSE {} |-> {}]]
  /\ UNCHANGED <<rules, pass, settled>>

OpenDrain(c) ==
  /\ Idle
  /\ \E b \in Builders(c) : TakeKeys(b)

\* Mutant: expands past the scope.
CollectEverything(k) ==
  LET new == Dependents(k, drain.channel) \ drain.keys IN
  /\ drain.phase = "collect"
  /\ k \in drain.stack
  /\ drain' = [drain EXCEPT
       !.keys = @ \cup new,
       !.stack = (@ \ {k}) \cup new,
       !.causes = Recorded(@, In(drain.channel, new), {<<k, drain.channel>>})]
  /\ UNCHANGED <<rules, invalidated, pass, settled>>

\* collect_affected: one turn of its loop.
Collect(k) ==
  LET new == (Dependents(k, drain.channel) \cap drain.within) \ drain.keys IN
  /\ drain.phase = "collect"
  /\ k \in drain.stack
  /\ drain' = [drain EXCEPT
       !.keys = @ \cup new,
       !.stack = (@ \ {k}) \cup new,
       !.causes = Recorded(@, In(drain.channel, new), {<<k, drain.channel>>})]
  /\ UNCHANGED <<rules, invalidated, pass, settled>>

\* Mutant: the cause names the pair that was reached.
PushSuccessorsOfThemselves(p) == {<<q, q>> : q \in CrossSuccessors(p)}

\* What there is to do about p having been invalidated: each successor, with
\* the pair that led to it.
PushSuccessors(p) == CrossSuccessors(p) \X {p}

\* retain_out_of_scope_dependents.
OutOfScopeDependents ==
  (UNION {Dependents(k, drain.channel) : k \in drain.keys}) \ drain.within

\* All is collected: what lies outside the scope is retained if asked for,
\* and the successors of both are to be followed.
Retain ==
  LET retained == IF drain.retain THEN In(drain.channel, OutOfScopeDependents) ELSE {}
      work == IF drain.follow THEN UNION {PushSuccessors(p) : p \in Held \cup retained} ELSE {}
  IN
  /\ drain.phase = "collect" /\ drain.stack = {}
  /\ invalidated' = invalidated \cup retained
  /\ drain' = [drain EXCEPT !.retained = retained, !.work = work, !.phase = "follow"]
  /\ UNCHANGED <<rules, pass, settled>>

\* Mutant: marks again what the drain is about to hand out.
FollowRegardless(item) ==
  LET p == item[1]
      fresh == p \notin drain.seen
      work == (drain.work \ {item}) \cup (IF fresh THEN PushSuccessors(p) ELSE {})
  IN
  /\ drain.phase = "follow" /\ item \in drain.work
  /\ invalidated' = IF fresh THEN invalidated \cup {p} ELSE invalidated
  /\ drain' = [drain EXCEPT
       !.seen = @ \cup {p},
       !.work = work,
       !.causes = IF fresh THEN Recorded(@, {p}, {item[2]}) ELSE @]
  /\ UNCHANGED <<rules, pass, settled>>

\* CrossRules::follow: one turn of its loop.
Follow(item) ==
  LET p == item[1]
      fresh == p \notin drain.seen /\ p \notin Held
      work == (drain.work \ {item}) \cup (IF fresh THEN PushSuccessors(p) ELSE {})
  IN
  /\ drain.phase = "follow" /\ item \in drain.work
  /\ invalidated' = IF fresh THEN invalidated \cup {p} ELSE invalidated
  /\ drain' = [drain EXCEPT
       !.seen = @ \cup {p},
       !.work = work,
       !.causes = IF fresh THEN Recorded(@, {p}, {item[2]}) ELSE @]
  /\ UNCHANGED <<rules, pass, settled>>

\* The affected drains that expand what they take and leave nothing behind
\* outside their scope, and those of a whole channel among them.
CarefulBuilder(b) == b.affected /\ (b.within = Keys \/ b.retain)
WholeBuilder(b) == b.affected /\ b.within = Keys

\* run: the iterator is made of the keys and an order.
Run ==
  /\ drain.phase = "follow" /\ drain.work = {}
  /\ drain' = [phase   |-> "yield",
               channel |-> drain.channel,
               order   |-> drain.order,
               keys    |-> drain.keys,
               held    |-> drain.keys,
               careful |-> CarefulBuilder(drain),
               whole   |-> WholeBuilder(drain)]
  /\ UNCHANGED <<rules, invalidated, pass, settled>>

-----------------------------------------------------------------------------
(* The iterator. *)

\* Mutant: the second iterator leaves the key it hands out marked.
YieldLeavingMark(k) ==
  /\ drain.phase = "yield"
  /\ k \in Ready
  /\ drain.order = "Deterministic" => \A other \in Ready : k <= other
  /\ drain' = [drain EXCEPT !.held = @ \ {k}]
  /\ invalidated' = IF drain.order = "AnyOrder" THEN invalidated
                    ELSE invalidated \cup {<<k, drain.channel>>}
  /\ UNCHANGED <<rules, pass, settled>>

Yield(k) ==
  /\ drain.phase = "yield"
  /\ k \in Ready
  /\ drain.order = "Deterministic" => \A other \in Ready : k <= other
  /\ drain' = [drain EXCEPT !.held = @ \ {k}]
  /\ UNCHANGED <<rules, invalidated, pass, settled>>

\* The channels that work is passed on to channel c from, by any number of
\* steps.
FeedsInto(c) ==
  LET passed == [d \in Channels |-> UNION {CrossSuccessors(p) : p \in In(d, Keys)}]
      feeds == [d \in Channels |-> {q[2] : q \in passed[d]} \ {d}]
      loops == {d \in Channels : \E k, l \in Keys : <<l, d>> \in crossDependents[<<k, d>>]}
  IN  Closure(Transposed(feeds), Transposed(feeds)[c]) \cup (loops \cap {c})

\* The drain is dropped.  Once an affected drain of the whole channel has
\* handed everything out, and all the channels that feed the channel are
\* settled, the channel is settled as well.
Drop ==
  /\ drain.phase = "yield"
  /\ ~pass.open
  /\ invalidated' = InFlight
  /\ settled' = IF drain.whole /\ drain.held = {}
                   /\ FeedsInto(drain.channel) \subseteq settled \ {drain.channel}
                THEN settled \cup {drain.channel} ELSE settled
  /\ drain' = NoDrain
  /\ UNCHANGED <<rules, pass>>

-----------------------------------------------------------------------------
(* drain_channels_sorted. *)

BeginPass(order) ==
  /\ Idle
  /\ pass' = [open |-> TRUE, order |-> order, done |-> {}, stalled |-> {}]
  /\ UNCHANGED <<rules, invalidated, drain, settled>>

OpenInPass ==
  /\ pass.open /\ ~Open /\ pass.order # <<>>
  /\ TakeKeys(DrainSorted(Head(pass.order)))

\* Mutant: the iterator is dropped unasked.
CloseInPassUnasked ==
  /\ pass.open /\ drain.phase = "yield" /\ Ready = {}
  /\ invalidated' = InFlight
  /\ pass' = [pass EXCEPT !.order = Tail(@), !.done = @ \cup {drain.channel}]
  /\ drain' = NoDrain
  /\ UNCHANGED <<rules, settled>>

\* The drain of a channel answers None: it has stalled if it still holds
\* keys, which are marked again as it is dropped.
CloseInPass ==
  /\ pass.open /\ drain.phase = "yield" /\ Ready = {}
  /\ invalidated' = InFlight
  /\ pass' = [pass EXCEPT !.order = Tail(@), !.done = @ \cup {drain.channel},
                          !.stalled = IF drain.held = {} THEN @ ELSE @ \cup {drain.channel}]
  /\ drain' = NoDrain
  /\ UNCHANGED <<rules, settled>>

EndPass ==
  /\ pass.open /\ ~Open /\ pass.order = <<>>
  /\ pass' = NoPass
  /\ UNCHANGED <<rules, invalidated, drain, settled>>

-----------------------------------------------------------------------------
Marking == \E p \in Pairs : Mark(p)

Orders == UNION {[1..n -> Channels] : n \in 0..MaxOrder}

Draining ==
  \/ \E k \in Keys : Collect(k) \/ Yield(k)
  \/ Retain
  \/ \E p, q \in Pairs : Follow(<<p, q>>)
  \/ Run

Next ==
  \/ Marking
  \/ \E c \in Channels : Clear(c) \/ OpenDrain(c)
  \/ ClearAll
  \/ Draining
  \/ Drop
  \/ \E order \in Orders : BeginPass(order)
  \/ OpenInPass \/ CloseInPass \/ EndPass

\* run takes its keys and a pass comes to its end in one call; a drain does
\* not stay open for ever.  The caller is assumed to come back for an
\* affected drain of each channel, and not to drop a drain each time just
\* when a certain key is next.
Fairness ==
  /\ WF_vars(Draining) /\ WF_vars(Drop)
  /\ WF_vars(OpenInPass) /\ WF_vars(CloseInPass) /\ WF_vars(EndPass)
  /\ \A c \in Channels : SF_vars(Idle /\ TakeKeys(DrainAffectedSorted(c)))
  /\ \A p \in Pairs : SF_vars(p \in Held /\ Yield(p[1]))

Spec == Init /\ [][Next]_vars /\ Fairness

-----------------------------------------------------------------------------
(* Properties. *)

\* A drain's keys are in its scope, and what it retains is marked and lies
\* outside.
TypeOK ==
  /\ invalidated \subseteq Pairs
  /\ settled \subseteq Channels
  /\ drain.phase \in {"none", "collect", "follow", "yield"}
  /\ drain.phase \in {"collect", "follow"} =>
       /\ drain.keys \subseteq drain.within
       /\ drain.stack \subseteq drain.keys
       /\ drain.work \subseteq Pairs \X Pairs
       /\ drain.retained \subseteq invalidated \cap In(drain.channel, Keys \ drain.within)
  /\ drain.phase = "yield" => drain.held \subseteq drain.keys /\ drain.keys \subseteq Keys
  /\ pass.open => pass.stalled \subseteq pass.done

\* A key a drain is about to hand out is not marked as well, as it would then
\* be done twice: successors that come back to the drain's own channel are
\* marked only if the drain does not hold them (CrossRules::follow).
HeldOnce == Held \cap invalidated = {}

\* The drain's keys and the marks divide the work between them: types, scopes
\* and retained marks are as they should be, and nothing is in both.
WorkDivided == TypeOK /\ HeldOnce

PassedOn == Closure([p \in Pairs |-> CrossSuccessors(p)], Held \cup drain.retained)

\* Before an affected drain of a tracker hands out its first key, everything
\* that cascades and cross-channel edges lead to from the keys it took or
\* retained, by any number of steps, is marked or held, and is in the trace
\* if there is one (DrainBuilder::affected).
DeliversFirst ==
  drain.phase = "follow" /\ drain.work = {} /\ drain.affected =>
    /\ PassedOn \subseteq InFlight
    /\ drain.trace => PassedOn \ drain.retained \subseteq DOMAIN drain.causes

HasPath(p) ==
  LET sources == [q \in Pairs |-> IF q \in DOMAIN drain.causes THEN drain.causes[q] ELSE {}]
  IN  \E q \in Closure(sources, {p}) :
        \/ q \in DOMAIN drain.causes /\ drain.causes[q] = {}
        \/ q \in drain.retained

\* The recorder of a traced drain explains whatever it was told of: the
\* sources of each pair lead to a root, or to a key retained, which is not
\* reported (OneParentRecorder::explain_path, retain_out_of_scope).
Explained ==
  drain.phase \in {"collect", "follow"} => \A p \in DOMAIN drain.causes : HasPath(p)

\* The work that is left: what is marked or held, and what depends on it.
Owed == UNION {{p} \cup TransitiveDependentsCross(p) : p \in InFlight}

Careful == IF drain.phase = "yield" THEN drain.careful ELSE CarefulBuilder(drain)

\* The keys the drain has handed out so far.
HandedOut == IF drain.phase = "yield" THEN In(drain.channel, drain.keys \ drain.held) ELSE {}

\* A drain creates no work.  A mark it takes it gives back or hands out, one
\* key at a time and only once nothing it depends on is held; and the only
\* work that ends with a careful drain, in any channel, is that on keys it
\* handed out.  (A cross-channel edge between two keys of one drain puts
\* them in no order: the later one does not mark the earlier one again.)
KeepsWork ==
  [][Open =>
       /\ Owed' \subseteq Owed
       /\ \E gone \in SUBSET Held :
            /\ Cardinality(gone) <= 1
            /\ InFlight \ InFlight' \subseteq gone
            /\ \A p \in gone : In(p[2], dependencies[p[2]][p[1]]) \cap Held = {}
            /\ Careful => Owed \ Owed' \subseteq HandedOut \cup gone]_vars

\* Draining channels in the order in which they feed each other takes one
\* drain per channel: work passed on is drained in the same pass, and no
\* mark comes back to a channel that was done (DrainBuilder::affected).
OnePass == \A c \in settled : invalidated \cap In(c, Keys) = {}

\* drain_channels_sorted lists a channel as stalled just if keys of it stay
\* invalidated (DrainedChannels::stalled).
StalledListed ==
  pass.open => \A c \in pass.done \ (IF Open THEN {drain.channel} ELSE {}) :
    c \in pass.stalled <=> invalidated \cap In(c, Keys) # {}

NoCycles == \A p \in Pairs : \A q \in Flow[p] : p \notin {q} \cup TransitiveDependentsCross(q)

\* Where the rules form no cycle, channels that are drained again and again
\* are clean in the end, once nothing new is marked: drains do not keep each
\* other busy (add_cross_dependency_with on cycles).
BecomesClean == NoCycles /\ <>[][~Marking]_vars => <>[](invalidated = {})

=============================================================================
