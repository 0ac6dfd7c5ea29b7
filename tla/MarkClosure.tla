----------------------------- MODULE MarkClosure -----------------------------
(***************************************************************************)
(* InvalidationTracker::mark_closure (tracker.rs), behind mark_with,       *)
(* mark_many_with and mark_with_trace: one worklist over (key, channel)    *)
(* pairs that follows dependents within a channel, cascades and            *)
(* cross-channel edges, with any of three kinds of policy, and an optional *)
(* OneParentRecorder.                                                      *)
(*                                                                         *)
(* A call runs one turn of a loop per step.  The worklist and the stack    *)
(* are sets: their order decides which of several causes is recorded and   *)
(* how the work is counted, never what is marked, and every order is       *)
(* explored.                                                               *)
(*                                                                         *)
(* Cross-channel edges are used from here, not maintained: any relation on *)
(* pairs, cycles included, since CycleHandling::Allow admits them.         *)
(***************************************************************************)
EXTENDS Naturals, FiniteSets, Reachability

CONSTANTS
  Keys,      \* the keys in use
  Channels,  \* the channels in use
  Policies,  \* the policies callers mark with: "Eager", "Lazy", "Custom"
  Tracings,  \* whether callers record causes: TRUE, FALSE or both
  MaxEdges   \* bound: edges and cascade rules that exist at a time

ASSUME MarkAssumption ==
  /\ IsFiniteSet(Keys) /\ IsFiniteSet(Channels)
  /\ Policies \subseteq {"Eager", "Lazy", "Custom"}
  /\ Tracings \subseteq BOOLEAN
  /\ MaxEdges \in Nat

VARIABLES
  dependencies,     \* dependencies[c][k]: the keys k depends on in channel c
  cascades,         \* cascades[c]: the channels c cascades to directly
  crossDependents,  \* crossDependents[p]: the pairs that depend on p
  invalidated,      \* the invalidated (key, channel) pairs
  causes,           \* the recorder: the cause of each pair it was told of
  call              \* the mark in progress

rules == <<dependencies, cascades, crossDependents>>
vars == <<dependencies, cascades, crossDependents, invalidated, causes, call>>

-----------------------------------------------------------------------------
Pairs == Keys \X Channels

\* graph.dependents(key, channel), as pairs.
Dependents(p) == {q \in Pairs : q[2] = p[2] /\ p[1] \in dependencies[p[2]][q[1]]}

\* cascades_from: the transitive targets.
CascadesFrom(c) == ReachableFrom(cascades, cascades[c])

(* InvalidationCause. *)

Root == [kind |-> "Root"]
Dependency(k) == [kind |-> "Dependency", key |-> k]
Cascade(c) == [kind |-> "Cascade", channel |-> c]
CrossChannel(p) == [kind |-> "CrossChannel", key |-> p[1], channel |-> p[2]]

\* source: the pair, if any, that a cause blames for p.  A dependency is one of
\* p's own channel, a cascade one of p's own key.
Source(cause, p) ==
  CASE cause.kind = "Root"         -> {}
    [] cause.kind = "Dependency"   -> {<<cause.key, p[2]>>}
    [] cause.kind = "Cascade"      -> {<<p[1], cause.channel>>}
    [] cause.kind = "CrossChannel" -> {<<cause.key, cause.channel>>}

\* Mutant: a cascade is blamed on the channel it leads to.
SuccessorsOnTarget(p) ==
  {<<<<p[1], c>>, Cascade(c)>> : c \in CascadesFrom(p[2])}
    \cup {<<q, CrossChannel(p)>> : q \in crossDependents[p]}

\* for_each_cross_successor: pairs with the cause they are invalidated for.
Successors(p) ==
  {<<<<p[1], c>>, Cascade(p[2])>> : c \in CascadesFrom(p[2])}
    \cup {<<q, CrossChannel(p)>> : q \in crossDependents[p]}

CrossSuccessors(p) == {entry[1] : entry \in Successors(p)}

\* Mutant: looks for edges out of the pair, not out of its channel.
NothingCrossesFromPair(p) == CrossSuccessors(p) = {}

\* No cascade or cross-channel edge leaves the channel of p.
NothingCrosses(p) ==
  /\ CascadesFrom(p[2]) = {}
  /\ \A k \in Keys : crossDependents[<<k, p[2]>>] = {}

-----------------------------------------------------------------------------
(* PropagationPolicy: what a policy says of itself.  One of the caller's own *)
(* claims nothing.                                                           *)

MarksAllDependents(policy) == policy = "Eager"
MarksOnlyRoot(policy) == policy = "Lazy"

NoCall == [active |-> FALSE]

Size(f) == Cardinality({e \in (DOMAIN f) \X UNION {f[x] : x \in DOMAIN f} : e[2] \in f[e[1]]})

EdgeCount ==
  Cardinality({e \in Channels \X Keys \X Keys : e[3] \in dependencies[e[1]][e[2]]})
    + Size(cascades) + Size(crossDependents)

Init ==
  /\ dependencies = [c \in Channels |-> [k \in Keys |-> {}]]
  /\ cascades = [c \in Channels |-> {}]
  /\ crossDependents = [p \in Pairs |-> {}]
  /\ invalidated = {}
  /\ causes = [p \in {} |-> {}]
  /\ call = NoCall

Idle == ~call.active
Editable == Idle /\ UNCHANGED <<invalidated, causes, call>>

\* Rules and edges come and go between calls.
AddDependency(c, from, to) ==
  /\ Editable /\ EdgeCount < MaxEdges /\ from # to
  /\ dependencies' = [dependencies EXCEPT ![c][from] = @ \cup {to}]
  /\ UNCHANGED <<cascades, crossDependents>>

RemoveDependency(c, from, to) ==
  /\ Editable
  /\ dependencies' = [dependencies EXCEPT ![c][from] = @ \ {to}]
  /\ UNCHANGED <<cascades, crossDependents>>

AddCascade(c, d) ==
  /\ Editable /\ EdgeCount < MaxEdges /\ ~Reaches(cascades, d, c)
  /\ cascades' = [cascades EXCEPT ![c] = @ \cup {d}]
  /\ UNCHANGED <<dependencies, crossDependents>>

AddCrossDependency(p, q) ==
  /\ Editable /\ EdgeCount < MaxEdges
  /\ crossDependents' = [crossDependents EXCEPT ![p] = @ \cup {q}]
  /\ UNCHANGED <<dependencies, cascades>>

\* A drain hands a pair out, or a caller clears it.
Take(p) ==
  /\ Idle
  /\ invalidated' = invalidated \ {p}
  /\ UNCHANGED <<rules, causes, call>>

\* InvalidationTracker::mark: the key on the channel and those it cascades to.
Mark(p) ==
  /\ Idle
  /\ invalidated' = invalidated \cup {p} \cup {<<p[1], c>> : c \in CascadesFrom(p[2])}
  /\ UNCHANGED <<rules, causes, call>>

-----------------------------------------------------------------------------
(* OneParentRecorder. *)

\* OneParentRecorder::clear.
ClearTrace ==
  /\ Idle
  /\ causes' = [p \in {} |-> {}]
  /\ UNCHANGED <<rules, invalidated, call>>

\* What explain_path follows: the source of each pair with a cause.
Blames == [p \in Pairs |-> IF p \in DOMAIN causes THEN Source(causes[p], p) ELSE {}]

\* explain_path: from p on, following sources leads to a root; what runs into
\* a cycle or into a pair without a cause is no answer.
HasPath(p) == \E q \in DOMAIN causes : causes[q] = Root /\ Reaches(Blames, p, q)

-----------------------------------------------------------------------------
(* The calls. *)

\* Mutant: the last cause wins.
RecordedLast(pairs, cause) ==
  IF call.traced
  THEN [p \in DOMAIN causes \cup pairs |-> IF p \in pairs THEN cause ELSE causes[p]]
  ELSE causes

\* OneParentRecorder::record of each of `pairs`: the first cause wins.
Recorded(pairs, cause) ==
  IF call.traced
  THEN [p \in DOMAIN causes \cup pairs |-> IF p \in DOMAIN causes THEN causes[p] ELSE cause]
  ELSE causes

\* Mutant: leaves out what was invalidated already.
EnqueuedUnmarked(p, processed) ==
  IF call.follows
  THEN {entry \in Successors(p) : entry[1] \notin processed \cup invalidated}
  ELSE {}

\* What following the cascades and edges of p puts on the worklist.
Enqueued(p, processed) ==
  IF call.follows
  THEN {entry \in Successors(p) : entry[1] \notin processed}
  ELSE {}

(* MarkReport, of what a call has marked and walked so far. *)

NoReport == [newly |-> 0, channels |-> {}, steps |-> 0, keysScanned |-> 0]

\* InvalidationSet::len.
Length(pairs, c) == Cardinality({p \in pairs : p[2] = c})

\* MarkReport::add.
Add(report, c, added) ==
  IF added > 0 THEN [report EXCEPT !.newly = @ + added, !.channels = @ \cup {c}] ELSE report

\* is_noop.
IsNoop(report) == report.newly = 0

\* MarkReport::record, about a step that marks in channel c.
Record(report, c) == Add(report, c, Length(invalidated', c) - Length(invalidated, c))

\* The fast path leaves the marking to the policy, which follows nothing.
BeginMark(roots, policy, traced) ==
  LET fast == /\ Cardinality(roots) = 1
              /\ MarksAllDependents(policy) => traced
              /\ \A p \in roots : NothingCrosses(p)
  IN
  /\ Idle
  /\ call' = [active |-> TRUE, roots |-> roots, before |-> invalidated,
              policy |-> policy, traced |-> traced, follows |-> ~fast,
              worklist |-> {<<p, Root>> : p \in roots},
              processed |-> {}, scanned |-> {}, stack |-> {},
              lengthBefore |-> 0, report |-> NoReport]
  /\ UNCHANGED <<rules, invalidated, causes>>

\* The worklist yields an entry, once the walk of the last one has ended.
Takes(entry) == call.active /\ call.stack = {} /\ entry \in call.worklist

SkipProcessed(entry) ==
  /\ Takes(entry)
  /\ entry[1] \in call.processed
  /\ call' = [call EXCEPT !.worklist = @ \ {entry}]
  /\ UNCHANGED <<rules, invalidated, causes>>

\* An earlier step walked past the pair and enqueued what it leads to.
SkipScanned(entry) ==
  LET p == entry[1] IN
  /\ Takes(entry)
  /\ MarksAllDependents(call.policy)
  /\ p \in call.scanned \ call.processed
  /\ causes' = Recorded({p}, entry[2])
  /\ call' = [call EXCEPT !.worklist = @ \ {entry}, !.processed = @ \cup {p}]
  /\ UNCHANGED <<rules, invalidated>>

EagerStep(entry) ==
  LET p == entry[1] IN
  /\ Takes(entry)
  /\ MarksAllDependents(call.policy)
  /\ p \notin call.processed \cup call.scanned
  /\ invalidated' = invalidated \cup {p}
  /\ causes' = Recorded({p}, entry[2])
  /\ call' = [call EXCEPT
                !.worklist = (@ \ {entry}) \cup Enqueued(p, call.processed \cup {p}),
                !.processed = @ \cup {p},
                !.scanned = @ \cup {p},
                !.stack = {p},
                !.lengthBefore = Length(invalidated, p[2]),
                !.report.steps = @ + 1]
  /\ UNCHANGED rules

\* LazyPolicy marks the pair it is run on, and no other.
LazyMarks(p) == {{p}}

\* A policy of the caller's own marks it, and any of the keys that depend on it.
CustomMarks(p) ==
  {{p} \cup more : more \in SUBSET ReachableFrom([q \in Pairs |-> Dependents(q)], {p})}

\* run_policy: the sets of pairs that a run of the call's policy on p may mark.
PolicyMarks(p) == IF call.policy = "Lazy" THEN LazyMarks(p) ELSE CustomMarks(p)

\* propagate_with_trace, unless a policy brings its own: the key it is run on
\* is reported, as a root.
Reported(p) == <<p, Root>>

\* StepTrace: what a step reports as a root on its own pair has the cause that
\* led to the step.
StepTrace(reported, entry) == IF reported = Reported(entry[1]) THEN entry ELSE reported

\* The policy marks; then its key's dependents are walked, to follow the
\* edges of those that are invalidated.
PolicyStep(entry) ==
  LET p     == entry[1]
      noted == StepTrace(Reported(p), entry)
      walks == call.follows /\ ~MarksOnlyRoot(call.policy) /\ p \notin call.scanned
      stepped == [call.report EXCEPT !.steps = @ + 1]
  IN
  /\ Takes(entry)
  /\ ~MarksAllDependents(call.policy)
  /\ p \notin call.processed
  /\ \E marks \in PolicyMarks(p) : invalidated' = invalidated \cup marks
  /\ causes' = Recorded({noted[1]}, noted[2])
  /\ call' = [call EXCEPT
                !.worklist = (@ \ {entry}) \cup Enqueued(p, call.processed \cup {p}),
                !.processed = @ \cup {p},
                !.scanned = IF walks THEN @ \cup {p} ELSE @,
                !.stack = IF walks THEN {p} ELSE {},
                !.report = Record(stepped, p[2])]
  /\ UNCHANGED rules

\* Mutant: reports the growth at every turn of the walk.
WalkedEveryTurn(c, new, ends) ==
  LET scanned == IF call.follows THEN Cardinality(new) ELSE 0
      grown   == Length(invalidated', c) - call.lengthBefore
      report  == [call.report EXCEPT !.keysScanned = @ + scanned]
  IN IF MarksAllDependents(call.policy) THEN Add(report, c, grown) ELSE report

\* What Walk reports: the keys it scans, unless the policy does the walking,
\* and at the end of an eager walk how far the channel has grown.
Walked(c, new, ends) ==
  LET scanned == IF call.follows THEN Cardinality(new) ELSE 0
      grown   == Length(invalidated', c) - call.lengthBefore
      report  == [call.report EXCEPT !.keysScanned = @ + scanned]
  IN IF ends /\ MarksAllDependents(call.policy) THEN Add(report, c, grown) ELSE report

\* Mutant: walks dependents again and again.
WalkForgetsScanned(p) ==
  LET new  == Dependents(p)
      hit  == IF MarksAllDependents(call.policy) THEN new ELSE new \cap invalidated
      left == (call.stack \ {p}) \cup new
  IN
  /\ call.active /\ p \in call.stack
  /\ invalidated' = invalidated \cup hit
  /\ causes' = IF MarksAllDependents(call.policy) THEN Recorded(new, Dependency(p[1])) ELSE causes
  /\ call' = [call EXCEPT
                !.worklist = @ \cup UNION {Enqueued(q, call.processed) : q \in hit},
                !.stack = left,
                !.report = Walked(p[2], {}, left = {})]
  /\ UNCHANGED rules

\* The walk visits the dependents of p that no walk of this call has seen.
Walk(p) ==
  LET new  == Dependents(p) \ call.scanned
      hit  == IF MarksAllDependents(call.policy) THEN new ELSE new \cap invalidated
      left == (call.stack \ {p}) \cup new
  IN
  /\ call.active /\ p \in call.stack
  /\ invalidated' = invalidated \cup hit
  /\ causes' = IF MarksAllDependents(call.policy) THEN Recorded(new, Dependency(p[1])) ELSE causes
  /\ call' = [call EXCEPT
                !.worklist = @ \cup UNION {Enqueued(q, call.processed) : q \in hit},
                !.scanned = @ \cup new,
                !.stack = left,
                !.report = Walked(p[2], new, left = {})]
  /\ UNCHANGED rules

Return ==
  /\ call.active
  /\ call.worklist = {} /\ call.stack = {}
  /\ call' = NoCall
  /\ UNCHANGED <<rules, invalidated, causes>>

-----------------------------------------------------------------------------
Edit ==
  \/ \E c \in Channels, from, to \in Keys :
       AddDependency(c, from, to) \/ RemoveDependency(c, from, to)
  \/ \E c, d \in Channels : AddCascade(c, d)
  \/ \E p, q \in Pairs : AddCrossDependency(p, q)
  \/ \E p \in Pairs : Take(p) \/ Mark(p)
  \/ ClearTrace

\* mark_many_with, and mark_with for a single root.
MarkMany(roots, policy) ==
  FALSE \in Tracings /\ roots # {} /\ BeginMark(roots, policy, FALSE)

MarkWithTrace(p, policy) == TRUE \in Tracings /\ BeginMark({p}, policy, TRUE)

Begin ==
  \E policy \in Policies :
    \/ \E roots \in SUBSET Pairs : MarkMany(roots, policy)
    \/ \E p \in Pairs : MarkWithTrace(p, policy)

Worklist == IF call.active THEN call.worklist ELSE {}

CallStep ==
  \/ \E entry \in Worklist :
       SkipProcessed(entry) \/ SkipScanned(entry) \/ EagerStep(entry) \/ PolicyStep(entry)
  \/ \E p \in Pairs : Walk(p)
  \/ Return

Next == Edit \/ Begin \/ CallStep

Spec == Init /\ [][Next]_vars

-----------------------------------------------------------------------------
(* Properties. *)

Causes ==
  {Root} \cup {Dependency(k) : k \in Keys} \cup {Cascade(c) : c \in Channels}
    \cup {CrossChannel(p) : p \in Pairs}

Calls ==
  [active : {TRUE}, roots : SUBSET Pairs, before : SUBSET Pairs, policy : Policies,
   traced : BOOLEAN, follows : BOOLEAN,
   worklist : SUBSET (Pairs \X Causes),
   processed : SUBSET Pairs, scanned : SUBSET Pairs, stack : SUBSET Pairs,
   lengthBefore : 0..Cardinality(Keys),
   report : [newly : Nat, channels : SUBSET Channels, steps : Nat, keysScanned : Nat]]

TypeOK ==
  /\ dependencies \in [Channels -> [Keys -> SUBSET Keys]]
  /\ cascades \in [Channels -> SUBSET Channels]
  /\ crossDependents \in [Pairs -> SUBSET Pairs]
  /\ invalidated \subseteq Pairs
  /\ DOMAIN causes \subseteq Pairs
  /\ \A p \in DOMAIN causes : causes[p] \in Causes
  /\ call = NoCall \/ call \in Calls

\* What the eager walk relies on when it stops at a scanned pair: the pair and
\* all below it are invalidated or about to be, and what they lead to in other
\* channels was scanned or is on the worklist (tracker.rs, the comments in
\* mark_closure).  The fast path may ignore the other channels because nothing
\* leads there.
ScannedIsCovered ==
  call.active /\ MarksAllDependents(call.policy) =>
    /\ call.processed \cup call.stack \subseteq call.scanned
    /\ call.scanned \subseteq invalidated
    /\ \A p \in call.scanned \ call.stack : Dependents(p) \subseteq call.scanned
    /\ \A p \in call.scanned :
         CrossSuccessors(p) \subseteq call.scanned \cup {entry[1] : entry \in call.worklist}

\* Types, and the walk's reliance on what it has scanned.
WalkSound == TypeOK /\ ScannedIsCovered

\* The marks a caller can see: those before the call, until it returns.
Visible == IF call.active THEN call.before ELSE invalidated

Request == IF call.active THEN [roots |-> call.roots, policy |-> call.policy]
           ELSE [roots |-> {}, policy |-> "None"]

Contract == INSTANCE MarkContract WITH invalidated <- Visible, request <- Request

\* A call marks exactly what its own policy promises for its own roots
\* (tracker.rs, the doc comment of mark_with): for the eager policy everything
\* they reach, however much of it was invalidated before, and through cycles
\* of every kind.
ImplementsContract == Contract!Spec

\* The report of a call that is about to return (tracker.rs, MarkReport): every
\* pair that became invalidated is counted once and its channel named, so that
\* is_noop is true exactly of a call that changed nothing; an eager call counts
\* every pair it has covered once, as a step or as a dependent walked; a lazy
\* call walks none; and a policy that does all the work is one step and no
\* walk.
ReportTells ==
  LET report == call.report
      new    == invalidated \ call.before
  IN
  call.active /\ call.worklist = {} /\ call.stack = {} =>
    /\ report.newly = Cardinality(new)
    /\ report.channels = {p[2] : p \in new}
    /\ IsNoop(report) <=> invalidated = call.before
    /\ ~call.follows => report.steps = 1 /\ report.keysScanned = 0
    /\ call.follows /\ MarksAllDependents(call.policy) =>
         report.steps + report.keysScanned = Cardinality(call.scanned)
    /\ MarksOnlyRoot(call.policy) => report.keysScanned = 0
    /\ ~MarksAllDependents(call.policy) => report.steps = Cardinality(call.processed)

\* The recorded causes explain every recorded pair: following sources leads
\* to a root, never round a cycle and never to a pair without a cause
\* (trace.rs, explain_path), although a recorder lives through many calls and
\* the graph changes between them.
Explained ==
  "Custom" \notin Policies => \A p \in DOMAIN causes : HasPath(p)

NearerTheEnd ==
  /\ call.processed \subseteq call'.processed
  /\ call.scanned \subseteq call'.scanned
  /\ \/ call.processed # call'.processed
     \/ call.scanned # call'.scanned
     \/ call'.stack \subseteq call.stack /\ call'.worklist \subseteq call.worklist

\* Every turn of the loop brings the call nearer to its end, also when the
\* rules and edges form cycles: a pair is processed or scanned that was not,
\* or else the stack or the worklist gets shorter (tracker.rs, mark_closure).
\* There being finitely many pairs, no call runs for ever.
CallsAdvance == [][call.active /\ call'.active /\ call # call' => NearerTheEnd]_vars

=============================================================================
