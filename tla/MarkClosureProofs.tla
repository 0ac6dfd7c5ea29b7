-------------------------- MODULE MarkClosureProofs --------------------------
(***************************************************************************)
(* Proofs about MarkClosure, for every set of keys and channels, every set *)
(* of policies, with and without a recorder.                               *)
(*                                                                         *)
(* A call in progress is described by four facts, and together with the    *)
(* types they are inductive.  Bounded: all that the call has listed,       *)
(* walked or marked is reachable from its roots, in the graph its policy   *)
(* may follow.  Covered: what it has dealt with is closed under that graph *)
(* up to the worklist and the stack, so that when both are empty nothing   *)
(* is missing.  Counted: the report agrees with the marks, up to the       *)
(* growth an unfinished walk has still to add.  Sourced: what the worklist *)
(* and the stack will give as a cause has a cause itself.                  *)
(***************************************************************************)
EXTENDS MarkClosure, ReachabilityTheorems, FiniteSetTheorems

Eager == MarksAllDependents(call.policy)

\* Following dependents, the rules across channels, and both.
Within == [p \in Pairs |-> Dependents(p)]
Across == [p \in Pairs |-> CrossSuccessors(p)]
Flow == [p \in Pairs |-> Dependents(p) \cup CrossSuccessors(p)]

\* The pairs on the worklist.
Listed == {entry[1] : entry \in call.worklist}

\* What the policy may mark: a lazy one follows no dependents.
Limit == ReachableFrom(IF MarksOnlyRoot(call.policy) THEN Across ELSE Flow, call.roots)

\* Nothing is dealt with that the roots do not lead to, and what was invalidated
\* before is kept.
Bounded ==
  /\ call.roots # {}
  /\ call.before \subseteq invalidated
  /\ invalidated \subseteq call.before \cup Limit
  /\ Listed \cup call.processed \cup call.scanned \cup call.stack \subseteq Limit
  /\ MarksOnlyRoot(call.policy) => call.scanned = {} /\ call.stack = {}

\* The call of the fast path: one step, in a channel that nothing leaves.
FastPath ==
  \E p \in Pairs :
    /\ call.roots = {p}
    /\ NothingCrosses(p)
    /\ \A q \in call.processed \cup call.scanned \cup call.stack : q[2] = p[2]
    /\ \/ /\ call.worklist = {<<p, Root>>}
          /\ call.processed = {} /\ call.scanned = {} /\ call.stack = {}
          /\ call.report.steps = 0
       \/ call.worklist = {} /\ call.report.steps = 1
    /\ call.report.keysScanned = 0

\* What has been dealt with is closed but for the worklist and the stack.
Covered ==
  /\ ~call.follows => FastPath
  /\ Eager => /\ ScannedIsCovered
              /\ call.roots \subseteq call.scanned \cup Listed
  /\ ~Eager => /\ call.processed \subseteq invalidated
               /\ call.roots \subseteq call.processed \cup Listed
               /\ \A p \in call.processed : CrossSuccessors(p) \subseteq call.processed \cup Listed

\* The report names what is new in `now`.
TellsNew(report, now) ==
  LET new == now \ call.before IN
  /\ report.newly = Cardinality(new)
  /\ report.channels = {p[2] : p \in new}

\* The report once the walk of channel c has ended.
Completed(c) ==
  IF Eager THEN Add(call.report, c, Length(invalidated, c) - call.lengthBefore) ELSE call.report

\* The report agrees with the marks and with what was walked.
Counted ==
  /\ call.stack = {} => TellsNew(call.report, invalidated)
  /\ call.stack # {} =>
       \E c \in Channels :
         /\ \A p \in call.stack : p[2] = c
         /\ Eager => call.lengthBefore <= Length(invalidated, c)
         /\ TellsNew(Completed(c), invalidated)
  /\ call.follows /\ Eager =>
       call.report.steps + call.report.keysScanned = Cardinality(call.scanned)
  /\ MarksOnlyRoot(call.policy) => call.report.keysScanned = 0
  /\ ~Eager => call.report.steps = Cardinality(call.processed)

\* Recorded causes lead to roots, and what will be blamed next has a cause.
Sourced ==
  /\ \A p \in DOMAIN causes : HasPath(p)
  /\ call.active /\ call.traced =>
       /\ \A entry \in call.worklist : Source(entry[2], entry[1]) \subseteq DOMAIN causes
       /\ call.stack \subseteq DOMAIN causes

\* The inductive invariant.
Inv ==
  /\ TypeOK
  /\ call.active => Bounded /\ Covered /\ Counted
  /\ "Custom" \notin Policies => Sourced

-----------------------------------------------------------------------------
(***************************************************************************)
(* The rules, and what they lead to.                                       *)
(***************************************************************************)
RulesTyped ==
  /\ dependencies \in [Channels -> [Keys -> SUBSET Keys]]
  /\ cascades \in [Channels -> SUBSET Channels]
  /\ crossDependents \in [Pairs -> SUBSET Pairs]

\* A channel cascades to channels (cascade.rs, cascades_from).
LEMMA CascadesType ==
  ASSUME RulesTyped, NEW c \in Channels
  PROVE  /\ CascadesFrom(c) \in SUBSET Channels
         /\ cascades[c] \subseteq CascadesFrom(c)
<1>1. cascades \in [Channels -> SUBSET Channels] /\ cascades[c] \in SUBSET Channels
  BY DEF RulesTyped
<1>. QED
  BY <1>1, ReachableClosed DEF CascadesFrom

\* A successor comes with a cause that blames the pair it was found at
\* (tracker.rs, for_each_cross_successor).
LEMMA SuccessorsType ==
  ASSUME RulesTyped, NEW p \in Pairs
  PROVE  /\ Successors(p) \in SUBSET (Pairs \X Causes)
         /\ CrossSuccessors(p) \in SUBSET Pairs
         /\ \A entry \in Successors(p) : Source(entry[2], entry[1]) = {p}
<1>1. /\ CascadesFrom(p[2]) \in SUBSET Channels
      /\ crossDependents[p] \in SUBSET Pairs
      /\ p = <<p[1], p[2]>> /\ p[1] \in Keys /\ p[2] \in Channels
  BY CascadesType DEF RulesTyped, Pairs
<1>2. ASSUME NEW c \in CascadesFrom(p[2])
      PROVE  /\ <<p[1], c>> \in Pairs /\ Cascade(p[2]) \in Causes
             /\ Source(Cascade(p[2]), <<p[1], c>>) = {p}
  <2>1. <<p[1], c>> \in Pairs /\ Cascade(p[2]) \in Causes
    BY <1>1 DEF Pairs, Causes
  <2>2. Cascade(p[2]).kind = "Cascade" /\ Cascade(p[2]).channel = p[2]
    BY DEF Cascade
  <2>3. Source(Cascade(p[2]), <<p[1], c>>) = {<<p[1], p[2]>>}
    BY <2>2 DEF Source
  <2>. QED
    BY <1>1, <2>1, <2>3
<1>3. ASSUME NEW q \in crossDependents[p]
      PROVE  /\ q \in Pairs /\ CrossChannel(p) \in Causes
             /\ Source(CrossChannel(p), q) = {p}
  <2>1. q \in Pairs /\ CrossChannel(p) \in Causes
    BY <1>1 DEF Causes
  <2>2. /\ CrossChannel(p).kind = "CrossChannel"
        /\ CrossChannel(p).channel = p[2] /\ CrossChannel(p).key = p[1]
    BY DEF CrossChannel
  <2>3. Source(CrossChannel(p), q) = {<<p[1], p[2]>>}
    BY <2>2 DEF Source
  <2>. QED
    BY <1>1, <2>1, <2>3
<1>4. ASSUME NEW entry \in Successors(p)
      PROVE  entry \in Pairs \X Causes /\ Source(entry[2], entry[1]) = {p}
  <2>1. CASE \E c \in CascadesFrom(p[2]) : entry = <<<<p[1], c>>, Cascade(p[2])>>
    BY <2>1, <1>2
  <2>2. CASE \E q \in crossDependents[p] : entry = <<q, CrossChannel(p)>>
    BY <2>2, <1>3
  <2>. QED
    BY <2>1, <2>2 DEF Successors
<1>. QED
  BY <1>4 DEF CrossSuccessors

\* Who depends on a pair is a pair of its channel (graph.rs, dependents).
LEMMA DependentsType ==
  ASSUME NEW p
  PROVE  Dependents(p) \in SUBSET Pairs /\ \A q \in Dependents(p) : q[2] = p[2]
BY DEF Dependents

\* The three relations of a closure.
LEMMA RelationTypes ==
  ASSUME RulesTyped
  PROVE  /\ Within \in [Pairs -> SUBSET Pairs]
         /\ Across \in [Pairs -> SUBSET Pairs]
         /\ Flow \in [Pairs -> SUBSET Pairs]
BY DependentsType, SuccessorsType DEF Within, Across, Flow

\* Nothing leads out of a channel that nothing leaves (tracker.rs, the fast
\* path of mark_closure).
LEMMA NothingLeaves ==
  ASSUME NEW p \in Pairs, NothingCrosses(p), NEW q \in Pairs, q[2] = p[2]
  PROVE  CrossSuccessors(q) = {}
<1>1. CascadesFrom(q[2]) = {}
  BY DEF NothingCrosses
<1>2. crossDependents[q] = {}
  <2>1. q = <<q[1], p[2]>> /\ q[1] \in Keys
    BY DEF Pairs
  <2>. QED
    BY <2>1 DEF NothingCrosses
<1>. QED
  BY <1>1, <1>2 DEF CrossSuccessors, Successors

\* What the policy may mark contains the roots and is closed under what the
\* policy follows.
LEMMA LimitClosed ==
  ASSUME RulesTyped, call.roots \in SUBSET Pairs
  PROVE  /\ Limit \in SUBSET Pairs
         /\ call.roots \subseteq Limit
         /\ \A p \in Limit : CrossSuccessors(p) \subseteq Limit
         /\ ~MarksOnlyRoot(call.policy) => \A p \in Limit : Dependents(p) \subseteq Limit
<1>. DEFINE D == IF MarksOnlyRoot(call.policy) THEN Across ELSE Flow
<1>1. D \in [Pairs -> SUBSET Pairs]
  BY RelationTypes
<1>2. /\ \A p \in Pairs : CrossSuccessors(p) \subseteq D[p]
      /\ ~MarksOnlyRoot(call.policy) => \A p \in Pairs : Dependents(p) \subseteq D[p]
  BY DEF Across, Flow
<1>3. Limit = ReachableFrom(D, call.roots)
  BY DEF Limit
<1>. HIDE DEF D
<1>4. Limit \in SUBSET Pairs /\ call.roots \subseteq Limit /\ ClosedUnder(D, Limit)
  BY <1>1, <1>3, ReachableClosed
<1>. QED
  BY <1>2, <1>4 DEF ClosedUnder

-----------------------------------------------------------------------------
(***************************************************************************)
(* Counting the invalidated keys of a channel.                             *)
(***************************************************************************)

\* There are finitely many pairs.
LEMMA PairsFinite ==
  /\ IsFiniteSet(Pairs)
  /\ \A S \in SUBSET Pairs : IsFiniteSet(S) /\ Cardinality(S) \in Nat
<1>1. IsFiniteSet(Pairs)
  BY MarkAssumption, FS_Product DEF Pairs
<1>. QED
  BY <1>1, FS_Subset, FS_CardinalityType

\* A channel has no more pairs than there are keys (set.rs, len).
LEMMA LengthType ==
  ASSUME NEW pairs \in SUBSET Pairs, NEW c \in Channels
  PROVE  Length(pairs, c) \in 0..Cardinality(Keys)
<1>. DEFINE all == Keys \X {c}
            here == {p \in pairs : p[2] = c}
<1>1. IsFiniteSet(all) /\ Cardinality(all) = Cardinality(Keys)
  <2>1. IsFiniteSet({c}) /\ Cardinality({c}) = 1
    BY FS_Singleton
  <2>2. IsFiniteSet(Keys) /\ Cardinality(Keys) \in Nat
    BY MarkAssumption, FS_CardinalityType
  <2>3. IsFiniteSet(all) /\ Cardinality(all) = Cardinality(Keys) * Cardinality({c})
    BY <2>1, <2>2, FS_Product
  <2>. QED
    BY <2>1, <2>2, <2>3
<1>2. here \subseteq all
  BY DEF Pairs
<1>3. Cardinality(here) \in Nat /\ Cardinality(here) <= Cardinality(all)
  <2>. HIDE DEF all, here
  <2>. QED
    BY <1>1, <1>2, FS_Subset, FS_CardinalityType
<1>4. Cardinality(all) \in Nat
  BY <1>1, FS_CardinalityType
<1>. QED
  BY <1>1, <1>3, <1>4 DEF Length

\* Marking in one channel makes its set longer by what was not marked before.
LEMMA LengthGrows ==
  ASSUME NEW before \in SUBSET Pairs, NEW after \in SUBSET Pairs, NEW c \in Channels,
         before \subseteq after, \A p \in after \ before : p[2] = c
  PROVE  /\ Length(before, c) \in Nat /\ Length(after, c) \in Nat
         /\ Cardinality(after \ before) \in Nat
         /\ Length(after, c) = Length(before, c) + Cardinality(after \ before)
<1>. DEFINE B == {p \in before : p[2] = c}
            A == {p \in after : p[2] = c}
<1>1. A = B \cup (after \ before) /\ B \cap (after \ before) = {}
  OBVIOUS
<1>2. /\ IsFiniteSet(B) /\ Cardinality(B) \in Nat
      /\ IsFiniteSet(after \ before) /\ Cardinality(after \ before) \in Nat
  BY PairsFinite
<1>3. Length(before, c) = Cardinality(B) /\ Length(after, c) = Cardinality(A)
  BY DEF Length
<1>. HIDE DEF A, B
<1>4. Cardinality(A) = Cardinality(B) + Cardinality(after \ before)
                         - Cardinality(B \cap (after \ before))
  BY <1>1, <1>2, FS_Union
<1>5. Cardinality(B \cap (after \ before)) = 0
  BY <1>1, FS_EmptySet
<1>. QED
  BY <1>2, <1>3, <1>4, <1>5

\* Two sets that share nothing are counted one by one.
LEMMA DisjointUnion ==
  ASSUME NEW S \in SUBSET Pairs, NEW T \in SUBSET Pairs, S \cap T = {}
  PROVE  /\ Cardinality(S) \in Nat /\ Cardinality(T) \in Nat
         /\ Cardinality(S \cup T) = Cardinality(S) + Cardinality(T)
<1>1. /\ IsFiniteSet(S) /\ Cardinality(S) \in Nat
      /\ IsFiniteSet(T) /\ Cardinality(T) \in Nat
  BY PairsFinite
<1>2. Cardinality(S \cup T) = Cardinality(S) + Cardinality(T) - Cardinality(S \cap T)
  BY <1>1, FS_Union
<1>3. Cardinality(S \cap T) = 0
  BY FS_EmptySet
<1>. QED
  BY <1>1, <1>2, <1>3
-----------------------------------------------------------------------------
(***************************************************************************)
(* The fields of a call, and what each step makes of them.                 *)
(***************************************************************************)
Reports == [newly : Nat, channels : SUBSET Channels, steps : Nat, keysScanned : Nat]

CallTyped ==
  /\ call \in Calls
  /\ call.active
  /\ call.roots \in SUBSET Pairs /\ call.before \in SUBSET Pairs
  /\ call.policy \in Policies
  /\ call.traced \in BOOLEAN /\ call.follows \in BOOLEAN
  /\ call.worklist \in SUBSET (Pairs \X Causes)
  /\ Listed \in SUBSET Pairs
  /\ call.processed \in SUBSET Pairs
  /\ call.scanned \in SUBSET Pairs
  /\ call.stack \in SUBSET Pairs
  /\ call.lengthBefore \in 0..Cardinality(Keys)
  /\ call.report \in Reports

\* What the types say of a call in progress, field by field.
LEMMA TypedCall ==
  ASSUME TypeOK, call.active
  PROVE  CallTyped
<1>1. call \in Calls
  BY DEF TypeOK, NoCall
<1>. QED
  BY <1>1 DEF CallTyped, Calls, Reports, Listed

\* The rules are typed.
LEMMA TypedRules ==
  ASSUME TypeOK
  PROVE  RulesTyped
BY DEF TypeOK, RulesTyped

\* A policy of a call is one of three.
LEMMA PolicyNamed ==
  ASSUME call.policy \in Policies
  PROVE  /\ call.policy \in {"Eager", "Lazy", "Custom"}
         /\ Eager <=> call.policy = "Eager"
         /\ MarksOnlyRoot(call.policy) <=> call.policy = "Lazy"
         /\ ~(Eager /\ MarksOnlyRoot(call.policy))
BY MarkAssumption DEF Eager, MarksAllDependents, MarksOnlyRoot

\* What a step of a call never changes.
Kept ==
  /\ call.active /\ call'.active
  /\ call'.roots = call.roots /\ call'.before = call.before
  /\ call'.policy = call.policy /\ call'.traced = call.traced /\ call'.follows = call.follows
  /\ UNCHANGED rules

\* Recording keeps the recorder a map from pairs to causes (trace.rs, record).
LEMMA RecordedType ==
  ASSUME NEW pairs \in SUBSET Pairs, NEW cause \in Causes,
         DOMAIN causes \subseteq Pairs, \A p \in DOMAIN causes : causes[p] \in Causes
  PROVE  /\ DOMAIN Recorded(pairs, cause) \subseteq Pairs
         /\ \A p \in DOMAIN Recorded(pairs, cause) : Recorded(pairs, cause)[p] \in Causes
<1>1. CASE call.traced
  <2>. DEFINE new == [p \in DOMAIN causes \cup pairs |-> IF p \in DOMAIN causes THEN causes[p] ELSE cause]
  <2>1. Recorded(pairs, cause) = new
    BY <1>1 DEF Recorded
  <2>2. DOMAIN new \subseteq Pairs /\ \A p \in DOMAIN new : new[p] \in Causes
    OBVIOUS
  <2>. QED
    BY ONLY <2>1, <2>2
<1>2. CASE ~call.traced
  BY <1>2 DEF Recorded
<1>. QED
  BY <1>1, <1>2

\* What is put on the worklist is a pair with a cause, and all that the pair
\* leads to and that was not processed (tracker.rs, enqueue).
LEMMA EnqueuedMeans ==
  ASSUME RulesTyped, NEW p \in Pairs, NEW processed
  PROVE  /\ Enqueued(p, processed) \in SUBSET (Pairs \X Causes)
         /\ \A entry \in Enqueued(p, processed) :
              entry[1] \in CrossSuccessors(p) /\ Source(entry[2], entry[1]) = {p}
         /\ call.follows =>
              \A q \in CrossSuccessors(p) \ processed :
                q \in {entry[1] : entry \in Enqueued(p, processed)}
         /\ ~call.follows => Enqueued(p, processed) = {}
<1>1. /\ Successors(p) \in SUBSET (Pairs \X Causes)
      /\ \A entry \in Successors(p) : Source(entry[2], entry[1]) = {p}
  BY SuccessorsType
<1>. QED
  BY <1>1 DEF Enqueued, CrossSuccessors

\* A policy marks the pair it is run on and pairs of its channel, and no more
\* than the limit of the call (tracker.rs, run_policy).
LEMMA PolicyMarksMeans ==
  ASSUME RulesTyped, NEW p \in Pairs, NEW marks \in PolicyMarks(p)
  PROVE  /\ p \in marks
         /\ marks \in SUBSET Pairs
         /\ \A q \in marks : q[2] = p[2]
         /\ call.roots \in SUBSET Pairs /\ p \in Limit => marks \subseteq Limit
<1>1. CASE call.policy = "Lazy"
  <2>1. marks = {p}
    BY <1>1 DEF PolicyMarks, LazyMarks
  <2>. QED
    BY <2>1
<1>2. CASE call.policy # "Lazy"
  <2>1. PICK more \in SUBSET ReachableFrom(Within, {p}) : marks = {p} \cup more
    BY <1>2 DEF PolicyMarks, CustomMarks, Within
  <2>2. Within \in [Pairs -> SUBSET Pairs]
    BY RelationTypes
  <2>3. more \subseteq {q \in Pairs : q[2] = p[2]}
    <3>. DEFINE C == {q \in Pairs : q[2] = p[2]}
    <3>1. C \in SUBSET Pairs /\ {p} \in SUBSET C
      OBVIOUS
    <3>2. ASSUME NEW q \in C, NEW r \in Within[q]
          PROVE  r \in C
      <4>1. r \in Dependents(q)
        BY <3>2 DEF Within
      <4>. QED
        BY <4>1, DependentsType
    <3>3. ClosedUnder(Within, C)
      BY <3>2 DEF ClosedUnder
    <3>. HIDE DEF C
    <3>4. ReachableFrom(Within, {p}) \subseteq C
      BY <2>2, <3>1, <3>3, ReachableLeast
    <3>. QED
      BY <3>4 DEF C
  <2>4. ASSUME call.roots \in SUBSET Pairs, p \in Limit
        PROVE  more \subseteq Limit
    <3>1. ~MarksOnlyRoot(call.policy)
      BY <1>2 DEF MarksOnlyRoot
    <3>2. Limit \in SUBSET Pairs /\ \A q \in Limit : Dependents(q) \subseteq Limit
      BY <2>4, <3>1, LimitClosed
    <3>3. ClosedUnder(Within, Limit)
      BY <3>2 DEF ClosedUnder, Within
    <3>4. ReachableFrom(Within, {p}) \subseteq Limit
      BY <2>2, <2>4, <3>2, <3>3, ReachableLeast
    <3>. QED
      BY <3>4
  <2>. QED
    BY <2>1, <2>3, <2>4
<1>. QED
  BY <1>1, <1>2

\* An entry whose pair was processed before is dropped, and that is all
\* (tracker.rs, the first `continue` of mark_closure).
LEMMA SkipProcessedMeans ==
  ASSUME CallTyped, NEW entry, SkipProcessed(entry)
  PROVE  /\ Kept
         /\ entry \in call.worklist /\ call.stack = {} /\ entry[1] \in call.processed
         /\ call'.worklist = call.worklist \ {entry}
         /\ call'.processed = call.processed /\ call'.scanned = call.scanned
         /\ call'.stack = call.stack
         /\ call'.lengthBefore = call.lengthBefore /\ call'.report = call.report
         /\ invalidated' = invalidated /\ causes' = causes
         /\ call' \in Calls
<1>1. /\ call \in Calls /\ call.active /\ call.stack = {} /\ entry \in call.worklist
      /\ entry[1] \in call.processed
      /\ call' = [call EXCEPT !.worklist = @ \ {entry}]
      /\ UNCHANGED <<rules, invalidated, causes>>
  BY DEF CallTyped, SkipProcessed, Takes
<1>2. call.worklist \ {entry} \in SUBSET (Pairs \X Causes)
  BY DEF CallTyped
<1>. QED
  BY <1>1, <1>2 DEF Calls, Kept

\* An eager call does not walk from a pair it has scanned, and remembers that
\* it is processed (tracker.rs, the second `continue` of mark_closure).
LEMMA SkipScannedMeans ==
  ASSUME CallTyped, NEW entry, SkipScanned(entry)
  PROVE  /\ Kept
         /\ entry \in call.worklist /\ call.stack = {} /\ Eager
         /\ entry[1] \in call.scanned \ call.processed
         /\ call'.worklist = call.worklist \ {entry}
         /\ call'.processed = call.processed \cup {entry[1]}
         /\ call'.scanned = call.scanned /\ call'.stack = call.stack
         /\ call'.lengthBefore = call.lengthBefore /\ call'.report = call.report
         /\ invalidated' = invalidated /\ causes' = Recorded({entry[1]}, entry[2])
         /\ call' \in Calls
<1>1. /\ call \in Calls /\ call.active /\ call.stack = {} /\ entry \in call.worklist
      /\ Eager /\ entry[1] \in call.scanned \ call.processed
      /\ call' = [call EXCEPT !.worklist = @ \ {entry}, !.processed = @ \cup {entry[1]}]
      /\ causes' = Recorded({entry[1]}, entry[2])
      /\ UNCHANGED <<rules, invalidated>>
  BY DEF CallTyped, SkipScanned, Takes, Eager
<1>2. /\ call.worklist \ {entry} \in SUBSET (Pairs \X Causes)
      /\ call.processed \cup {entry[1]} \in SUBSET Pairs
  BY <1>1 DEF CallTyped
<1>. QED
  BY <1>1, <1>2 DEF Calls, Kept

\* What one eager turn does to the call, the marks and the recorder, written
\* out (tracker.rs, mark_closure under the eager policy).
LEMMA EagerStepMeans ==
  ASSUME CallTyped, RulesTyped, invalidated \subseteq Pairs, NEW entry, EagerStep(entry)
  PROVE  /\ Kept
         /\ entry \in call.worklist /\ call.stack = {} /\ Eager
         /\ entry \in Pairs \X Causes
         /\ entry[1] \notin call.processed \cup call.scanned
         /\ call'.worklist = (call.worklist \ {entry})
                               \cup Enqueued(entry[1], call.processed \cup {entry[1]})
         /\ call'.processed = call.processed \cup {entry[1]}
         /\ call'.scanned = call.scanned \cup {entry[1]}
         /\ call'.stack = {entry[1]}
         /\ call'.lengthBefore = Length(invalidated, entry[1][2])
         /\ call'.report.newly = call.report.newly
         /\ call'.report.channels = call.report.channels
         /\ call'.report.steps = call.report.steps + 1
         /\ call'.report.keysScanned = call.report.keysScanned
         /\ call'.report \in Reports
         /\ invalidated' = invalidated \cup {entry[1]}
         /\ causes' = Recorded({entry[1]}, entry[2])
         /\ call' \in Calls
<1>. DEFINE listed == Enqueued(entry[1], call.processed \cup {entry[1]})
            before == Length(invalidated, entry[1][2])
            report == [call.report EXCEPT !.steps = @ + 1]
<1>1. /\ call \in Calls /\ call.active /\ call.stack = {} /\ entry \in call.worklist
      /\ Eager /\ entry[1] \notin call.processed \cup call.scanned
      /\ call' = [call EXCEPT
                !.worklist = (@ \ {entry}) \cup listed,
                !.processed = @ \cup {entry[1]},
                !.scanned = @ \cup {entry[1]},
                !.stack = {entry[1]},
                !.lengthBefore = before,
                !.report = report]
      /\ invalidated' = invalidated \cup {entry[1]}
      /\ causes' = Recorded({entry[1]}, entry[2])
      /\ UNCHANGED rules
  BY DEF CallTyped, EagerStep, Takes, Eager, Calls
<1>2. entry \in Pairs \X Causes /\ entry[1] \in Pairs /\ entry[1][2] \in Channels
  BY <1>1 DEF CallTyped, Pairs
<1>3. listed \in SUBSET (Pairs \X Causes)
  BY <1>2, EnqueuedMeans
<1>4. before \in 0..Cardinality(Keys)
  BY <1>2, LengthType
<1>5. /\ report \in Reports
      /\ report.newly = call.report.newly /\ report.channels = call.report.channels
      /\ report.steps = call.report.steps + 1
      /\ report.keysScanned = call.report.keysScanned
  BY DEF CallTyped, Reports
<1>. HIDE DEF listed, before, report
<1>6. /\ call'.worklist = (call.worklist \ {entry}) \cup listed
      /\ call'.processed = call.processed \cup {entry[1]}
      /\ call'.scanned = call.scanned \cup {entry[1]}
      /\ call'.stack = {entry[1]}
      /\ call'.lengthBefore = before
      /\ call'.report = report
      /\ Kept
  BY <1>1 DEF Calls, Kept
<1>7. call' \in Calls
  BY <1>1, <1>2, <1>3, <1>4, <1>5 DEF Calls, Reports
<1>. QED
  BY <1>1, <1>2, <1>5, <1>6, <1>7 DEF listed, before

\* What adding to a report does (tracker.rs, MarkReport::add).
LEMMA AddMeans ==
  ASSUME NEW report \in Reports, NEW c \in Channels, NEW n \in Int
  PROVE  /\ Add(report, c, n) \in Reports
         /\ Add(report, c, n).steps = report.steps
         /\ Add(report, c, n).keysScanned = report.keysScanned
         /\ n > 0 => /\ Add(report, c, n).newly = report.newly + n
                     /\ Add(report, c, n).channels = report.channels \cup {c}
         /\ ~(n > 0) => Add(report, c, n) = report
<1>1. CASE n > 0
  <2>. DEFINE more == [report EXCEPT !.newly = @ + n, !.channels = @ \cup {c}]
  <2>1. Add(report, c, n) = more
    BY <1>1 DEF Add
  <2>2. /\ report.newly + n \in Nat /\ report.channels \cup {c} \in SUBSET Channels
        /\ report \in Reports
    BY <1>1 DEF Reports
  <2>3. /\ more \in Reports
        /\ more.steps = report.steps /\ more.keysScanned = report.keysScanned
        /\ more.newly = report.newly + n /\ more.channels = report.channels \cup {c}
    BY <2>2 DEF Reports
  <2>. HIDE DEF more
  <2>. QED
    BY <1>1, <2>1, <2>3
<1>2. CASE ~(n > 0)
  BY <1>2 DEF Add
<1>. QED
  BY <1>1, <1>2

\* What one turn under another policy does: the policy marks, and the walk
\* starts unless only roots are marked (tracker.rs, mark_closure).
LEMMA PolicyStepMeans ==
  ASSUME CallTyped, RulesTyped, invalidated \in SUBSET Pairs, NEW entry, PolicyStep(entry)
  PROVE  LET p     == entry[1]
             walks == call.follows /\ ~MarksOnlyRoot(call.policy) /\ p \notin call.scanned
         IN
         /\ Kept
         /\ entry \in call.worklist /\ call.stack = {} /\ ~Eager
         /\ entry \in Pairs \X Causes
         /\ p \notin call.processed
         /\ call'.worklist = (call.worklist \ {entry})
                               \cup Enqueued(p, call.processed \cup {p})
         /\ call'.processed = call.processed \cup {p}
         /\ call'.scanned = IF walks THEN call.scanned \cup {p} ELSE call.scanned
         /\ call'.stack = IF walks THEN {p} ELSE {}
         /\ call'.lengthBefore = call.lengthBefore
         /\ call'.report = Add([call.report EXCEPT !.steps = @ + 1], p[2],
                               Length(invalidated', p[2]) - Length(invalidated, p[2]))
         /\ call'.report \in Reports
         /\ invalidated \subseteq invalidated' /\ p \in invalidated'
         /\ invalidated' \in SUBSET Pairs
         /\ \A q \in invalidated' \ invalidated : q[2] = p[2]
         /\ p \in Limit => invalidated' \subseteq invalidated \cup Limit
         /\ causes' = Recorded({p}, entry[2])
         /\ call' \in Calls
<1>. DEFINE p      == entry[1]
            walks  == call.follows /\ ~MarksOnlyRoot(call.policy) /\ p \notin call.scanned
            listed == Enqueued(p, call.processed \cup {p})
            grown  == Length(invalidated', p[2]) - Length(invalidated, p[2])
            base   == [call.report EXCEPT !.steps = @ + 1]
            report == Add(base, p[2], grown)
            scan   == IF walks THEN call.scanned \cup {p} ELSE call.scanned
            stack  == IF walks THEN {p} ELSE {}
<1>1. /\ call \in Calls /\ call.active /\ call.stack = {} /\ entry \in call.worklist
      /\ ~Eager /\ p \notin call.processed
      /\ \E marks \in PolicyMarks(p) : invalidated' = invalidated \cup marks
      /\ UNCHANGED rules
  BY DEF CallTyped, PolicyStep, Takes, Eager
<1>2. entry \in Pairs \X Causes /\ p \in Pairs /\ p[2] \in Channels
  BY <1>1 DEF CallTyped, Pairs
<1>3. /\ invalidated \subseteq invalidated' /\ p \in invalidated'
      /\ invalidated' \in SUBSET Pairs
      /\ \A q \in invalidated' \ invalidated : q[2] = p[2]
      /\ p \in Limit => invalidated' \subseteq invalidated \cup Limit
  <2>1. PICK marks \in PolicyMarks(p) : invalidated' = invalidated \cup marks
    BY <1>1
  <2>2. call.roots \in SUBSET Pairs
    BY DEF CallTyped
  <2>3. /\ p \in marks /\ marks \in SUBSET Pairs
        /\ \A q \in marks : q[2] = p[2]
        /\ p \in Limit => marks \subseteq Limit
    <3>. HIDE DEF p
    <3>. QED
      BY <1>2, <2>2, PolicyMarksMeans
  <2>. HIDE DEF p
  <2>. QED
    BY <2>1, <2>3
<1>4. causes' = Recorded({p}, entry[2])
  <2>1. StepTrace(Reported(p), entry) = entry
    BY DEF StepTrace
  <2>. QED
    BY <2>1 DEF PolicyStep
<1>5. call' = [call EXCEPT !.worklist = (@ \ {entry}) \cup listed,
                           !.processed = @ \cup {p},
                           !.scanned = scan, !.stack = stack, !.report = report]
  <2>1. call' = [call EXCEPT !.worklist = (@ \ {entry}) \cup listed,
                             !.processed = @ \cup {p},
                             !.scanned = scan, !.stack = stack, !.report = Record(base, p[2])]
    BY DEF PolicyStep
  <2>2. Record(base, p[2]) = report
    BY DEF Record
  <2>. QED
    BY <2>1, <2>2
<1>6. listed \in SUBSET (Pairs \X Causes)
  <2>. HIDE DEF p
  <2>. QED
    BY <1>2, EnqueuedMeans
<1>7. grown \in Int
  <2>1. /\ Length(invalidated, p[2]) \in 0..Cardinality(Keys)
        /\ Length(invalidated', p[2]) \in 0..Cardinality(Keys)
    <3>. HIDE DEF p
    <3>. QED
      BY <1>2, <1>3, LengthType
  <2>2. Cardinality(Keys) \in Nat
    BY MarkAssumption, FS_CardinalityType
  <2>. QED
    BY <2>1, <2>2
<1>8. base \in Reports
  BY DEF CallTyped, Reports
<1>9. report \in Reports
  <2>. HIDE DEF p, grown, base
  <2>. QED
    BY <1>2, <1>7, <1>8, AddMeans
<1>10. scan \in SUBSET Pairs /\ stack \in SUBSET Pairs /\ call.processed \cup {p} \in SUBSET Pairs
  <2>. HIDE DEF p
  <2>. QED
    BY <1>2 DEF CallTyped
<1>. HIDE DEF listed, grown, base, report, scan, stack, walks
<1>11. /\ call'.worklist = (call.worklist \ {entry}) \cup listed
       /\ call'.processed = call.processed \cup {p}
       /\ call'.scanned = scan /\ call'.stack = stack
       /\ call'.lengthBefore = call.lengthBefore
       /\ call'.report = report
       /\ Kept
  BY <1>1, <1>5 DEF Calls, Kept
<1>12. call' \in Calls
  <2>. HIDE DEF p
  <2>. QED
    BY <1>1, <1>2, <1>5, <1>6, <1>9, <1>10 DEF Calls, Reports
<1>. QED
  BY <1>1, <1>2, <1>3, <1>4, <1>9, <1>11, <1>12 DEF listed, report, base, grown, scan, stack, walks

\* What one turn of the walk does: the dependents not scanned before are
\* pushed, and those that count are marked or passed on (tracker.rs).
LEMMA WalkMeans ==
  ASSUME CallTyped, RulesTyped, invalidated \in SUBSET Pairs, NEW p \in Pairs, Walk(p)
  PROVE  LET new    == Dependents(p) \ call.scanned
             hit    == IF Eager THEN new ELSE new \cap invalidated
             left   == (call.stack \ {p}) \cup new
             walked == [call.report EXCEPT
                          !.keysScanned = @ + IF call.follows THEN Cardinality(new) ELSE 0]
             grown  == Length(invalidated', p[2]) - call.lengthBefore
         IN
         /\ Kept
         /\ p \in call.stack
         /\ new \in SUBSET Pairs /\ \A q \in new : q[2] = p[2]
         /\ invalidated' = invalidated \cup hit
         /\ invalidated' \in SUBSET Pairs
         /\ causes' = IF Eager THEN Recorded(new, Dependency(p[1])) ELSE causes
         /\ call'.worklist = call.worklist \cup UNION {Enqueued(q, call.processed) : q \in hit}
         /\ call'.processed = call.processed
         /\ call'.scanned = call.scanned \cup new
         /\ call'.stack = left
         /\ call'.lengthBefore = call.lengthBefore
         /\ walked \in Reports
         /\ walked.keysScanned
              = call.report.keysScanned + IF call.follows THEN Cardinality(new) ELSE 0
         /\ walked.steps = call.report.steps
         /\ walked.newly = call.report.newly
         /\ walked.channels = call.report.channels
         /\ grown \in Int
         /\ call'.report = IF left = {} /\ Eager THEN Add(walked, p[2], grown) ELSE walked
         /\ call'.report \in Reports
         /\ call' \in Calls
<1>. DEFINE new    == Dependents(p) \ call.scanned
            hit    == IF Eager THEN new ELSE new \cap invalidated
            left   == (call.stack \ {p}) \cup new
            count  == IF call.follows THEN Cardinality(new) ELSE 0
            walked == [call.report EXCEPT !.keysScanned = @ + count]
            grown  == Length(invalidated', p[2]) - call.lengthBefore
            report == IF left = {} /\ Eager THEN Add(walked, p[2], grown) ELSE walked
            listed == UNION {Enqueued(q, call.processed) : q \in hit}
<1>1. /\ call \in Calls /\ call.active /\ p \in call.stack
      /\ invalidated' = invalidated \cup hit
      /\ causes' = IF Eager THEN Recorded(new, Dependency(p[1])) ELSE causes
      /\ UNCHANGED rules
  BY DEF CallTyped, Walk, Eager
<1>2. call' = [call EXCEPT !.worklist = @ \cup listed, !.scanned = @ \cup new,
                           !.stack = left, !.report = Walked(p[2], new, left = {})]
  BY DEF Walk, Eager
<1>3. Walked(p[2], new, left = {}) = report
  BY DEF Walked, Eager
<1>4. p[2] \in Channels
  BY DEF Pairs
<1>5. /\ new \in SUBSET Pairs /\ \A q \in new : q[2] = p[2]
      /\ hit \in SUBSET new
  BY DependentsType
<1>6. invalidated' \in SUBSET Pairs
  BY <1>1, <1>5
<1>7. count \in Nat
  <2>. HIDE DEF new
  <2>. QED
    BY <1>5, PairsFinite
<1>8. grown \in Int
  <2>1. Length(invalidated', p[2]) \in 0..Cardinality(Keys)
    BY <1>4, <1>6, LengthType
  <2>2. Cardinality(Keys) \in Nat /\ call.lengthBefore \in 0..Cardinality(Keys)
    BY MarkAssumption, FS_CardinalityType DEF CallTyped
  <2>. QED
    BY <2>1, <2>2
<1>. HIDE DEF count, new, hit, grown
<1>9. /\ walked \in Reports
      /\ walked.keysScanned = call.report.keysScanned + count
      /\ walked.steps = call.report.steps /\ walked.newly = call.report.newly
      /\ walked.channels = call.report.channels
  BY <1>7 DEF CallTyped, Reports
<1>. HIDE DEF walked
<1>10. report \in Reports
  BY <1>4, <1>8, <1>9, AddMeans
<1>11. listed \in SUBSET (Pairs \X Causes)
  <2>1. \A q \in hit : Enqueued(q, call.processed) \in SUBSET (Pairs \X Causes)
    BY <1>5, EnqueuedMeans
  <2>. QED
    BY <2>1
<1>12. /\ call.scanned \cup new \in SUBSET Pairs /\ left \in SUBSET Pairs
       /\ call.worklist \cup listed \in SUBSET (Pairs \X Causes)
  BY <1>5, <1>11 DEF CallTyped
<1>. HIDE DEF listed, left, report
<1>13. /\ call'.worklist = call.worklist \cup listed
       /\ call'.processed = call.processed
       /\ call'.scanned = call.scanned \cup new /\ call'.stack = left
       /\ call'.lengthBefore = call.lengthBefore
       /\ call'.report = report
       /\ Kept
  BY <1>1, <1>2, <1>3 DEF Calls, Kept
<1>14. call' \in Calls
  BY <1>1, <1>2, <1>3, <1>10, <1>12 DEF Calls, Reports
<1>. QED
  BY <1>1, <1>5, <1>6, <1>8, <1>9, <1>10, <1>13, <1>14
     DEF new, hit, left, count, walked, grown, report, listed


\* A call begins with its roots on the worklist; it takes the fast path for a
\* single root in a channel that nothing leaves (tracker.rs, mark_closure).
LEMMA BeginMarkMeans ==
  ASSUME NEW roots \in SUBSET Pairs, NEW policy \in Policies, NEW traced \in BOOLEAN,
         invalidated \in SUBSET Pairs,
         BeginMark(roots, policy, traced)
  PROVE  /\ ~call.active /\ call'.active
         /\ call' \in Calls
         /\ call'.roots = roots /\ call'.before = invalidated
         /\ call'.policy = policy /\ call'.traced = traced
         /\ call'.worklist = {<<p, Root>> : p \in roots}
         /\ call'.processed = {} /\ call'.scanned = {} /\ call'.stack = {}
         /\ call'.report = NoReport
         /\ ~call'.follows => \E p \in Pairs : roots = {p} /\ NothingCrosses(p)
         /\ UNCHANGED <<rules, invalidated, causes>>
<1>. DEFINE fast == /\ Cardinality(roots) = 1
                    /\ MarksAllDependents(policy) => traced
                    /\ \A p \in roots : NothingCrosses(p)
            listed == {<<p, Root>> : p \in roots}
            new == [active |-> TRUE, roots |-> roots, before |-> invalidated,
                    policy |-> policy, traced |-> traced, follows |-> ~fast,
                    worklist |-> listed,
                    processed |-> {}, scanned |-> {}, stack |-> {},
                    lengthBefore |-> 0, report |-> NoReport]
<1>1. ~call.active /\ call' = new /\ UNCHANGED <<rules, invalidated, causes>>
  BY DEF BeginMark, Idle
<1>2. fast => \E p \in Pairs : roots = {p} /\ NothingCrosses(p)
  <2>1. ASSUME fast
        PROVE  \E p \in Pairs : roots = {p} /\ NothingCrosses(p)
    <3>1. PICK p : roots = {p}
      BY <2>1, PairsFinite, FS_Singleton
    <3>. QED
      BY <2>1, <3>1
  <2>. QED
    BY <2>1
<1>3. fast \in BOOLEAN
  OBVIOUS
<1>. HIDE DEF fast
<1>4. listed \in SUBSET (Pairs \X Causes)
  BY DEF Causes
<1>5. 0 \in 0..Cardinality(Keys) /\ NoReport \in Reports
  BY MarkAssumption, FS_CardinalityType DEF NoReport, Reports
<1>. HIDE DEF listed
<1>6. new \in Calls
  BY <1>3, <1>4, <1>5 DEF Calls, Reports
<1>7. /\ new.active /\ new.roots = roots /\ new.before = invalidated
      /\ new.policy = policy /\ new.traced = traced /\ new.worklist = listed
      /\ new.processed = {} /\ new.scanned = {} /\ new.stack = {}
      /\ new.report = NoReport
      /\ ~new.follows <=> fast
  BY <1>3
<1>. HIDE DEF new
<1>. QED
  BY <1>1, <1>2, <1>6, <1>7 DEF listed

-----------------------------------------------------------------------------
(***************************************************************************)
(* Types.                                                                  *)
(***************************************************************************)

\* Editing rules keeps them typed, and leaves the rest alone between calls.
LEMMA EditTyped ==
  ASSUME TypeOK, Edit
  PROVE  /\ ~call.active /\ call' = call
         /\ RulesTyped'
         /\ invalidated' \in SUBSET Pairs
         /\ causes' = causes \/ causes' = [p \in {} |-> {}]
<1>1. RulesTyped /\ invalidated \in SUBSET Pairs
  BY TypedRules DEF TypeOK
<1>2. ASSUME NEW c \in Channels, NEW from \in Keys, NEW to \in Keys,
             AddDependency(c, from, to) \/ RemoveDependency(c, from, to)
      PROVE  /\ ~call.active /\ call' = call /\ causes' = causes
             /\ RulesTyped' /\ invalidated' \in SUBSET Pairs
  <2>1. /\ ~call.active /\ call' = call /\ causes' = causes /\ invalidated' = invalidated
        /\ cascades' = cascades /\ crossDependents' = crossDependents
    BY <1>2 DEF AddDependency, RemoveDependency, Editable, Idle
  <2>2. PICK new \in SUBSET Keys : dependencies' = [dependencies EXCEPT ![c][from] = new]
    <3>1. dependencies[c][from] \in SUBSET Keys
      BY <1>1 DEF RulesTyped
    <3>2. CASE AddDependency(c, from, to)
      BY <3>1, <3>2 DEF AddDependency
    <3>3. CASE RemoveDependency(c, from, to)
      BY <3>1, <3>3 DEF RemoveDependency
    <3>. QED
      BY <1>2, <3>2, <3>3
  <2>3. dependencies' \in [Channels -> [Keys -> SUBSET Keys]]
    BY <1>1, <2>2 DEF RulesTyped
  <2>. QED
    BY <1>1, <2>1, <2>3 DEF RulesTyped, Pairs
<1>3. ASSUME NEW c \in Channels, NEW d \in Channels, AddCascade(c, d)
      PROVE  /\ ~call.active /\ call' = call /\ causes' = causes
             /\ RulesTyped' /\ invalidated' \in SUBSET Pairs
  <2>1. /\ ~call.active /\ call' = call /\ causes' = causes /\ invalidated' = invalidated
        /\ dependencies' = dependencies /\ crossDependents' = crossDependents
        /\ cascades' = [cascades EXCEPT ![c] = @ \cup {d}]
    BY <1>3 DEF AddCascade, Editable, Idle
  <2>2. cascades' \in [Channels -> SUBSET Channels]
    BY <1>1, <1>3, <2>1 DEF RulesTyped
  <2>. QED
    BY <1>1, <2>1, <2>2 DEF RulesTyped, Pairs
<1>4. ASSUME NEW p \in Pairs, NEW q \in Pairs, AddCrossDependency(p, q)
      PROVE  /\ ~call.active /\ call' = call /\ causes' = causes
             /\ RulesTyped' /\ invalidated' \in SUBSET Pairs
  BY <1>1, <1>4 DEF AddCrossDependency, Editable, Idle, RulesTyped
<1>5. ASSUME NEW p \in Pairs, Take(p) \/ Mark(p)
      PROVE  /\ ~call.active /\ call' = call /\ causes' = causes
             /\ RulesTyped' /\ invalidated' \in SUBSET Pairs
  <2>1. p[1] \in Keys /\ p[2] \in Channels /\ CascadesFrom(p[2]) \in SUBSET Channels
    BY <1>1, CascadesType DEF Pairs
  <2>2. {<<p[1], c>> : c \in CascadesFrom(p[2])} \in SUBSET Pairs
    BY <2>1 DEF Pairs
  <2>3. UNCHANGED rules /\ ~call.active /\ call' = call /\ causes' = causes
    BY <1>5 DEF Take, Mark, Idle
  <2>4. RulesTyped'
    BY <1>1, <2>3 DEF RulesTyped, rules
  <2>5. invalidated' \in SUBSET Pairs
    BY <1>1, <1>5, <2>2 DEF Take, Mark
  <2>. QED
    BY <2>3, <2>4, <2>5
<1>6. ASSUME ClearTrace
      PROVE  /\ ~call.active /\ call' = call /\ causes' = [p \in {} |-> {}]
             /\ RulesTyped' /\ invalidated' \in SUBSET Pairs
  BY <1>1, <1>6 DEF ClearTrace, Idle, RulesTyped, rules
<1>. QED
  BY <1>2, <1>3, <1>4, <1>5, <1>6 DEF Edit

\* A call step is one of six.
LEMMA CallStepCases ==
  ASSUME CallStep
  PROVE  \/ \E entry \in call.worklist :
              SkipProcessed(entry) \/ SkipScanned(entry) \/ EagerStep(entry) \/ PolicyStep(entry)
         \/ \E p \in Pairs : Walk(p)
         \/ Return
BY DEF CallStep, Worklist, SkipProcessed, SkipScanned, EagerStep, PolicyStep, Takes

\* Every step of a tracker keeps the types of its rules, its marks and the
\* call in progress (tracker.rs).
LEMMA NextTyped ==
  ASSUME TypeOK, [Next]_vars
  PROVE  TypeOK'
<1>. DEFINE CausesTyped == DOMAIN causes \subseteq Pairs /\ \A p \in DOMAIN causes : causes[p] \in Causes
<1>1. RulesTyped /\ invalidated \in SUBSET Pairs /\ CausesTyped
  BY TypedRules DEF TypeOK
<1>2. ASSUME RulesTyped', invalidated' \in SUBSET Pairs, CausesTyped',
             call' = NoCall \/ call' \in Calls
      PROVE  TypeOK'
  BY <1>2 DEF TypeOK, RulesTyped
<1>3. UNCHANGED rules => RulesTyped'
  BY <1>1 DEF RulesTyped, rules
<1>4. ASSUME Edit PROVE TypeOK'
  <2>1. RulesTyped' /\ invalidated' \in SUBSET Pairs /\ call' = call
        /\ (causes' = causes \/ causes' = [p \in {} |-> {}])
    BY <1>4, EditTyped
  <2>2. CausesTyped'
    BY <1>1, <2>1
  <2>3. call' = NoCall \/ call' \in Calls
    BY <2>1 DEF TypeOK
  <2>. HIDE DEF CausesTyped
  <2>. QED
    BY <1>2, <2>1, <2>2, <2>3
<1>5. ASSUME NEW roots \in SUBSET Pairs, NEW policy \in Policies, NEW traced \in BOOLEAN,
             BeginMark(roots, policy, traced)
      PROVE  TypeOK'
  <2>1. call' \in Calls /\ UNCHANGED <<rules, invalidated, causes>>
    BY <1>1, <1>5, BeginMarkMeans
  <2>. QED
    BY <1>1, <1>2, <1>3, <2>1
<1>6. ASSUME CallStep PROVE TypeOK'
  <2>1. ASSUME Return PROVE TypeOK'
    <3>1. call' = NoCall /\ UNCHANGED <<rules, invalidated, causes>>
      BY <2>1 DEF Return
    <3>. QED
      BY <1>1, <1>2, <1>3, <3>1
  <2>2. ASSUME NEW entry \in call.worklist, call.active,
               SkipProcessed(entry) \/ SkipScanned(entry) \/ EagerStep(entry) \/ PolicyStep(entry)
        PROVE  TypeOK'
    <3>1. CallTyped
      BY <2>2, TypedCall
    <3>2. entry[1] \in Pairs /\ entry[2] \in Causes
      BY <3>1 DEF CallTyped
    <3>3. /\ DOMAIN Recorded({entry[1]}, entry[2]) \subseteq Pairs
          /\ \A p \in DOMAIN Recorded({entry[1]}, entry[2]) :
               Recorded({entry[1]}, entry[2])[p] \in Causes
      BY <1>1, <3>2, RecordedType
    <3>4. CASE SkipProcessed(entry)
      <4>1. call' \in Calls /\ UNCHANGED <<rules, invalidated, causes>>
        BY <3>1, <3>4, SkipProcessedMeans DEF Kept
      <4>. QED
        BY <1>1, <1>2, <1>3, <4>1
    <3>5. CASE SkipScanned(entry)
      <4>1. /\ call' \in Calls /\ UNCHANGED <<rules, invalidated>>
            /\ causes' = Recorded({entry[1]}, entry[2])
        BY <3>1, <3>5, SkipScannedMeans DEF Kept
      <4>. QED
        BY <1>1, <1>2, <1>3, <3>3, <4>1
    <3>6. CASE EagerStep(entry)
      <4>1. /\ call' \in Calls /\ causes' = Recorded({entry[1]}, entry[2])
            /\ invalidated' = invalidated \cup {entry[1]} /\ UNCHANGED rules
        BY <1>1, <3>1, <3>6, EagerStepMeans DEF Kept
      <4>. QED
        BY <1>1, <1>2, <1>3, <3>2, <3>3, <4>1
    <3>7. CASE PolicyStep(entry)
      <4>1. /\ call' \in Calls /\ causes' = Recorded({entry[1]}, entry[2])
            /\ invalidated' \in SUBSET Pairs /\ UNCHANGED rules
        BY <1>1, <3>1, <3>7, PolicyStepMeans DEF Kept
      <4>. QED
        BY <1>1, <1>2, <1>3, <3>3, <4>1
    <3>. QED
      BY <2>2, <3>4, <3>5, <3>6, <3>7
  <2>3. ASSUME NEW p \in Pairs, call.active, Walk(p) PROVE TypeOK'
    <3>1. CallTyped
      BY <2>3, TypedCall
    <3>. DEFINE new == Dependents(p) \ call.scanned
    <3>2. /\ call' \in Calls /\ UNCHANGED rules /\ invalidated' \in SUBSET Pairs
          /\ causes' = IF Eager THEN Recorded(new, Dependency(p[1])) ELSE causes
          /\ new \in SUBSET Pairs
      BY <1>1, <2>3, <3>1, WalkMeans DEF Kept
    <3>3. Dependency(p[1]) \in Causes
      BY DEF Pairs, Causes
    <3>. HIDE DEF new
    <3>4. CausesTyped'
      BY <1>1, <3>2, <3>3, RecordedType
    <3>. QED
      BY <1>2, <1>3, <3>2, <3>4
  <2>4. call.active
    BY <1>6 DEF CallStep, Worklist, Walk, Return
  <2>. QED
    BY <1>6, <2>1, <2>2, <2>3, <2>4, CallStepCases DEF Walk
<1>7. CASE UNCHANGED vars
  BY <1>7 DEF TypeOK, vars
<1>. QED
  BY <1>4, <1>5, <1>6, <1>7 DEF Next, Begin, MarkMany, MarkWithTrace

\* Rules, marks, causes and the call in progress keep their types, over any
\* number of calls and edits (tracker.rs, mark_closure).
THEOREM MarkTypeCorrect == Spec => []TypeOK
<1>1. Init => TypeOK
  BY DEF Init, TypeOK
<1>2. TypeOK /\ [Next]_vars => TypeOK'
  BY NextTyped
<1>. QED
  BY <1>1, <1>2, PTL DEF Spec

-----------------------------------------------------------------------------
(***************************************************************************)
(* Bounded: nothing is dealt with that the roots do not lead to.           *)
(***************************************************************************)

\* Rules do not change under a call, so neither does what they lead to.
LEMMA KeptRules ==
  ASSUME UNCHANGED rules
  PROVE  /\ \A p : Dependents(p)' = Dependents(p)
         /\ \A c : CascadesFrom(c)' = CascadesFrom(c)
         /\ \A p : CrossSuccessors(p)' = CrossSuccessors(p)
         /\ \A p : NothingCrosses(p)' = NothingCrosses(p)
<1>1. dependencies' = dependencies /\ cascades' = cascades /\ crossDependents' = crossDependents
  BY DEF rules
<1>2. \A p : Dependents(p)' = Dependents(p)
  BY <1>1 DEF Dependents
<1>3. \A c : CascadesFrom(c)' = CascadesFrom(c)
  BY <1>1 DEF CascadesFrom
<1>4. \A p : CrossSuccessors(p)' = CrossSuccessors(p)
  BY <1>1, <1>3 DEF CrossSuccessors, Successors
<1>5. \A p : NothingCrosses(p)' = NothingCrosses(p)
  BY <1>1, <1>3 DEF NothingCrosses
<1>. QED
  BY <1>2, <1>3, <1>4, <1>5

\* A turn changes no rule, so what the call may mark is settled when it begins
\* (tracker.rs, the shared borrows of mark_closure).
LEMMA KeptLimit ==
  ASSUME Kept
  PROVE  Limit' = Limit /\ Eager' = Eager
<1>1. /\ \A p : Dependents(p)' = Dependents(p)
      /\ \A p : CrossSuccessors(p)' = CrossSuccessors(p)
  BY KeptRules DEF Kept
<1>2. Across' = Across /\ Flow' = Flow
  BY <1>1 DEF Across, Flow
<1>3. call'.roots = call.roots /\ call'.policy = call.policy
  BY DEF Kept
<1>4. Limit' = Limit
  BY <1>2, <1>3 DEF Limit, MarksOnlyRoot
<1>. QED
  BY <1>3, <1>4 DEF Eager, MarksAllDependents

\* It is enough that a step stays within the limit.
LEMMA BoundedKept ==
  ASSUME Kept, Bounded,
         invalidated \subseteq invalidated', invalidated' \subseteq invalidated \cup Limit,
         Listed' \subseteq Limit, call'.processed \subseteq Limit,
         call'.scanned \subseteq Limit, call'.stack \subseteq Limit,
         MarksOnlyRoot(call.policy) => call'.scanned = {} /\ call'.stack = {}
  PROVE  Bounded'
<1>1. Limit' = Limit
  BY KeptLimit
<1>2. /\ call'.roots = call.roots /\ call'.before = call.before /\ call'.policy = call.policy
      /\ call.before \subseteq invalidated /\ call.roots # {}
      /\ invalidated \subseteq call.before \cup Limit
  BY DEF Kept, Bounded
<1>3. invalidated' \subseteq call'.before \cup Limit'
  BY <1>1, <1>2
<1>4. Listed' \cup call'.processed \cup call'.scanned \cup call'.stack \subseteq Limit'
  BY <1>1
<1>. QED
  BY <1>2, <1>3, <1>4 DEF Bounded

\* What the pair of an entry leads to, and the pair, are within the limit.
LEMMA EntryBounded ==
  ASSUME CallTyped, RulesTyped, Bounded, NEW entry \in call.worklist, NEW processed
  PROVE  /\ entry[1] \in Pairs /\ entry[1] \in Limit
         /\ {e[1] : e \in (call.worklist \ {entry}) \cup Enqueued(entry[1], processed)}
              \subseteq Limit
         /\ {e[1] : e \in call.worklist \ {entry}} \subseteq Limit
<1>1. entry[1] \in Pairs /\ entry[1] \in Listed /\ Listed \subseteq Limit
  BY DEF CallTyped, Listed, Bounded
<1>2. call.roots \in SUBSET Pairs
  BY DEF CallTyped
<1>3. CrossSuccessors(entry[1]) \subseteq Limit
  BY <1>1, <1>2, LimitClosed
<1>4. \A e \in Enqueued(entry[1], processed) : e[1] \in CrossSuccessors(entry[1])
  BY <1>1, EnqueuedMeans
<1>. QED
  BY <1>1, <1>3, <1>4 DEF Listed

\* A turn of the outer loop marks and lists nothing beyond what the roots
\* reach (tracker.rs, mark_closure).
LEMMA StepBounded ==
  ASSUME CallTyped, RulesTyped, invalidated \in SUBSET Pairs, Bounded,
         NEW entry \in call.worklist,
         SkipProcessed(entry) \/ SkipScanned(entry) \/ EagerStep(entry) \/ PolicyStep(entry)
  PROVE  Bounded'
<1>. DEFINE p == entry[1]
<1>1. p \in Pairs /\ p \in Limit
  BY EntryBounded
<1>2. /\ call.processed \subseteq Limit /\ call.scanned \subseteq Limit /\ call.stack \subseteq Limit
      /\ MarksOnlyRoot(call.policy) => call.scanned = {} /\ call.stack = {}
  BY DEF Bounded
<1>3. ~(Eager /\ MarksOnlyRoot(call.policy))
  BY PolicyNamed DEF CallTyped
<1>4. CASE SkipProcessed(entry)
  <2>1. /\ Kept /\ call'.worklist = call.worklist \ {entry}
        /\ call'.processed = call.processed /\ call'.scanned = call.scanned
        /\ call'.stack = call.stack /\ invalidated' = invalidated
    BY <1>4, SkipProcessedMeans
  <2>2. Listed' \subseteq Limit
    BY <2>1, EntryBounded DEF Listed
  <2>. QED
    BY <1>2, <2>1, <2>2, BoundedKept
<1>5. CASE SkipScanned(entry)
  <2>1. /\ Kept /\ call'.worklist = call.worklist \ {entry}
        /\ call'.processed = call.processed \cup {p} /\ call'.scanned = call.scanned
        /\ call'.stack = call.stack /\ invalidated' = invalidated
    BY <1>5, SkipScannedMeans
  <2>2. Listed' \subseteq Limit
    BY <2>1, EntryBounded DEF Listed
  <2>. QED
    BY <1>1, <1>2, <2>1, <2>2, BoundedKept
<1>6. CASE EagerStep(entry)
  <2>1. /\ Kept /\ Eager
        /\ call'.worklist = (call.worklist \ {entry}) \cup Enqueued(p, call.processed \cup {p})
        /\ call'.processed = call.processed \cup {p} /\ call'.scanned = call.scanned \cup {p}
        /\ call'.stack = {p} /\ invalidated' = invalidated \cup {p}
    BY <1>6, EagerStepMeans
  <2>2. Listed' \subseteq Limit
    BY <2>1, EntryBounded DEF Listed
  <2>. QED
    BY <1>1, <1>2, <1>3, <2>1, <2>2, BoundedKept
<1>7. CASE PolicyStep(entry)
  <2>. DEFINE walks == call.follows /\ ~MarksOnlyRoot(call.policy) /\ p \notin call.scanned
  <2>1. /\ Kept
        /\ call'.worklist = (call.worklist \ {entry}) \cup Enqueued(p, call.processed \cup {p})
        /\ call'.processed = call.processed \cup {p}
        /\ call'.scanned = IF walks THEN call.scanned \cup {p} ELSE call.scanned
        /\ call'.stack = IF walks THEN {p} ELSE {}
        /\ invalidated \subseteq invalidated'
        /\ p \in Limit => invalidated' \subseteq invalidated \cup Limit
    BY <1>7, PolicyStepMeans
  <2>2. Listed' \subseteq Limit
    BY <2>1, EntryBounded DEF Listed
  <2>. QED
    BY <1>1, <1>2, <2>1, <2>2, BoundedKept
<1>. QED
  BY <1>4, <1>5, <1>6, <1>7

\* Nor does a turn of the walk (tracker.rs, mark_closure).
LEMMA WalkBounded ==
  ASSUME CallTyped, RulesTyped, invalidated \in SUBSET Pairs, Bounded, NEW p \in Pairs, Walk(p)
  PROVE  Bounded'
<1>. DEFINE new == Dependents(p) \ call.scanned
            hit == IF Eager THEN new ELSE new \cap invalidated
            listed == UNION {Enqueued(q, call.processed) : q \in hit}
<1>1. /\ Kept /\ p \in call.stack
      /\ new \in SUBSET Pairs
      /\ invalidated' = invalidated \cup hit
      /\ call'.worklist = call.worklist \cup listed
      /\ call'.processed = call.processed /\ call'.scanned = call.scanned \cup new
      /\ call'.stack = (call.stack \ {p}) \cup new
  BY WalkMeans
<1>2. /\ ~MarksOnlyRoot(call.policy)
      /\ call.stack \subseteq Limit /\ call.scanned \subseteq Limit /\ call.processed \subseteq Limit
      /\ Listed \subseteq Limit
  BY <1>1 DEF Bounded
<1>3. call.roots \in SUBSET Pairs
  BY DEF CallTyped
<1>4. new \subseteq Limit /\ hit \subseteq new
  BY <1>1, <1>2, <1>3, LimitClosed
<1>. HIDE DEF new, hit
<1>5. \A q \in hit : \A e \in Enqueued(q, call.processed) : e[1] \in Limit
  <2>. TAKE q \in hit
  <2>1. q \in Pairs /\ q \in Limit
    BY <1>1, <1>4
  <2>2. CrossSuccessors(q) \subseteq Limit
    BY <1>3, <2>1, LimitClosed
  <2>. QED
    BY <2>1, <2>2, EnqueuedMeans
<1>6. Listed' \subseteq Limit
  BY <1>1, <1>2, <1>5 DEF Listed
<1>. QED
  BY <1>1, <1>2, <1>4, <1>6, BoundedKept

\* A call begins with its roots, which the roots reach (tracker.rs, mark_with).
LEMMA BeginBounded ==
  ASSUME RulesTyped, invalidated \in SUBSET Pairs,
         NEW roots \in SUBSET Pairs, NEW policy \in Policies, NEW traced \in BOOLEAN,
         roots # {}, BeginMark(roots, policy, traced)
  PROVE  Bounded'
<1>1. /\ call'.roots = roots /\ call'.before = invalidated
      /\ call'.worklist = {<<q, Root>> : q \in roots}
      /\ call'.processed = {} /\ call'.scanned = {} /\ call'.stack = {}
      /\ UNCHANGED <<rules, invalidated>>
  BY BeginMarkMeans
<1>2. RulesTyped' /\ (call.roots \in SUBSET Pairs)'
  BY <1>1 DEF RulesTyped, rules, Pairs
<1>3. (call.roots \subseteq Limit)'
  BY <1>2, LimitClosed, PTL
<1>4. Listed' = roots
  <2>1. \A q \in roots : <<q, Root>>[1] = q
    OBVIOUS
  <2>2. {entry[1] : entry \in {<<q, Root>> : q \in roots}} = roots
    BY <2>1
  <2>. QED
    BY <1>1, <2>2 DEF Listed
<1>. QED
  BY <1>1, <1>3, <1>4 DEF Bounded

-----------------------------------------------------------------------------
(***************************************************************************)
(* Covered: what a call has dealt with is closed under what its policy     *)
(* follows, up to the worklist and the stack.                              *)
(***************************************************************************)
EagerCovered ==
  /\ call.processed \cup call.stack \subseteq call.scanned
  /\ call.scanned \subseteq invalidated
  /\ \A q \in call.scanned \ call.stack : Dependents(q) \subseteq call.scanned
  /\ \A q \in call.scanned : CrossSuccessors(q) \subseteq call.scanned \cup Listed
  /\ call.roots \subseteq call.scanned \cup Listed

OtherCovered ==
  /\ call.processed \subseteq invalidated
  /\ call.roots \subseteq call.processed \cup Listed
  /\ \A q \in call.processed : CrossSuccessors(q) \subseteq call.processed \cup Listed

\* Coverage by cases: the fast path, the eager policy and the others each have
\* their own bookkeeping (tracker.rs, mark_closure).
LEMMA CoveredMeans ==
  ASSUME call.active
  PROVE  Covered <=> /\ ~call.follows => FastPath
                     /\ Eager => EagerCovered
                     /\ ~Eager => OtherCovered
BY DEF Covered, ScannedIsCovered, EagerCovered, OtherCovered, Eager, Listed

\* In the next state.
LEMMA CoveredNext ==
  ASSUME Kept,
         ~call.follows => FastPath', Eager => EagerCovered', ~Eager => OtherCovered'
  PROVE  Covered'
<1>1. Eager' = Eager /\ call'.follows = call.follows /\ call'.active
  BY KeptLimit DEF Kept
<1>2. (call.active => (Covered <=> /\ ~call.follows => FastPath
                                   /\ Eager => EagerCovered
                                   /\ ~Eager => OtherCovered))'
  BY CoveredMeans, PTL
<1>. QED
  BY <1>1, <1>2

\* The fast path before its step: the root is on the worklist, and nothing else
\* is there.  After the step the worklist is empty.
LEMMA FastEntry ==
  ASSUME FastPath, NEW entry \in call.worklist
  PROVE  /\ entry = <<entry[1], Root>> /\ entry[1] \in Pairs
         /\ call.roots = {entry[1]} /\ NothingCrosses(entry[1])
         /\ call.worklist = {entry}
         /\ call.processed = {} /\ call.scanned = {} /\ call.stack = {}
         /\ call.report.steps = 0 /\ call.report.keysScanned = 0
BY DEF FastPath

\* On the fast path nothing leads out of what is dealt with.
LEMMA FastLeavesNothing ==
  ASSUME FastPath,
         NEW q \in Pairs, NEW p \in call.processed \cup call.scanned \cup call.stack,
         q[2] = p[2]
  PROVE  CrossSuccessors(q) = {}
<1>1. PICK r \in Pairs : NothingCrosses(r) /\ p[2] = r[2]
  BY DEF FastPath
<1>. QED
  BY <1>1, NothingLeaves

\* Taking an entry from the worklist takes at most its pair.
LEMMA TakenListed ==
  ASSUME NEW entry, NEW more,
         call'.worklist = (call.worklist \ {entry}) \cup more
  PROVE  /\ Listed \subseteq Listed' \cup {entry[1]}
         /\ {e[1] : e \in more} \subseteq Listed'
BY DEF Listed

\* Dropping a processed entry uncovers nothing (tracker.rs, mark_closure).
LEMMA SkipProcessedCovered ==
  ASSUME CallTyped, Covered, NEW entry, SkipProcessed(entry)
  PROVE  Covered'
<1>1. /\ Kept /\ entry \in call.worklist /\ entry[1] \in call.processed
      /\ call'.worklist = (call.worklist \ {entry}) \cup {}
      /\ call'.processed = call.processed /\ call'.scanned = call.scanned
      /\ call'.stack = call.stack /\ invalidated' = invalidated
      /\ call'.roots = call.roots
  BY SkipProcessedMeans DEF Kept
<1>2. Listed \subseteq Listed' \cup {entry[1]}
  BY <1>1, TakenListed
<1>3. /\ ~call.follows => FastPath
      /\ Eager => EagerCovered
      /\ ~Eager => OtherCovered
  BY CoveredMeans DEF CallTyped
<1>4. call.follows
  BY <1>1, <1>3, FastEntry
<1>5. /\ \A p : Dependents(p)' = Dependents(p)
      /\ \A p : CrossSuccessors(p)' = CrossSuccessors(p)
  BY <1>1, KeptRules DEF Kept
<1>6. ASSUME Eager PROVE EagerCovered'
  BY <1>1, <1>2, <1>3, <1>5, <1>6 DEF EagerCovered
<1>7. ASSUME ~Eager PROVE OtherCovered'
  BY <1>1, <1>2, <1>3, <1>5, <1>7 DEF OtherCovered
<1>. QED
  BY <1>1, <1>4, <1>6, <1>7, CoveredNext

\* Skipping a scanned pair uncovers nothing, since its walk has been made
\* (tracker.rs, mark_closure).
LEMMA SkipScannedCovered ==
  ASSUME CallTyped, Covered, NEW entry, SkipScanned(entry)
  PROVE  Covered'
<1>1. /\ Kept /\ entry \in call.worklist /\ entry[1] \in call.scanned /\ Eager
      /\ call'.worklist = (call.worklist \ {entry}) \cup {}
      /\ call'.processed = call.processed \cup {entry[1]} /\ call'.scanned = call.scanned
      /\ call'.stack = call.stack /\ invalidated' = invalidated
      /\ call'.roots = call.roots
  BY SkipScannedMeans DEF Kept
<1>2. Listed \subseteq Listed' \cup {entry[1]}
  BY <1>1, TakenListed
<1>3. (~call.follows => FastPath) /\ EagerCovered
  BY <1>1, CoveredMeans DEF CallTyped
<1>4. call.follows
  BY <1>1, <1>3, FastEntry
<1>5. /\ \A p : Dependents(p)' = Dependents(p)
      /\ \A p : CrossSuccessors(p)' = CrossSuccessors(p)
  BY <1>1, KeptRules DEF Kept
<1>6. EagerCovered'
  BY <1>1, <1>2, <1>3, <1>5 DEF EagerCovered
<1>. QED
  BY <1>1, <1>4, <1>6, CoveredNext

\* A step that follows an entry leaves nothing unlisted that its pair leads to.
LEMMA EntryListed ==
  ASSUME RulesTyped, NEW entry \in call.worklist, entry[1] \in Pairs,
         ~call.follows => FastPath,
         call'.worklist = (call.worklist \ {entry})
                            \cup Enqueued(entry[1], call.processed \cup {entry[1]})
  PROVE  CrossSuccessors(entry[1]) \subseteq call.processed \cup {entry[1]} \cup Listed'
<1>1. CASE call.follows
  <2>1. \A q \in CrossSuccessors(entry[1]) \ (call.processed \cup {entry[1]}) :
          q \in {e[1] : e \in Enqueued(entry[1], call.processed \cup {entry[1]})}
    BY <1>1, EnqueuedMeans
  <2>. QED
    BY <2>1, TakenListed
<1>2. CASE ~call.follows
  BY <1>2, FastEntry, NothingLeaves
<1>. QED
  BY <1>1, <1>2

\* After the one step of the fast path.
LEMMA FastStep ==
  ASSUME RulesTyped, NEW entry \in call.worklist, ~call.follows, FastPath, Kept,
         call'.worklist = (call.worklist \ {entry})
                            \cup Enqueued(entry[1], call.processed \cup {entry[1]}),
         call'.processed = call.processed \cup {entry[1]},
         call'.scanned \cup call'.stack \subseteq {entry[1]},
         call'.report.steps = call.report.steps + 1,
         call'.report.keysScanned = call.report.keysScanned
  PROVE  FastPath'
<1>1. /\ entry[1] \in Pairs
      /\ call.roots = {entry[1]} /\ NothingCrosses(entry[1])
      /\ call.worklist = {entry}
      /\ call.processed = {} /\ call.report.steps = 0 /\ call.report.keysScanned = 0
  BY FastEntry
<1>2. Enqueued(entry[1], call.processed \cup {entry[1]}) = {}
  BY DEF Enqueued
<1>3. call'.worklist = {} /\ call'.report.steps = 1 /\ call'.report.keysScanned = 0
  BY <1>1, <1>2
<1>4. \A q \in call'.processed \cup call'.scanned \cup call'.stack : q[2] = entry[1][2]
  BY <1>1
<1>5. call'.roots = {entry[1]} /\ NothingCrosses(entry[1])'
  BY <1>1, KeptRules DEF Kept
<1>6. entry[1] \in Pairs'
  BY <1>1 DEF Pairs
<1>. QED
  BY <1>3, <1>4, <1>5, <1>6 DEF FastPath

\* An eager turn pushes its pair and lists what it crosses to, so both are
\* covered before the entry is gone (tracker.rs, mark_closure).
LEMMA EagerStepCovered ==
  ASSUME CallTyped, RulesTyped, invalidated \in SUBSET Pairs, Covered,
         NEW entry, EagerStep(entry)
  PROVE  Covered'
<1>. DEFINE p == entry[1]
<1>1. /\ Kept /\ entry \in call.worklist /\ Eager /\ call.stack = {}
      /\ p \in Pairs /\ p \notin call.scanned
      /\ call'.worklist = (call.worklist \ {entry}) \cup Enqueued(p, call.processed \cup {p})
      /\ call'.processed = call.processed \cup {p} /\ call'.scanned = call.scanned \cup {p}
      /\ call'.stack = {p} /\ invalidated' = invalidated \cup {p}
      /\ call'.roots = call.roots
      /\ call'.report.steps = call.report.steps + 1
      /\ call'.report.keysScanned = call.report.keysScanned
  BY EagerStepMeans DEF Kept
<1>2. Listed \subseteq Listed' \cup {p}
  BY <1>1, TakenListed
<1>3. (~call.follows => FastPath) /\ EagerCovered
  BY <1>1, CoveredMeans DEF CallTyped
<1>4. CrossSuccessors(p) \subseteq call.processed \cup {p} \cup Listed'
  BY <1>1, <1>3, EntryListed
<1>5. /\ \A q : Dependents(q)' = Dependents(q)
      /\ \A q : CrossSuccessors(q)' = CrossSuccessors(q)
  BY <1>1, KeptRules DEF Kept
<1>6. ~call.follows => FastPath'
  <2>1. ASSUME ~call.follows PROVE FastPath'
    <3>1. call.scanned = {}
      BY <1>1, <1>3, <2>1, FastEntry
    <3>. QED
      BY <1>1, <1>3, <2>1, <3>1, FastStep
  <2>. QED
    BY <2>1
<1>. HIDE DEF p
<1>7. EagerCovered'
  BY <1>1, <1>2, <1>3, <1>4, <1>5 DEF EagerCovered
<1>. QED
  BY <1>1, <1>6, <1>7, CoveredNext

\* So does a turn under another policy, for the channels it crosses to
\* (tracker.rs, mark_closure).
LEMMA PolicyStepCovered ==
  ASSUME CallTyped, RulesTyped, invalidated \in SUBSET Pairs, Covered,
         NEW entry, PolicyStep(entry)
  PROVE  Covered'
<1>. DEFINE p == entry[1]
            walks == call.follows /\ ~MarksOnlyRoot(call.policy) /\ p \notin call.scanned
            grown == Length(invalidated', p[2]) - Length(invalidated, p[2])
            base == [call.report EXCEPT !.steps = @ + 1]
<1>1. /\ Kept /\ entry \in call.worklist /\ ~Eager /\ call.stack = {}
      /\ p \in Pairs
      /\ call'.worklist = (call.worklist \ {entry}) \cup Enqueued(p, call.processed \cup {p})
      /\ call'.processed = call.processed \cup {p}
      /\ call'.scanned = IF walks THEN call.scanned \cup {p} ELSE call.scanned
      /\ call'.stack = IF walks THEN {p} ELSE {}
      /\ invalidated \subseteq invalidated' /\ p \in invalidated'
      /\ invalidated' \in SUBSET Pairs
      /\ call'.report = Add(base, p[2], grown)
      /\ call'.roots = call.roots
  BY PolicyStepMeans DEF Kept
<1>2. Listed \subseteq Listed' \cup {p}
  BY <1>1, TakenListed
<1>3. (~call.follows => FastPath) /\ OtherCovered
  BY <1>1, CoveredMeans DEF CallTyped
<1>4. CrossSuccessors(p) \subseteq call.processed \cup {p} \cup Listed'
  BY <1>1, <1>3, EntryListed
<1>5. \A q : CrossSuccessors(q)' = CrossSuccessors(q)
  BY <1>1, KeptRules DEF Kept
<1>6. /\ call'.report.steps = call.report.steps + 1
      /\ call'.report.keysScanned = call.report.keysScanned
  <2>1. p[2] \in Channels
    BY <1>1 DEF Pairs
  <2>2. grown \in Int
    <3>1. Cardinality(Keys) \in Nat
      BY MarkAssumption, FS_CardinalityType
    <3>2. /\ Length(invalidated, p[2]) \in 0..Cardinality(Keys)
          /\ Length(invalidated', p[2]) \in 0..Cardinality(Keys)
      BY <1>1, <2>1, LengthType
    <3>. QED
      BY <3>1, <3>2
  <2>3. /\ base \in Reports /\ base.steps = call.report.steps + 1
        /\ base.keysScanned = call.report.keysScanned
    BY DEF CallTyped, Reports
  <2>. HIDE DEF base, grown, p
  <2>. QED
    BY <1>1, <2>1, <2>2, <2>3, AddMeans
<1>7. ~call.follows => FastPath'
  <2>1. ASSUME ~call.follows PROVE FastPath'
    <3>1. call.scanned = {}
      BY <1>1, <1>3, <2>1, FastEntry
    <3>. QED
      BY <1>1, <1>3, <1>6, <2>1, <3>1, FastStep
  <2>. QED
    BY <2>1
<1>. HIDE DEF p, walks, base, grown
<1>8. OtherCovered'
  BY <1>1, <1>2, <1>3, <1>4, <1>5 DEF OtherCovered
<1>. QED
  BY <1>1, <1>7, <1>8, CoveredNext

\* What leaves the stack is scanned, and its dependents are on the stack or
\* scanned (tracker.rs, mark_closure).
LEMMA WalkCovered ==
  ASSUME CallTyped, RulesTyped, invalidated \in SUBSET Pairs, Covered, NEW p \in Pairs, Walk(p)
  PROVE  Covered'
<1>. DEFINE new == Dependents(p) \ call.scanned
            hit == IF Eager THEN new ELSE new \cap invalidated
            listed == UNION {Enqueued(q, call.processed) : q \in hit}
            count == IF call.follows THEN Cardinality(new) ELSE 0
            walked == [call.report EXCEPT !.keysScanned = @ + count]
            left == (call.stack \ {p}) \cup new
            grown == Length(invalidated', p[2]) - call.lengthBefore
<1>1. /\ Kept /\ p \in call.stack
      /\ new \in SUBSET Pairs /\ \A q \in new : q[2] = p[2]
      /\ invalidated' = invalidated \cup hit
      /\ call'.worklist = call.worklist \cup listed
      /\ call'.processed = call.processed /\ call'.scanned = call.scanned \cup new
      /\ call'.stack = left
      /\ call'.roots = call.roots
  BY WalkMeans DEF Kept
<1>2. /\ walked \in Reports /\ grown \in Int
      /\ walked.keysScanned = call.report.keysScanned + count
      /\ walked.steps = call.report.steps
      /\ call'.report = IF left = {} /\ Eager THEN Add(walked, p[2], grown) ELSE walked
  BY WalkMeans
<1>3. p[2] \in Channels
  BY DEF Pairs
<1>4. /\ call'.report.steps = call.report.steps
      /\ call'.report.keysScanned = call.report.keysScanned + count
  <2>. HIDE DEF walked, grown, left, count
  <2>. QED
    BY <1>2, <1>3, AddMeans
<1>5. /\ ~call.follows => FastPath
      /\ Eager => EagerCovered
      /\ ~Eager => OtherCovered
  BY CoveredMeans DEF CallTyped
<1>6. /\ \A q : Dependents(q)' = Dependents(q)
      /\ \A q : CrossSuccessors(q)' = CrossSuccessors(q)
  BY <1>1, KeptRules DEF Kept
<1>7. hit \subseteq new /\ (Eager => hit = new)
  OBVIOUS
<1>8. new = Dependents(p) \ call.scanned
  OBVIOUS
<1>9. Listed \subseteq Listed'
  BY <1>1 DEF Listed
<1>10. \A q \in hit : CrossSuccessors(q) \subseteq call.processed \cup Listed'
  <2>. SUFFICES ASSUME NEW q \in hit
                PROVE  CrossSuccessors(q) \subseteq call.processed \cup Listed'
    OBVIOUS
  <2>1. q \in Pairs /\ q[2] = p[2]
    BY <1>1, <1>7
  <2>2. CASE call.follows
    <3>1. \A r \in CrossSuccessors(q) \ call.processed :
            r \in {e[1] : e \in Enqueued(q, call.processed)}
      BY <2>1, <2>2, EnqueuedMeans
    <3>2. {e[1] : e \in Enqueued(q, call.processed)} \subseteq Listed'
      BY <1>1 DEF Listed
    <3>. QED
      BY <3>1, <3>2
  <2>3. CASE ~call.follows
    BY <1>1, <1>5, <2>1, <2>3, FastLeavesNothing
  <2>. QED
    BY <2>2, <2>3
<1>11. ~call.follows => FastPath'
  <2>. SUFFICES ASSUME ~call.follows PROVE FastPath'
    OBVIOUS
  <2>1. PICK r \in Pairs :
          /\ call.roots = {r} /\ NothingCrosses(r)
          /\ \A q \in call.processed \cup call.scanned \cup call.stack : q[2] = r[2]
          /\ call.worklist = {} /\ call.report.steps = 1
          /\ call.report.keysScanned = 0
    BY <1>1, <1>5 DEF FastPath
  <2>2. listed = {}
    BY DEF Enqueued
  <2>3. call'.worklist = {} /\ call'.report.steps = 1 /\ call'.report.keysScanned = 0
    BY <1>1, <1>4, <2>1, <2>2
  <2>4. \A q \in call'.processed \cup call'.scanned \cup call'.stack : q[2] = r[2]
    BY <1>1, <2>1
  <2>5. call'.roots = {r} /\ NothingCrosses(r)' /\ r \in Pairs'
    BY <1>1, <2>1, KeptRules DEF Kept, Pairs
  <2>. QED
    BY <2>3, <2>4, <2>5 DEF FastPath
<1>. HIDE DEF new, hit, listed, walked, grown, count
<1>12. ASSUME Eager PROVE EagerCovered'
  <2>1. EagerCovered /\ hit = new
    BY <1>5, <1>7, <1>12
  <2>2. /\ call'.processed \cup call'.stack \subseteq call'.scanned
        /\ call'.scanned \subseteq invalidated'
        /\ call'.roots \subseteq call'.scanned \cup Listed'
    BY <1>1, <1>9, <2>1 DEF EagerCovered
  <2>3. \A q \in call'.scanned \ call'.stack : Dependents(q)' \subseteq call'.scanned
    BY <1>1, <1>6, <1>8, <2>1 DEF EagerCovered
  <2>4. \A q \in call'.scanned : CrossSuccessors(q)' \subseteq call'.scanned \cup Listed'
    BY <1>1, <1>6, <1>9, <1>10, <2>1 DEF EagerCovered
  <2>. QED
    BY <2>2, <2>3, <2>4 DEF EagerCovered
<1>13. ASSUME ~Eager PROVE OtherCovered'
  BY <1>1, <1>5, <1>6, <1>9, <1>13 DEF OtherCovered
<1>. QED
  BY <1>1, <1>11, <1>12, <1>13, CoveredNext

\* A call that has scanned nothing has nothing to cover but its roots, which
\* are listed, and takes the fast path only where nothing crosses
\* (tracker.rs, mark_with).
LEMMA BeginCovered ==
  ASSUME invalidated \in SUBSET Pairs,
         NEW roots \in SUBSET Pairs, NEW policy \in Policies, NEW traced \in BOOLEAN,
         BeginMark(roots, policy, traced)
  PROVE  Covered'
<1>1. /\ call'.active /\ call'.roots = roots
      /\ call'.worklist = {<<q, Root>> : q \in roots}
      /\ call'.processed = {} /\ call'.scanned = {} /\ call'.stack = {}
      /\ call'.report = NoReport
      /\ ~call'.follows => \E p \in Pairs : roots = {p} /\ NothingCrosses(p)
      /\ UNCHANGED <<rules, invalidated>>
  BY BeginMarkMeans
<1>2. Listed' = roots
  <2>1. \A q \in roots : <<q, Root>>[1] = q
    OBVIOUS
  <2>2. {entry[1] : entry \in {<<q, Root>> : q \in roots}} = roots
    BY <2>1
  <2>. QED
    BY <1>1, <2>2 DEF Listed
<1>3. ~call'.follows => FastPath'
  <2>. SUFFICES ASSUME ~call'.follows PROVE FastPath'
    OBVIOUS
  <2>1. PICK p \in Pairs : roots = {p} /\ NothingCrosses(p)
    BY <1>1
  <2>2. call'.worklist = {<<p, Root>>} /\ call'.roots = {p}
    BY <1>1, <2>1
  <2>3. NothingCrosses(p)' /\ p \in Pairs'
    BY <1>1, <2>1, KeptRules DEF Pairs
  <2>4. call'.report.steps = 0 /\ call'.report.keysScanned = 0
    BY <1>1 DEF NoReport
  <2>. QED
    BY <1>1, <2>2, <2>3, <2>4 DEF FastPath
<1>4. EagerCovered' /\ OtherCovered'
  BY <1>1, <1>2 DEF EagerCovered, OtherCovered
<1>5. (call.active => (Covered <=> /\ ~call.follows => FastPath
                                   /\ Eager => EagerCovered
                                   /\ ~Eager => OtherCovered))'
  BY CoveredMeans, PTL
<1>. QED
  BY <1>1, <1>3, <1>4, <1>5

-----------------------------------------------------------------------------
(***************************************************************************)
(* Counted: the report agrees with the marks.                              *)
(***************************************************************************)

\* Only the two fields about marks matter for what is new.
LEMMA TellsSame ==
  ASSUME NEW R \in Reports, NEW Q \in Reports,
         R.newly = Q.newly, R.channels = Q.channels,
         NEW c \in Channels, NEW n \in Int, NEW now
  PROVE  /\ TellsNew(R, now) <=> TellsNew(Q, now)
         /\ TellsNew(Add(R, c, n), now) <=> TellsNew(Add(Q, c, n), now)
<1>1. TellsNew(R, now) <=> TellsNew(Q, now)
  BY DEF TellsNew
<1>2. /\ Add(R, c, n).newly = Add(Q, c, n).newly
      /\ Add(R, c, n).channels = Add(Q, c, n).channels
  <2>1. CASE n > 0
    <3>1. Add(R, c, n).newly = R.newly + n /\ Add(R, c, n).channels = R.channels \cup {c}
      BY <2>1, AddMeans
    <3>2. Add(Q, c, n).newly = Q.newly + n /\ Add(Q, c, n).channels = Q.channels \cup {c}
      BY <2>1, AddMeans
    <3>. QED
      BY ONLY <3>1, <3>2, R.newly = Q.newly, R.channels = Q.channels
  <2>2. CASE ~(n > 0)
    BY <2>2 DEF Add
  <2>. QED
    BY <2>1, <2>2
<1>3. TellsNew(Add(R, c, n), now) <=> TellsNew(Add(Q, c, n), now)
  BY <1>2 DEF TellsNew
<1>. QED
  BY <1>1, <1>3

\* A report that adds the growth of one channel keeps telling what is new while
\* that channel alone grows (tracker.rs, MarkReport::record).
LEMMA NewGrows ==
  ASSUME NEW R \in Reports, NEW c \in Channels, NEW L \in Nat,
         NEW now \in SUBSET Pairs, NEW later \in SUBSET Pairs,
         call.before \subseteq now, now \subseteq later,
         \A p \in later \ now : p[2] = c,
         L <= Length(now, c),
         TellsNew(Add(R, c, Length(now, c) - L), now)
  PROVE  /\ TellsNew(Add(R, c, Length(later, c) - L), later)
         /\ Length(now, c) <= Length(later, c)
<1>. DEFINE new == now \ call.before
            more == later \ now
            N == Cardinality(more)
            g == Length(now, c) - L
            h == Length(later, c) - L
<1>1. later \ call.before = new \cup more /\ new \cap more = {}
  OBVIOUS
<1>2. new \in SUBSET Pairs /\ more \in SUBSET Pairs
  OBVIOUS
<1>3. /\ Length(now, c) \in Nat /\ Length(later, c) \in Nat /\ N \in Nat
      /\ Length(later, c) = Length(now, c) + N
  BY LengthGrows
<1>4. N = 0 => more = {}
  BY <1>2, PairsFinite, FS_EmptySet
<1>5. \A p \in more : p[2] = c
  OBVIOUS
<1>6. /\ Add(R, c, g).newly = Cardinality(new)
      /\ Add(R, c, g).channels = {p[2] : p \in new}
  BY DEF TellsNew
<1>7. g \in Nat /\ h \in Nat /\ h = g + N
  BY <1>3
<1>. HIDE DEF new, more, N, g, h
<1>8. /\ Cardinality(new) \in Nat /\ Cardinality(more) = N
      /\ Cardinality(new \cup more) = Cardinality(new) + N
  BY <1>1, <1>2, DisjointUnion DEF N
<1>9. R.newly \in Nat
  BY DEF Reports
<1>10. /\ Add(R, c, h).newly = Cardinality(new \cup more)
       /\ Add(R, c, h).channels = {p[2] : p \in new \cup more}
  <2>1. CASE N = 0
    <3>1. h = g /\ new \cup more = new
      BY <1>4, <1>7, <2>1
    <3>. QED
      BY <1>6, <3>1
  <2>2. CASE N > 0
    <3>1. more # {}
      <4>1. IsFiniteSet(more)
        BY <1>2, PairsFinite
      <4>. QED
        BY <1>8, <2>2, <4>1, FS_EmptySet
    <3>2. {p[2] : p \in new \cup more} = {p[2] : p \in new} \cup {c}
      BY <1>5, <3>1
    <3>3. h > 0
      BY <1>3, <1>7, <2>2
    <3>4. /\ Add(R, c, h).newly = R.newly + h
          /\ Add(R, c, h).channels = R.channels \cup {c}
      BY <1>7, <3>3, AddMeans
    <3>5. CASE g > 0
      <4>1. /\ Cardinality(new) = R.newly + g
            /\ {p[2] : p \in new} = R.channels \cup {c}
        <5>1. Add(R, c, g).newly = R.newly + g /\ Add(R, c, g).channels = R.channels \cup {c}
          BY <1>7, <3>5, AddMeans
        <5>. QED
          BY <1>6, <5>1
      <4>2. R.newly + h = Cardinality(new \cup more)
        BY <1>3, <1>7, <1>8, <1>9, <4>1
      <4>. QED
        BY <3>2, <3>4, <4>1, <4>2
    <3>6. CASE g = 0
      <4>1. R.newly = Cardinality(new) /\ R.channels = {p[2] : p \in new}
        BY <1>6, <1>7, <3>6, AddMeans
      <4>2. R.newly + h = Cardinality(new \cup more)
        BY <1>3, <1>7, <1>8, <3>6, <4>1
      <4>. QED
        BY <3>2, <3>4, <4>1, <4>2
    <3>. QED
      BY <1>7, <3>5, <3>6
  <2>. QED
    BY <1>3, <2>1, <2>2
<1>11. TellsNew(Add(R, c, h), later)
  BY <1>1, <1>10 DEF TellsNew
<1>12. Length(now, c) <= Length(later, c)
  BY <1>3
<1>. QED
  BY <1>11, <1>12 DEF h

\* From a report that is complete: the first growth of a channel.
LEMMA NewAdded ==
  ASSUME NEW R \in Reports, NEW c \in Channels,
         NEW now \in SUBSET Pairs, NEW later \in SUBSET Pairs,
         call.before \subseteq now, now \subseteq later,
         \A p \in later \ now : p[2] = c,
         TellsNew(R, now)
  PROVE  /\ TellsNew(Add(R, c, Length(later, c) - Length(now, c)), later)
         /\ Length(now, c) <= Length(later, c)
<1>. DEFINE L == Length(now, c)
<1>1. L \in Nat
  BY LengthGrows
<1>2. L - L = 0 /\ L <= L
  BY <1>1
<1>3. Add(R, c, L - L) = R
  BY <1>2 DEF Add
<1>4. TellsNew(Add(R, c, Length(now, c) - L), now)
  BY <1>3
<1>. QED
  BY <1>1, <1>2, <1>4, NewGrows

\* What is told is told against the marks before the call, which a step keeps.
LEMMA CountedNext ==
  ASSUME Kept,
         call'.stack = {} => TellsNew(call'.report, invalidated'),
         call'.stack # {} =>
           \E c \in Channels :
             /\ \A p \in call'.stack : p[2] = c
             /\ Eager => /\ call'.lengthBefore <= Length(invalidated', c)
                         /\ TellsNew(Add(call'.report, c,
                                         Length(invalidated', c) - call'.lengthBefore), invalidated')
             /\ ~Eager => TellsNew(call'.report, invalidated'),
         call.follows /\ Eager =>
           call'.report.steps + call'.report.keysScanned = Cardinality(call'.scanned),
         MarksOnlyRoot(call.policy) => call'.report.keysScanned = 0,
         ~Eager => call'.report.steps = Cardinality(call'.processed)
  PROVE  Counted'
<1>1. /\ Eager' = Eager /\ call'.follows = call.follows /\ call'.policy = call.policy
      /\ call'.before = call.before
  BY KeptLimit DEF Kept
<1>2. \A report : TellsNew(report, invalidated') =>
         /\ report.newly = Cardinality(invalidated' \ call'.before)
         /\ report.channels = {p[2] : p \in invalidated' \ call'.before}
  BY <1>1 DEF TellsNew
<1>3. call'.stack = {} => TellsNew(call.report, invalidated)'
  BY <1>2 DEF TellsNew
<1>4. ASSUME call'.stack # {}
      PROVE  \E c \in Channels :
               /\ \A p \in call'.stack : p[2] = c
               /\ Eager' => call'.lengthBefore <= Length(invalidated', c)
               /\ TellsNew(Completed(c), invalidated)'
  <2>1. PICK c \in Channels :
             /\ \A p \in call'.stack : p[2] = c
             /\ Eager => /\ call'.lengthBefore <= Length(invalidated', c)
                         /\ TellsNew(Add(call'.report, c,
                                         Length(invalidated', c) - call'.lengthBefore), invalidated')
             /\ ~Eager => TellsNew(call'.report, invalidated')
    BY <1>4
  <2>2. Completed(c)' = IF Eager
                        THEN Add(call'.report, c, Length(invalidated', c) - call'.lengthBefore)
                        ELSE call'.report
    BY <1>1 DEF Completed
  <2>3. TellsNew(Completed(c), invalidated)'
    <3>1. CASE Eager
      BY <1>2, <2>1, <2>2, <3>1 DEF TellsNew
    <3>2. CASE ~Eager
      BY <1>2, <2>1, <2>2, <3>2 DEF TellsNew
    <3>. QED
      BY <3>1, <3>2
  <2>. QED
    BY <1>1, <2>1, <2>3
<1>. QED
  BY <1>1, <1>3, <1>4 DEF Counted

\* A turn that does nothing counts nothing (tracker.rs, MarkReport).
LEMMA SkipCounted ==
  ASSUME CallTyped, Counted, NEW entry, SkipProcessed(entry) \/ SkipScanned(entry)
  PROVE  Counted'
<1>1. /\ Kept /\ call.stack = {}
      /\ call'.scanned = call.scanned /\ call'.stack = call.stack
      /\ call'.report = call.report /\ invalidated' = invalidated
      /\ Eager \/ call'.processed = call.processed
  BY SkipProcessedMeans, SkipScannedMeans
<1>. QED
  BY <1>1, CountedNext DEF Counted

\* An eager turn counts its pair once, and as new only if it was not marked
\* (tracker.rs, MarkReport).
LEMMA EagerStepCounted ==
  ASSUME CallTyped, RulesTyped, invalidated \in SUBSET Pairs, Bounded, Counted,
         NEW entry, EagerStep(entry)
  PROVE  Counted'
<1>. DEFINE p == entry[1]
            c == p[2]
<1>1. /\ Kept /\ call.stack = {} /\ Eager
      /\ p \in Pairs /\ p \notin call.scanned
      /\ call'.scanned = call.scanned \cup {p} /\ call'.stack = {p}
      /\ call'.lengthBefore = Length(invalidated, c)
      /\ invalidated' = invalidated \cup {p}
  BY EagerStepMeans
<1>2. /\ call'.report \in Reports
      /\ call'.report.newly = call.report.newly
      /\ call'.report.channels = call.report.channels
      /\ call'.report.steps = call.report.steps + 1
      /\ call'.report.keysScanned = call.report.keysScanned
  BY EagerStepMeans
<1>3. c \in Channels /\ call.before \subseteq invalidated /\ call.report \in Reports
  BY <1>1 DEF Pairs, Bounded, CallTyped
<1>4. TellsNew(call.report, invalidated)
  BY <1>1 DEF Counted
<1>5. TellsNew(call'.report, invalidated)
  BY <1>2, <1>4 DEF TellsNew
<1>6. invalidated' \in SUBSET Pairs /\ \A q \in invalidated' \ invalidated : q[2] = c
  BY <1>1
<1>7. \A q \in call'.stack : q[2] = c
  BY <1>1
<1>8. call.follows => call'.report.steps + call'.report.keysScanned = Cardinality(call'.scanned)
  <2>1. Cardinality(call'.scanned) = Cardinality(call.scanned) + 1
    BY <1>1, PairsFinite, FS_AddElement DEF CallTyped
  <2>2. call.report.steps \in Nat /\ call.report.keysScanned \in Nat
    BY <1>3 DEF Reports
  <2>3. call.follows => call.report.steps + call.report.keysScanned = Cardinality(call.scanned)
    BY <1>1 DEF Counted
  <2>. QED
    BY <1>2, <2>1, <2>2, <2>3
<1>9. ~MarksOnlyRoot(call.policy)
  BY <1>1, PolicyNamed DEF CallTyped
<1>. HIDE DEF c, p
<1>10. /\ TellsNew(Add(call'.report, c, Length(invalidated', c) - Length(invalidated, c)),
                   invalidated')
       /\ Length(invalidated, c) <= Length(invalidated', c)
  BY <1>1, <1>2, <1>3, <1>5, <1>6, NewAdded
<1>. QED
  BY <1>1, <1>3, <1>7, <1>8, <1>9, <1>10, CountedNext

\* A turn under another policy counts what the policy has marked by the
\* difference of two lengths (tracker.rs, MarkReport).
LEMMA PolicyStepCounted ==
  ASSUME CallTyped, RulesTyped, invalidated \in SUBSET Pairs, Bounded, Counted,
         NEW entry, PolicyStep(entry)
  PROVE  Counted'
<1>. DEFINE p == entry[1]
            c == p[2]
            walks == call.follows /\ ~MarksOnlyRoot(call.policy) /\ p \notin call.scanned
            grown == Length(invalidated', c) - Length(invalidated, c)
            base == [call.report EXCEPT !.steps = @ + 1]
<1>1. /\ Kept /\ call.stack = {} /\ ~Eager
      /\ p \in Pairs /\ p \notin call.processed
      /\ call'.processed = call.processed \cup {p}
      /\ call'.stack = IF walks THEN {p} ELSE {}
      /\ invalidated \subseteq invalidated' /\ invalidated' \in SUBSET Pairs
      /\ \A q \in invalidated' \ invalidated : q[2] = c
      /\ call'.report = Add(base, c, grown)
  BY PolicyStepMeans
<1>2. /\ base \in Reports /\ base.steps = call.report.steps + 1
      /\ base.newly = call.report.newly /\ base.channels = call.report.channels
      /\ base.keysScanned = call.report.keysScanned
      /\ call.report.steps \in Nat
  BY DEF CallTyped, Reports
<1>3. c \in Channels /\ call.before \subseteq invalidated
  BY <1>1 DEF Pairs, Bounded
<1>4. grown \in Int
  <2>1. Cardinality(Keys) \in Nat
    BY MarkAssumption, FS_CardinalityType
  <2>2. /\ Length(invalidated, c) \in 0..Cardinality(Keys)
        /\ Length(invalidated', c) \in 0..Cardinality(Keys)
    BY <1>1, <1>3, LengthType
  <2>. QED
    BY <2>1, <2>2
<1>5. TellsNew(base, invalidated)
  <2>1. TellsNew(call.report, invalidated)
    BY <1>1 DEF Counted
  <2>. HIDE DEF base
  <2>. QED
    BY <1>2, <2>1 DEF TellsNew
<1>6. \A q \in call'.stack : q[2] = c
  BY <1>1
<1>. HIDE DEF base
<1>7. TellsNew(call'.report, invalidated')
  BY <1>1, <1>2, <1>3, <1>5, NewAdded
<1>. HIDE DEF grown, c
<1>8. call'.report.steps = base.steps /\ call'.report.keysScanned = base.keysScanned
  BY <1>1, <1>2, <1>3, <1>4, AddMeans
<1>9. call'.report.steps = Cardinality(call'.processed)
  <2>1. Cardinality(call'.processed) = Cardinality(call.processed) + 1
    <3>. HIDE DEF p
    <3>. QED
      BY <1>1, PairsFinite, FS_AddElement DEF CallTyped
  <2>2. call.report.steps = Cardinality(call.processed)
    BY <1>1 DEF Counted
  <2>. QED
    BY <1>2, <1>8, <2>1, <2>2
<1>10. MarksOnlyRoot(call.policy) => call'.report.keysScanned = 0
  BY <1>2, <1>8 DEF Counted
<1>. HIDE DEF p, walks
<1>. QED
  BY <1>1, <1>3, <1>6, <1>7, <1>9, <1>10, CountedNext

\* A turn of the walk counts each dependent it meets for the first time, and
\* as new those it marks (tracker.rs, MarkReport).
LEMMA WalkCounted ==
  ASSUME CallTyped, RulesTyped, invalidated \in SUBSET Pairs, Bounded, Counted,
         NEW p \in Pairs, Walk(p)
  PROVE  Counted'
<1>. DEFINE new == Dependents(p) \ call.scanned
            hit == IF Eager THEN new ELSE new \cap invalidated
            count == IF call.follows THEN Cardinality(new) ELSE 0
            walked == [call.report EXCEPT !.keysScanned = @ + count]
            left == (call.stack \ {p}) \cup new
            c == p[2]
            grown == Length(invalidated', c) - call.lengthBefore
<1>1. /\ Kept /\ p \in call.stack
      /\ new \in SUBSET Pairs /\ \A q \in new : q[2] = c
      /\ invalidated' = invalidated \cup hit /\ invalidated' \in SUBSET Pairs
      /\ call'.processed = call.processed /\ call'.scanned = call.scanned \cup new
      /\ call'.stack = left
      /\ call'.lengthBefore = call.lengthBefore
  BY WalkMeans
<1>2. /\ walked \in Reports /\ grown \in Int
      /\ walked.keysScanned = call.report.keysScanned + count
      /\ walked.steps = call.report.steps
      /\ walked.newly = call.report.newly /\ walked.channels = call.report.channels
      /\ call'.report = IF left = {} /\ Eager THEN Add(walked, c, grown) ELSE walked
  BY WalkMeans
<1>3. c \in Channels /\ call.before \subseteq invalidated /\ call.report \in Reports
  BY DEF Pairs, Bounded, CallTyped
<1>4. /\ \A q \in call.stack : q[2] = c
      /\ Eager => /\ call.lengthBefore <= Length(invalidated, c)
                  /\ TellsNew(Add(call.report, c, Length(invalidated, c) - call.lengthBefore),
                              invalidated)
      /\ ~Eager => TellsNew(call.report, invalidated)
  <2>1. PICK d \in Channels :
          /\ \A q \in call.stack : q[2] = d
          /\ Eager => call.lengthBefore <= Length(invalidated, d)
          /\ TellsNew(Completed(d), invalidated)
    BY <1>1 DEF Counted
  <2>2. d = c
    BY <1>1, <2>1
  <2>. QED
    BY <2>1, <2>2 DEF Completed
<1>5. call.lengthBefore \in Nat /\ Length(invalidated, c) \in Nat
  <2>1. Cardinality(Keys) \in Nat
    BY MarkAssumption, FS_CardinalityType
  <2>. QED
    BY <1>3, <2>1, LengthType DEF CallTyped
<1>6. \A q \in left : q[2] = c
  BY <1>1, <1>4
<1>7. hit \subseteq new /\ (Eager => hit = new) /\ (~Eager => invalidated' = invalidated)
  BY <1>1
<1>8. new \cap call.scanned = {}
  OBVIOUS
<1>9. \A q \in invalidated' \ invalidated : q[2] = c
  BY <1>1, <1>7
<1>. HIDE DEF new, hit, walked, left, count
<1>10. /\ call'.report.steps = call.report.steps
       /\ call'.report.keysScanned = call.report.keysScanned + count
  <2>. HIDE DEF grown, c
  <2>. QED
    BY <1>2, <1>3, AddMeans
<1>. HIDE DEF c
<1>11. ASSUME Eager
       PROVE  /\ TellsNew(Add(walked, c, grown), invalidated')
              /\ call'.lengthBefore <= Length(invalidated', c)
  <2>1. Length(invalidated, c) - call.lengthBefore \in Int
    BY <1>5
  <2>2. TellsNew(Add(walked, c, Length(invalidated, c) - call.lengthBefore), invalidated)
    BY <1>2, <1>3, <1>4, <1>11, <2>1, TellsSame
  <2>3. invalidated \subseteq invalidated'
    BY <1>1
  <2>4. /\ TellsNew(Add(walked, c, Length(invalidated', c) - call.lengthBefore), invalidated')
        /\ Length(invalidated, c) <= Length(invalidated', c)
    BY <1>1, <1>2, <1>3, <1>4, <1>5, <1>9, <1>11, <2>2, <2>3, NewGrows
  <2>5. Length(invalidated', c) \in Nat
    <3>1. Cardinality(Keys) \in Nat
      BY MarkAssumption, FS_CardinalityType
    <3>. QED
      BY <1>1, <1>3, <3>1, LengthType
  <2>6. call.lengthBefore <= Length(invalidated', c)
    BY <1>4, <1>5, <1>11, <2>4, <2>5
  <2>. QED
    BY <1>1, <2>4, <2>6
<1>12. ASSUME ~Eager PROVE TellsNew(walked, invalidated')
  <2>1. TellsNew(call.report, invalidated)
    BY <1>4, <1>12
  <2>. QED
    BY <1>2, <1>7, <1>12, <2>1 DEF TellsNew
<1>13. ASSUME call'.stack = {} PROVE TellsNew(call'.report, invalidated')
  BY <1>1, <1>2, <1>11, <1>12, <1>13
<1>14. ASSUME call'.stack # {}
       PROVE  /\ \A q \in call'.stack : q[2] = c
              /\ Eager => /\ call'.lengthBefore <= Length(invalidated', c)
                          /\ TellsNew(Add(call'.report, c,
                                          Length(invalidated', c) - call'.lengthBefore),
                                      invalidated')
              /\ ~Eager => TellsNew(call'.report, invalidated')
  <2>1. call'.report = walked
    BY <1>1, <1>2, <1>14
  <2>2. grown = Length(invalidated', c) - call'.lengthBefore
    BY <1>1
  <2>. HIDE DEF grown
  <2>. QED
    BY <1>1, <1>6, <1>11, <1>12, <2>1, <2>2
<1>15. ASSUME call.follows, Eager
       PROVE  call'.report.steps + call'.report.keysScanned = Cardinality(call'.scanned)
  <2>1. count = Cardinality(new)
    BY <1>15 DEF count
  <2>2. /\ Cardinality(call.scanned) \in Nat /\ Cardinality(new) \in Nat
        /\ Cardinality(call.scanned \cup new) = Cardinality(call.scanned) + Cardinality(new)
    BY <1>1, <1>8, DisjointUnion DEF CallTyped
  <2>3. call.report.steps + call.report.keysScanned = Cardinality(call.scanned)
    BY <1>15 DEF Counted
  <2>4. call.report.steps \in Nat /\ call.report.keysScanned \in Nat
    BY <1>3 DEF Reports
  <2>. QED
    BY <1>1, <1>10, <2>1, <2>2, <2>3, <2>4
<1>16. ~MarksOnlyRoot(call.policy)
  BY <1>1 DEF Bounded
<1>17. ASSUME ~Eager PROVE call'.report.steps = Cardinality(call'.processed)
  BY <1>1, <1>10, <1>17 DEF Counted
<1>. QED
  BY <1>1, <1>3, <1>13, <1>14, <1>15, <1>16, <1>17, CountedNext

\* A new report agrees with a call that has done nothing (tracker.rs).
LEMMA BeginCounted ==
  ASSUME invalidated \in SUBSET Pairs,
         NEW roots \in SUBSET Pairs, NEW policy \in Policies, NEW traced \in BOOLEAN,
         BeginMark(roots, policy, traced)
  PROVE  Counted'
<1>1. /\ call'.before = invalidated /\ invalidated' = invalidated
      /\ call'.processed = {} /\ call'.scanned = {} /\ call'.stack = {}
      /\ call'.report = NoReport
  BY BeginMarkMeans
<1>2. Cardinality({}) = 0
  BY FS_EmptySet
<1>3. /\ call'.report.newly = 0 /\ call'.report.channels = {}
      /\ call'.report.steps = 0 /\ call'.report.keysScanned = 0
  BY <1>1 DEF NoReport
<1>4. TellsNew(call.report, invalidated)'
  <2>1. invalidated' \ call'.before = {}
    BY <1>1
  <2>. QED
    BY <1>2, <1>3, <2>1 DEF TellsNew
<1>. QED
  BY <1>1, <1>2, <1>3, <1>4 DEF Counted

-----------------------------------------------------------------------------
(***************************************************************************)
(* Sourced: recorded causes lead to roots.                                 *)
(***************************************************************************)
CausesTyped == DOMAIN causes \subseteq Pairs /\ \A p \in DOMAIN causes : causes[p] \in Causes

\* A cause blames a pair, unless it is a root (trace.rs, source).
LEMMA SourceMeans ==
  ASSUME NEW cause \in Causes, NEW p \in Pairs
  PROVE  /\ Source(cause, p) \in SUBSET Pairs
         /\ cause = Root \/ Source(cause, p) # {}
         /\ Source(Root, p) = {}
         /\ \A k : Source(Dependency(k), p) = {<<k, p[2]>>}
<1>0. p[1] \in Keys /\ p[2] \in Channels
  BY DEF Pairs
<1>1. Source(Root, p) = {}
  <2>1. Root.kind = "Root"
    BY DEF Root
  <2>. QED
    BY <2>1 DEF Source
<1>2. ASSUME NEW k PROVE Source(Dependency(k), p) = {<<k, p[2]>>}
  <2>1. Dependency(k).kind = "Dependency" /\ Dependency(k).key = k
    BY DEF Dependency
  <2>. QED
    BY <2>1 DEF Source
<1>3. ASSUME NEW c PROVE Source(Cascade(c), p) = {<<p[1], c>>}
  <2>1. Cascade(c).kind = "Cascade" /\ Cascade(c).channel = c
    BY DEF Cascade
  <2>. QED
    BY <2>1 DEF Source
<1>4. ASSUME NEW q PROVE Source(CrossChannel(q), p) = {<<q[1], q[2]>>}
  <2>1. /\ CrossChannel(q).kind = "CrossChannel"
        /\ CrossChannel(q).key = q[1] /\ CrossChannel(q).channel = q[2]
    BY DEF CrossChannel
  <2>. QED
    BY <2>1 DEF Source
<1>5. CASE cause = Root
  BY <1>1, <1>2, <1>5
<1>6. CASE \E k \in Keys : cause = Dependency(k)
  <2>1. PICK k \in Keys : cause = Dependency(k)
    BY <1>6
  <2>2. <<k, p[2]>> \in Pairs
    BY <1>0 DEF Pairs
  <2>. QED
    BY <1>1, <1>2, <2>1, <2>2
<1>7. CASE \E c \in Channels : cause = Cascade(c)
  <2>1. PICK c \in Channels : cause = Cascade(c)
    BY <1>7
  <2>2. <<p[1], c>> \in Pairs
    BY <1>0 DEF Pairs
  <2>. QED
    BY <1>1, <1>2, <1>3, <2>1, <2>2
<1>8. CASE \E q \in Pairs : cause = CrossChannel(q)
  <2>1. PICK q \in Pairs : cause = CrossChannel(q)
    BY <1>8
  <2>2. <<q[1], q[2]>> \in Pairs
    BY DEF Pairs
  <2>. QED
    BY <1>1, <1>2, <1>4, <2>1, <2>2
<1>. QED
  BY <1>5, <1>6, <1>7, <1>8 DEF Causes

\* The pairs a recorder blames are pairs (trace.rs).
LEMMA BlamesType ==
  ASSUME CausesTyped
  PROVE  Blames \in [Pairs -> SUBSET Pairs]
BY SourceMeans DEF Blames, CausesTyped

\* A recorder that only grows, by pairs whose source it knows, keeps explaining
\* all its pairs (trace.rs, record and explain_path).
LEMMA PathsKept ==
  ASSUME CausesTyped, CausesTyped',
         DOMAIN causes \subseteq DOMAIN causes',
         \A p \in DOMAIN causes : causes'[p] = causes[p],
         \A p \in DOMAIN causes' \ DOMAIN causes : Source(causes'[p], p) \subseteq DOMAIN causes,
         \A p \in DOMAIN causes : HasPath(p)
  PROVE  \A p \in DOMAIN causes' : HasPath(p)'
<1>1. Blames \in [Pairs -> SUBSET Pairs]
  BY BlamesType
<1>2. Blames' \in [Pairs -> SUBSET Pairs]
  <2>1. (Blames \in [Pairs -> SUBSET Pairs])'
    BY BlamesType, PTL
  <2>. QED
    BY <2>1 DEF Pairs
<1>3. \A p \in Pairs : Blames'[p] = IF p \in DOMAIN causes' THEN Source(causes'[p], p) ELSE {}
  BY DEF Blames, Pairs
<1>4. \A p \in Pairs : Blames[p] \subseteq Blames'[p]
  BY <1>3 DEF Blames
<1>5. ASSUME NEW p \in DOMAIN causes
      PROVE  \E q \in DOMAIN causes' : causes'[q] = Root /\ Reaches(Blames', p, q)
  <2>1. PICK q \in DOMAIN causes : causes[q] = Root /\ Reaches(Blames, p, q)
    BY <1>5 DEF HasPath
  <2>2. Reaches(Blames', p, q)
    BY <1>1, <1>2, <1>4, <2>1, ReachesMonotone
  <2>. QED
    BY <2>1, <2>2
<1>6. ASSUME NEW p \in DOMAIN causes' \ DOMAIN causes
      PROVE  \E q \in DOMAIN causes' : causes'[q] = Root /\ Reaches(Blames', p, q)
  <2>1. p \in Pairs /\ causes'[p] \in Causes
    BY <1>6 DEF CausesTyped, Pairs, Causes
  <2>2. CASE causes'[p] = Root
    BY <1>6, <2>2, ReachesSelf
  <2>3. CASE causes'[p] # Root
    <3>1. PICK s : s \in Source(causes'[p], p)
      BY <2>1, <2>3, SourceMeans
    <3>2. s \in DOMAIN causes /\ s \in Blames'[p]
      BY <1>3, <1>6, <2>1, <3>1
    <3>3. PICK q \in DOMAIN causes' : causes'[q] = Root /\ Reaches(Blames', s, q)
      BY <1>5, <3>2
    <3>4. Reaches(Blames', p, q)
      BY <1>2, <2>1, <3>2, <3>3, ReachesFirst
    <3>. QED
      BY <3>3, <3>4
  <2>. QED
    BY <2>2, <2>3
<1>. QED
  BY <1>5, <1>6 DEF HasPath

\* It is enough that new causes have known sources.
LEMMA SourcedNext ==
  ASSUME CausesTyped, CausesTyped', Sourced,
         DOMAIN causes \subseteq DOMAIN causes',
         \A p \in DOMAIN causes : causes'[p] = causes[p],
         \A p \in DOMAIN causes' \ DOMAIN causes : Source(causes'[p], p) \subseteq DOMAIN causes,
         call'.active /\ call'.traced =>
           /\ \A entry \in call'.worklist : Source(entry[2], entry[1]) \subseteq DOMAIN causes'
           /\ call'.stack \subseteq DOMAIN causes'
  PROVE  Sourced'
<1>1. \A p \in DOMAIN causes' : HasPath(p)'
  BY PathsKept DEF Sourced
<1>. QED
  BY <1>1 DEF Sourced

\* Recording pairs whose source is known is such a step.
LEMMA RecordedSourced ==
  ASSUME NEW S \in SUBSET Pairs, NEW cause,
         call.traced => \A p \in S : Source(cause, p) \subseteq DOMAIN causes,
         causes' = Recorded(S, cause)
  PROVE  /\ DOMAIN causes \subseteq DOMAIN causes'
         /\ \A p \in DOMAIN causes : causes'[p] = causes[p]
         /\ \A p \in DOMAIN causes' \ DOMAIN causes : Source(causes'[p], p) \subseteq DOMAIN causes
         /\ call.traced => S \subseteq DOMAIN causes'
<1>1. CASE call.traced
  <2>1. /\ DOMAIN causes' = DOMAIN causes \cup S
        /\ \A p \in DOMAIN causes : causes'[p] = causes[p]
        /\ \A p \in S \ DOMAIN causes : causes'[p] = cause
    <3>1. causes' = [p \in DOMAIN causes \cup S |-> IF p \in DOMAIN causes THEN causes[p] ELSE cause]
      BY <1>1 DEF Recorded
    <3>. QED
      BY <3>1
  <2>2. \A p \in DOMAIN causes' \ DOMAIN causes :
          p \in S /\ causes'[p] = cause /\ Source(cause, p) \subseteq DOMAIN causes
    BY <1>1, <2>1
  <2>3. \A p \in DOMAIN causes' \ DOMAIN causes : Source(causes'[p], p) \subseteq DOMAIN causes
    BY <2>2
  <2>. QED
    BY <2>1, <2>3
<1>2. CASE ~call.traced
  <2>1. causes' = causes
    BY <1>2 DEF Recorded
  <2>. QED
    BY <1>2, <2>1
<1>. QED
  BY <1>1, <1>2

\* A step on an entry of the worklist.
LEMMA StepSourced ==
  ASSUME CallTyped, RulesTyped, invalidated \in SUBSET Pairs, CausesTyped, CausesTyped',
         "Custom" \notin Policies, Bounded, Sourced,
         NEW entry \in call.worklist,
         SkipProcessed(entry) \/ SkipScanned(entry) \/ EagerStep(entry) \/ PolicyStep(entry)
  PROVE  Sourced'
<1>. DEFINE p == entry[1]
            known == call.traced =>
                       /\ \A e \in call.worklist : Source(e[2], e[1]) \subseteq DOMAIN causes
                       /\ call.stack \subseteq DOMAIN causes
<1>1. known /\ p \in Pairs /\ entry[2] \in Causes
  BY DEF Sourced, CallTyped
<1>2. ASSUME SkipProcessed(entry) PROVE Sourced'
  <2>1. /\ causes' = causes /\ call'.traced = call.traced
        /\ call'.worklist \subseteq call.worklist /\ call'.stack = call.stack
    BY <1>2, SkipProcessedMeans DEF Kept
  <2>. QED
    BY <1>1, <2>1, SourcedNext
<1>3. ASSUME ~SkipProcessed(entry)
      PROVE  /\ causes' = Recorded({p}, entry[2])
             /\ call'.traced = call.traced
             /\ call'.stack \subseteq {p}
             /\ \A e \in call'.worklist : e \in call.worklist \/ Source(e[2], e[1]) = {p}
  <2>1. CASE SkipScanned(entry)
    BY <2>1, SkipScannedMeans DEF Kept
  <2>2. CASE EagerStep(entry)
    <3>1. /\ causes' = Recorded({p}, entry[2]) /\ call'.traced = call.traced
          /\ call'.stack = {p}
          /\ call'.worklist = (call.worklist \ {entry})
                                \cup Enqueued(p, call.processed \cup {p})
      BY <2>2, EagerStepMeans DEF Kept
    <3>. HIDE DEF p
    <3>. QED
      BY <1>1, <3>1, EnqueuedMeans
  <2>3. CASE PolicyStep(entry)
    <3>. DEFINE walks == call.follows /\ ~MarksOnlyRoot(call.policy) /\ p \notin call.scanned
    <3>1. /\ causes' = Recorded({p}, entry[2]) /\ call'.traced = call.traced
          /\ call'.stack = IF walks THEN {p} ELSE {}
          /\ call'.worklist = (call.worklist \ {entry})
                                \cup Enqueued(p, call.processed \cup {p})
      BY <2>3, PolicyStepMeans DEF Kept
    <3>. HIDE DEF p, walks
    <3>. QED
      BY <1>1, <3>1, EnqueuedMeans
  <2>. QED
    BY <1>3, <2>1, <2>2, <2>3
<1>4. ASSUME ~SkipProcessed(entry) PROVE Sourced'
  <2>1. /\ {p} \in SUBSET Pairs /\ causes' = Recorded({p}, entry[2])
        /\ call.traced => \A q \in {p} : Source(entry[2], q) \subseteq DOMAIN causes
    BY <1>1, <1>3, <1>4
  <2>2. /\ DOMAIN causes \subseteq DOMAIN causes'
        /\ \A q \in DOMAIN causes : causes'[q] = causes[q]
        /\ \A q \in DOMAIN causes' \ DOMAIN causes : Source(causes'[q], q) \subseteq DOMAIN causes
        /\ call.traced => {p} \subseteq DOMAIN causes'
    <3>. HIDE DEF p, known
    <3>. QED
      BY <2>1, RecordedSourced
  <2>3. /\ call'.traced = call.traced /\ call'.stack \subseteq {p}
        /\ \A e \in call'.worklist : e \in call.worklist \/ Source(e[2], e[1]) = {p}
    BY <1>3, <1>4
  <2>4. call'.traced =>
          /\ \A e \in call'.worklist : Source(e[2], e[1]) \subseteq DOMAIN causes'
          /\ call'.stack \subseteq DOMAIN causes'
    <3>. HIDE DEF p
    <3>. QED
      BY <1>1, <2>2, <2>3
  <2>. QED
    BY <2>2, <2>4, SourcedNext
<1>. QED
  BY <1>2, <1>4

\* A turn of the walk records causes whose sources are recorded already
\* (trace.rs, record).
LEMMA WalkSourced ==
  ASSUME CallTyped, RulesTyped, invalidated \in SUBSET Pairs, CausesTyped, CausesTyped',
         "Custom" \notin Policies, Bounded, Sourced, NEW p \in Pairs, Walk(p)
  PROVE  Sourced'
<1>. DEFINE new == Dependents(p) \ call.scanned
            hit == IF Eager THEN new ELSE new \cap invalidated
            listed == UNION {Enqueued(q, call.processed) : q \in hit}
            known == call.traced =>
                       /\ \A e \in call.worklist : Source(e[2], e[1]) \subseteq DOMAIN causes
                       /\ call.stack \subseteq DOMAIN causes
<1>1. /\ p \in call.stack /\ call'.traced = call.traced
      /\ new \in SUBSET Pairs /\ \A q \in new : q[2] = p[2]
      /\ call'.worklist = call.worklist \cup listed
      /\ call'.stack = (call.stack \ {p}) \cup new
      /\ causes' = IF Eager THEN Recorded(new, Dependency(p[1])) ELSE causes
  BY WalkMeans DEF Kept
<1>2. known
  BY DEF Sourced, CallTyped
<1>3. Eager
  <2>1. ~MarksOnlyRoot(call.policy)
    BY <1>1 DEF Bounded
  <2>2. call.policy \in Policies /\ call.policy # "Custom"
    BY DEF CallTyped
  <2>. QED
    BY <2>1, <2>2, PolicyNamed
<1>4. \A q \in new : Source(Dependency(p[1]), q) = {p}
  <2>. SUFFICES ASSUME NEW q \in new PROVE Source(Dependency(p[1]), q) = {p}
    OBVIOUS
  <2>1. q \in Pairs /\ q[2] = p[2] /\ p = <<p[1], p[2]>>
    BY <1>1 DEF Pairs
  <2>2. Dependency(p[1]).kind = "Dependency" /\ Dependency(p[1]).key = p[1]
    BY DEF Dependency
  <2>3. Source(Dependency(p[1]), q) = {<<p[1], q[2]>>}
    BY <2>2 DEF Source
  <2>. QED
    BY <2>1, <2>3
<1>5. \A e \in listed : \E q \in new : Source(e[2], e[1]) = {q}
  <2>. SUFFICES ASSUME NEW e \in listed PROVE \E q \in new : Source(e[2], e[1]) = {q}
    OBVIOUS
  <2>1. PICK q \in hit : e \in Enqueued(q, call.processed)
    OBVIOUS
  <2>2. q \in new /\ q \in Pairs
    BY <1>1, <2>1
  <2>. QED
    BY <2>1, <2>2, EnqueuedMeans
<1>. HIDE DEF new, hit, listed
<1>6. /\ DOMAIN causes \subseteq DOMAIN causes'
      /\ \A q \in DOMAIN causes : causes'[q] = causes[q]
      /\ \A q \in DOMAIN causes' \ DOMAIN causes : Source(causes'[q], q) \subseteq DOMAIN causes
      /\ call.traced => new \subseteq DOMAIN causes'
  <2>1. call.traced => \A q \in new : Source(Dependency(p[1]), q) \subseteq DOMAIN causes
    BY <1>1, <1>2, <1>4
  <2>2. causes' = Recorded(new, Dependency(p[1]))
    BY <1>1, <1>3
  <2>. QED
    BY <1>1, <2>1, <2>2, RecordedSourced
<1>7. call'.traced =>
        /\ \A e \in call'.worklist : Source(e[2], e[1]) \subseteq DOMAIN causes'
        /\ call'.stack \subseteq DOMAIN causes'
  BY <1>1, <1>2, <1>5, <1>6
<1>. QED
  BY <1>6, <1>7, SourcedNext

\* The first entries of a call are roots, which need no source (trace.rs).
LEMMA BeginSourced ==
  ASSUME invalidated \in SUBSET Pairs, CausesTyped, CausesTyped', Sourced,
         NEW roots \in SUBSET Pairs, NEW policy \in Policies, NEW traced \in BOOLEAN,
         BeginMark(roots, policy, traced)
  PROVE  Sourced'
<1>1. /\ call'.worklist = {<<q, Root>> : q \in roots} /\ call'.stack = {}
      /\ causes' = causes
  BY BeginMarkMeans
<1>2. \A e \in call'.worklist : e[2] = Root
  BY <1>1
<1>3. \A x : Source(Root, x) = {}
  <2>1. Root.kind = "Root"
    BY DEF Root
  <2>. QED
    BY <2>1 DEF Source
<1>. QED
  BY <1>1, <1>2, <1>3, SourcedNext

-----------------------------------------------------------------------------
(***************************************************************************)
(* The invariant is inductive.                                             *)
(***************************************************************************)

\* A new tracker satisfies the invariant (tracker.rs, new).
LEMMA InitInv == Init => Inv
<1>. SUFFICES ASSUME Init PROVE Inv
  OBVIOUS
<1>1. TypeOK
  BY DEF Init, TypeOK
<1>2. ~call.active /\ DOMAIN causes = {}
  BY DEF Init, NoCall
<1>. QED
  BY <1>1, <1>2 DEF Inv, Sourced

\* A step that changes nothing.
LEMMA StutterInv ==
  ASSUME Inv, UNCHANGED vars, TypeOK', CausesTyped, CausesTyped'
  PROVE  Inv'
<1>1. /\ invalidated' = invalidated /\ causes' = causes /\ call' = call
      /\ UNCHANGED rules
  BY DEF vars, rules
<1>2. /\ \A p : Dependents(p)' = Dependents(p)
      /\ \A p : CrossSuccessors(p)' = CrossSuccessors(p)
      /\ \A p : NothingCrosses(p)' = NothingCrosses(p)
  BY <1>1, KeptRules
<1>3. Sourced => Sourced'
  BY <1>1, SourcedNext DEF Sourced
<1>4. ASSUME call.active PROVE Bounded' /\ Covered' /\ Counted'
  <2>1. Kept /\ Bounded /\ Covered /\ Counted
    BY <1>1, <1>4 DEF Kept, Inv
  <2>2. Listed' = Listed
    BY <1>1 DEF Listed
  <2>3. Bounded'
    BY <1>1, <2>1, <2>2, BoundedKept DEF Bounded
  <2>4. /\ FastPath => FastPath'
        /\ EagerCovered => EagerCovered'
        /\ OtherCovered => OtherCovered'
    BY <1>1, <1>2, <2>2 DEF FastPath, EagerCovered, OtherCovered, Pairs
  <2>5. Covered'
    BY <1>4, <2>1, <2>4, CoveredMeans, CoveredNext
  <2>6. Counted'
    BY <1>1, <2>1, CountedNext DEF Counted, Completed
  <2>. QED
    BY <2>3, <2>5, <2>6
<1>. QED
  BY <1>1, <1>3, <1>4 DEF Inv

\* Every step keeps it: edits between calls, the start of a call, each kind of
\* turn, and the return (tracker.rs, mark_closure).
LEMMA NextInv == Inv /\ [Next]_vars => Inv'
<1>. SUFFICES ASSUME Inv, [Next]_vars PROVE Inv'
  OBVIOUS
<1>1. TypeOK /\ TypeOK'
  BY NextTyped DEF Inv
<1>2. RulesTyped /\ invalidated \in SUBSET Pairs /\ CausesTyped /\ CausesTyped'
  BY <1>1, TypedRules DEF TypeOK, CausesTyped, Pairs, Causes
<1>3. ASSUME Edit PROVE Inv'
  <2>1. /\ ~call.active /\ call' = call
        /\ causes' = causes \/ causes' = [p \in {} |-> {}]
    BY <1>1, <1>3, EditTyped
  <2>2. Sourced => Sourced'
    <3>1. CASE causes' = causes
      BY <1>2, <2>1, <3>1, SourcedNext
    <3>2. CASE causes' = [p \in {} |-> {}]
      BY <2>1, <3>2 DEF Sourced
    <3>. QED
      BY <2>1, <3>1, <3>2
  <2>. QED
    BY <1>1, <2>1, <2>2 DEF Inv
<1>4. ASSUME NEW roots \in SUBSET Pairs, NEW policy \in Policies, NEW traced \in BOOLEAN,
             roots # {}, BeginMark(roots, policy, traced)
      PROVE  Inv'
  <2>1. Bounded' /\ Covered' /\ Counted'
    BY <1>2, <1>4, BeginBounded, BeginCovered, BeginCounted
  <2>2. Sourced => Sourced'
    BY <1>2, <1>4, BeginSourced
  <2>. QED
    BY <1>1, <2>1, <2>2 DEF Inv
<1>5. ASSUME CallStep PROVE Inv'
  <2>1. call.active
    BY <1>5 DEF CallStep, Worklist, Walk, Return
  <2>2. CallTyped /\ Bounded /\ Covered /\ Counted
    BY <1>1, <2>1, TypedCall DEF Inv
  <2>3. ASSUME NEW entry \in call.worklist,
               SkipProcessed(entry) \/ SkipScanned(entry) \/ EagerStep(entry) \/ PolicyStep(entry)
        PROVE  Inv'
    <3>1. Bounded'
      BY <1>2, <2>2, <2>3, StepBounded
    <3>2. Covered'
      BY <1>2, <2>2, <2>3, SkipProcessedCovered, SkipScannedCovered, EagerStepCovered,
         PolicyStepCovered
    <3>3. Counted'
      BY <1>2, <2>2, <2>3, SkipCounted, EagerStepCounted, PolicyStepCounted
    <3>4. "Custom" \notin Policies /\ Sourced => Sourced'
      BY <1>2, <2>2, <2>3, StepSourced
    <3>. QED
      BY <1>1, <3>1, <3>2, <3>3, <3>4 DEF Inv
  <2>4. ASSUME NEW p \in Pairs, Walk(p) PROVE Inv'
    <3>1. Bounded' /\ Covered' /\ Counted'
      BY <1>2, <2>2, <2>4, WalkBounded, WalkCovered, WalkCounted
    <3>2. "Custom" \notin Policies /\ Sourced => Sourced'
      BY <1>2, <2>2, <2>4, WalkSourced
    <3>. QED
      BY <1>1, <3>1, <3>2 DEF Inv
  <2>5. ASSUME Return PROVE Inv'
    <3>1. ~call'.active /\ causes' = causes
      BY <2>5 DEF Return, NoCall
    <3>2. Sourced => Sourced'
      BY <1>2, <3>1, SourcedNext
    <3>. QED
      BY <1>1, <3>1, <3>2 DEF Inv
  <2>. QED
    BY <1>5, <2>3, <2>4, <2>5, CallStepCases
<1>6. ASSUME UNCHANGED vars PROVE Inv'
  BY <1>1, <1>2, <1>6, StutterInv
<1>. QED
  BY <1>3, <1>4, <1>5, <1>6 DEF Next, Begin, MarkMany, MarkWithTrace

\* The inductive invariant is an invariant.
THEOREM MarkInvariant == Spec => []Inv
BY InitInv, NextInv, PTL DEF Spec

(***************************************************************************)
(* In every reachable state what an eager walk has scanned is covered: the *)
(* walk may stop at a scanned pair, in one channel or across many, and     *)
(* whatever the fast path left out (tracker.rs, mark_closure).             *)
(***************************************************************************)
THEOREM WalksAreSound == Spec => []WalkSound
<1>1. Inv => WalkSound
  <2>. SUFFICES ASSUME Inv PROVE WalkSound
    OBVIOUS
  <2>1. TypeOK /\ (call.active => Covered)
    BY DEF Inv
  <2>2. ScannedIsCovered
    BY <2>1 DEF Covered, ScannedIsCovered, Eager
  <2>. QED
    BY <2>1, <2>2 DEF WalkSound
<1>. QED
  BY <1>1, MarkInvariant, PTL

(***************************************************************************)
(* The report of every call that is about to return is exact: new marks    *)
(* are counted once each and their channels named, and the work is counted *)
(* once for each pair it was spent on (tracker.rs, MarkReport).            *)
(***************************************************************************)
THEOREM ReportsAlwaysTell == Spec => []ReportTells
<1>1. Inv => ReportTells
  <2>. SUFFICES ASSUME Inv, call.active, call.worklist = {}, call.stack = {}
                PROVE  LET report == call.report
                           new    == invalidated \ call.before
                       IN
                       /\ report.newly = Cardinality(new)
                       /\ report.channels = {p[2] : p \in new}
                       /\ IsNoop(report) <=> invalidated = call.before
                       /\ ~call.follows => report.steps = 1 /\ report.keysScanned = 0
                       /\ call.follows /\ MarksAllDependents(call.policy) =>
                            report.steps + report.keysScanned = Cardinality(call.scanned)
                       /\ MarksOnlyRoot(call.policy) => report.keysScanned = 0
                       /\ ~MarksAllDependents(call.policy) =>
                            report.steps = Cardinality(call.processed)
    BY DEF ReportTells
  <2>. DEFINE new == invalidated \ call.before
  <2>1. TypeOK /\ Bounded /\ Covered /\ Counted
    BY DEF Inv
  <2>2. call.report.newly = Cardinality(new) /\ call.report.channels = {p[2] : p \in new}
    BY <2>1 DEF Counted, TellsNew
  <2>3. IsNoop(call.report) <=> invalidated = call.before
    <3>1. new \in SUBSET Pairs /\ call.before \subseteq invalidated
      BY <2>1 DEF TypeOK, Bounded
    <3>2. IsFiniteSet(new)
      <4>. HIDE DEF new
      <4>. QED
        BY <3>1, PairsFinite
    <3>3. Cardinality(new) = 0 <=> new = {}
      BY <3>2, FS_EmptySet
    <3>. QED
      BY <2>2, <3>1, <3>3 DEF IsNoop
  <2>4. ~call.follows => call.report.steps = 1 /\ call.report.keysScanned = 0
    BY <2>1 DEF Covered, FastPath
  <2>5. /\ call.follows /\ Eager =>
             call.report.steps + call.report.keysScanned = Cardinality(call.scanned)
        /\ MarksOnlyRoot(call.policy) => call.report.keysScanned = 0
        /\ ~Eager => call.report.steps = Cardinality(call.processed)
    BY <2>1 DEF Counted
  <2>. HIDE DEF new
  <2>. QED
    BY <2>2, <2>3, <2>4, <2>5 DEF Eager, new
<1>. QED
  BY <1>1, MarkInvariant, PTL

(***************************************************************************)
(* With the library's policies every pair a recorder knows is explained,   *)
(* after any number of calls and changes of the graph: the path back ends  *)
(* at a root (trace.rs, explain_path).                                     *)
(***************************************************************************)
THEOREM RecordersExplain == Spec => []Explained
<1>1. Inv => Explained
  BY DEF Inv, Sourced, Explained
<1>. QED
  BY <1>1, MarkInvariant, PTL

(***************************************************************************)
(* Every turn of the loop brings a call nearer to its end: the sets of     *)
(* processed and scanned pairs grow, or the worklist or the stack shrinks  *)
(* (tracker.rs, mark_closure).                                             *)
(***************************************************************************)
LEMMA TurnAdvances ==
  ASSUME TypeOK, [Next]_vars, call.active, call'.active, call # call'
  PROVE  NearerTheEnd
<1>1. CallTyped
  BY TypedCall
<1>2. RulesTyped /\ invalidated \in SUBSET Pairs
  BY TypedRules DEF TypeOK
<1>3. CallStep
  BY DEF Next, vars, Edit, Begin, MarkMany, MarkWithTrace, BeginMark, Idle, AddDependency,
     RemoveDependency, AddCascade, AddCrossDependency, Take, Mark, ClearTrace, Editable
<1>4. ASSUME NEW entry \in call.worklist, SkipProcessed(entry) PROVE NearerTheEnd
  BY <1>1, <1>4, SkipProcessedMeans DEF NearerTheEnd
<1>5. ASSUME NEW entry \in call.worklist, SkipScanned(entry) PROVE NearerTheEnd
  BY <1>1, <1>5, SkipScannedMeans DEF NearerTheEnd
<1>6. ASSUME NEW entry \in call.worklist, EagerStep(entry) PROVE NearerTheEnd
  <2>1. /\ entry[1] \notin call.processed \cup call.scanned
        /\ call'.processed = call.processed \cup {entry[1]}
        /\ call'.scanned = call.scanned \cup {entry[1]}
    BY <1>1, <1>2, <1>6, EagerStepMeans
  <2>. QED
    BY <2>1 DEF NearerTheEnd
<1>7. ASSUME NEW entry \in call.worklist, PolicyStep(entry) PROVE NearerTheEnd
  <2>1. /\ entry[1] \notin call.processed
        /\ call'.processed = call.processed \cup {entry[1]}
        /\ call.scanned \subseteq call'.scanned
    BY <1>1, <1>2, <1>7, PolicyStepMeans
  <2>. QED
    BY <2>1 DEF NearerTheEnd
<1>8. ASSUME NEW p \in Pairs, Walk(p) PROVE NearerTheEnd
  <2>. DEFINE new == Dependents(p) \ call.scanned
              hit == IF Eager THEN new ELSE new \cap invalidated
              listed == UNION {Enqueued(q, call.processed) : q \in hit}
  <2>1. /\ call'.worklist = call.worklist \cup listed
        /\ call'.processed = call.processed
        /\ call'.scanned = call.scanned \cup new
        /\ call'.stack = (call.stack \ {p}) \cup new
    BY <1>1, <1>2, <1>8, WalkMeans
  <2>2. new \cap call.scanned = {} /\ (new = {} => listed = {})
    OBVIOUS
  <2>. HIDE DEF new, listed
  <2>3. CASE new = {}
    BY <2>1, <2>2, <2>3 DEF NearerTheEnd
  <2>4. CASE new # {}
    BY <2>1, <2>2, <2>4 DEF NearerTheEnd
  <2>. QED
    BY <2>3, <2>4
<1>9. ~Return
  BY DEF Return, NoCall
<1>. QED
  BY <1>3, <1>4, <1>5, <1>6, <1>7, <1>8, <1>9, CallStepCases

\* Every turn of a call's loops comes nearer the end, on cyclic graphs too: no
\* pair is forgotten, and one more is processed or scanned, or there is less
\* work left (tracker.rs, mark_closure).
THEOREM CallsAlwaysAdvance == Spec => CallsAdvance
<1>. DEFINE Body == call.active /\ call'.active /\ call # call' => NearerTheEnd
<1>1. TypeOK /\ [Next]_vars => [Body]_vars
  BY TurnAdvances
<1>. QED
  BY <1>1, MarkTypeCorrect, PTL DEF Spec, CallsAdvance

-----------------------------------------------------------------------------
(***************************************************************************)
(* MarkClosure implements MarkContract.                                    *)
(*                                                                         *)
(* The marks before a call stay visible until it returns, so a call is one *)
(* step of the contract.  When it returns nothing is left on the worklist  *)
(* or the stack; what the call has dealt with is then closed, and by       *)
(* leastness it holds all that the roots reach, while Bounded says that    *)
(* it, and the marks, hold no more.                                        *)
(***************************************************************************)

\* The contract's reachability is the module's.
LEMMA SameReachability ==
  /\ \A D, roots : Contract!ReachableFrom(D, roots) = ReachableFrom(D, roots)
  /\ Contract!Pairs = Pairs
<1>1. \A D, a, b : Contract!Reaches(D, a, b) <=> Reaches(D, a, b)
  BY Zenon DEF Contract!Reaches, Contract!ClosedUnder, Reaches, ClosedUnder
<1>2. \A D, roots : Contract!ReachableFrom(D, roots) = ReachableFrom(D, roots)
  BY <1>1 DEF Contract!ReachableFrom, ReachableFrom
<1>3. Contract!Pairs = Pairs
  BY DEF Contract!Pairs, Pairs
<1>. QED
  BY <1>2, <1>3

\* The contract's relations, which take cascades one rule at a time.
LEMMA ContractRelations ==
  ASSUME RulesTyped
  PROVE  /\ Contract!Across \in [Pairs -> SUBSET Pairs]
         /\ Contract!Flow \in [Pairs -> SUBSET Pairs]
         /\ \A p \in Pairs :
              /\ Contract!Across[p] = {q \in Pairs : q[1] = p[1] /\ q[2] \in cascades[p[2]]}
                                        \cup crossDependents[p]
              /\ Contract!Flow[p] = Dependents(p) \cup Contract!Across[p]
<1>1. \A p \in Pairs : crossDependents[p] \in SUBSET Pairs
  BY DEF RulesTyped
<1>2. /\ Contract!Across \in [Pairs -> SUBSET Pairs]
      /\ \A p \in Pairs :
           Contract!Across[p] = {q \in Pairs : q[1] = p[1] /\ q[2] \in cascades[p[2]]}
                                  \cup crossDependents[p]
  BY <1>1, SameReachability DEF Contract!Across
<1>3. /\ Contract!Within \in [Pairs -> SUBSET Pairs]
      /\ \A p \in Pairs : Contract!Within[p] = Dependents(p)
  BY SameReachability DEF Contract!Within, Dependents
<1>4. /\ Contract!Flow \in [Pairs -> SUBSET Pairs]
      /\ \A p \in Pairs : Contract!Flow[p] = Contract!Within[p] \cup Contract!Across[p]
  BY <1>2, <1>3, SameReachability DEF Contract!Flow
<1>. QED
  BY <1>2, <1>3, <1>4

\* Following cascades one rule at a time leads to the same pairs as following
\* them to all their targets at once.
LEMMA StepByStep ==
  ASSUME RulesTyped, NEW S \in SUBSET Pairs
  PROVE  /\ ClosedUnder(Contract!Across, S) <=> ClosedUnder(Across, S)
         /\ ClosedUnder(Contract!Flow, S) <=> ClosedUnder(Flow, S)
<1>1. \A p \in Pairs : /\ p = <<p[1], p[2]>> /\ p[1] \in Keys /\ p[2] \in Channels
                       /\ cascades[p[2]] \subseteq CascadesFrom(p[2])
                       /\ CascadesFrom(p[2]) \in SUBSET Channels
                       /\ crossDependents[p] \in SUBSET Pairs
  BY CascadesType DEF Pairs, RulesTyped
<1>2. ASSUME NEW p \in S, Contract!Across[p] \subseteq S,
             \A q \in S : Contract!Across[q] \subseteq S
      PROVE  CrossSuccessors(p) \subseteq S
  <2>. DEFINE C == {c \in Channels : <<p[1], c>> \in S}
  <2>1. p \in Pairs
    OBVIOUS
  <2>2. ASSUME NEW c \in Channels, NEW d \in cascades[c], <<p[1], c>> \in S
        PROVE  d \in Channels /\ <<p[1], d>> \in S
    <3>1. d \in Channels
      BY <2>2 DEF RulesTyped
    <3>2. <<p[1], d>> \in Pairs /\ <<p[1], c>> \in Pairs
      BY <1>1, <2>1, <3>1 DEF Pairs
    <3>3. <<p[1], d>> \in Contract!Across[<<p[1], c>>]
      BY <2>2, <3>2, ContractRelations
    <3>. QED
      BY <1>2, <2>2, <3>1, <3>3
  <2>3. ClosedUnder(cascades, C)
    BY <2>2 DEF ClosedUnder
  <2>4. cascades[p[2]] \subseteq C
    BY <1>1, <1>2, <2>1, <2>2
  <2>5. C \in SUBSET Channels /\ cascades \in [Channels -> SUBSET Channels]
    BY DEF RulesTyped
  <2>. HIDE DEF C
  <2>6. CascadesFrom(p[2]) \subseteq C
    BY <2>3, <2>4, <2>5, ReachableLeast DEF CascadesFrom
  <2>7. crossDependents[p] \subseteq S
    BY <1>2, <2>1, ContractRelations
  <2>. QED
    BY <2>6, <2>7 DEF CrossSuccessors, Successors, C
<1>3. \A p \in Pairs : Contract!Across[p] \subseteq CrossSuccessors(p)
  <2>. SUFFICES ASSUME NEW p \in Pairs, NEW q \in Contract!Across[p]
                PROVE  q \in CrossSuccessors(p)
    OBVIOUS
  <2>1. CASE q \in crossDependents[p]
    <3>1. <<q, CrossChannel(p)>> \in Successors(p)
      BY <2>1 DEF Successors
    <3>. QED
      BY <3>1 DEF CrossSuccessors
  <2>2. CASE q \in Pairs /\ q[1] = p[1] /\ q[2] \in cascades[p[2]]
    <3>1. q = <<p[1], q[2]>> /\ q[2] \in CascadesFrom(p[2])
      BY <1>1, <2>2
    <3>2. <<q, Cascade(p[2])>> \in Successors(p)
      BY <3>1 DEF Successors
    <3>. QED
      BY <3>2 DEF CrossSuccessors
  <2>. QED
    BY <2>1, <2>2, ContractRelations
<1>4. /\ \A p \in S : Contract!Flow[p] = Dependents(p) \cup Contract!Across[p]
      /\ \A p \in S : Across[p] = CrossSuccessors(p)
      /\ \A p \in S : Flow[p] = Dependents(p) \cup CrossSuccessors(p)
  BY ContractRelations DEF Across, Flow
<1>. QED
  BY <1>2, <1>3, <1>4 DEF ClosedUnder

\* The contract and the algorithm mean the same pairs by what the roots reach,
\* though each writes the flow down in its own way (tracker.rs).
LEMMA SameReach ==
  ASSUME RulesTyped, NEW roots \in SUBSET Pairs
  PROVE  /\ Contract!ReachableFrom(Contract!Across, roots) = ReachableFrom(Across, roots)
         /\ Contract!ReachableFrom(Contract!Flow, roots) = ReachableFrom(Flow, roots)
<1>1. ASSUME NEW C \in [Pairs -> SUBSET Pairs], NEW D \in [Pairs -> SUBSET Pairs],
             \A S \in SUBSET Pairs : ClosedUnder(C, S) <=> ClosedUnder(D, S)
      PROVE  ReachableFrom(C, roots) = ReachableFrom(D, roots)
  <2>1. /\ ReachableFrom(C, roots) \in SUBSET Pairs /\ roots \subseteq ReachableFrom(C, roots)
        /\ ClosedUnder(C, ReachableFrom(C, roots))
    BY ReachableClosed
  <2>2. /\ ReachableFrom(D, roots) \in SUBSET Pairs /\ roots \subseteq ReachableFrom(D, roots)
        /\ ClosedUnder(D, ReachableFrom(D, roots))
    BY ReachableClosed
  <2>3. ReachableFrom(C, roots) \subseteq ReachableFrom(D, roots)
    BY <1>1, <2>2, ReachableLeast
  <2>4. ReachableFrom(D, roots) \subseteq ReachableFrom(C, roots)
    BY <1>1, <2>1, ReachableLeast
  <2>. QED
    BY <2>3, <2>4
<1>2. /\ \A S \in SUBSET Pairs : ClosedUnder(Contract!Across, S) <=> ClosedUnder(Across, S)
      /\ \A S \in SUBSET Pairs : ClosedUnder(Contract!Flow, S) <=> ClosedUnder(Flow, S)
  BY StepByStep
<1>3. /\ Contract!Across \in [Pairs -> SUBSET Pairs] /\ Across \in [Pairs -> SUBSET Pairs]
      /\ Contract!Flow \in [Pairs -> SUBSET Pairs] /\ Flow \in [Pairs -> SUBSET Pairs]
  BY ContractRelations, RelationTypes
<1>4. ReachableFrom(Contract!Across, roots) = ReachableFrom(Across, roots)
  BY <1>1, <1>2, <1>3
<1>5. ReachableFrom(Contract!Flow, roots) = ReachableFrom(Flow, roots)
  BY <1>1, <1>2, <1>3
<1>. QED
  BY <1>4, <1>5, SameReachability

\* What a channel reaches is the channel and what it cascades to.
LEMMA ReachesOnward ==
  ASSUME NEW K, NEW D \in [K -> SUBSET K], NEW a \in K
  PROVE  ReachableFrom(D, {a}) = {a} \cup ReachableFrom(D, D[a])
<1>. DEFINE onward == {a} \cup ReachableFrom(D, D[a])
<1>1. /\ ReachableFrom(D, D[a]) \in SUBSET K /\ D[a] \subseteq ReachableFrom(D, D[a])
      /\ ClosedUnder(D, ReachableFrom(D, D[a]))
  BY ReachableClosed
<1>2. onward \in SUBSET K /\ {a} \subseteq onward /\ ClosedUnder(D, onward)
  BY <1>1 DEF ClosedUnder
<1>. HIDE DEF onward
<1>3. ReachableFrom(D, {a}) \subseteq onward
  BY <1>2, ReachableLeast
<1>4. /\ ReachableFrom(D, {a}) \in SUBSET K /\ {a} \subseteq ReachableFrom(D, {a})
      /\ ClosedUnder(D, ReachableFrom(D, {a}))
  BY ReachableClosed
<1>5. D[a] \subseteq ReachableFrom(D, {a})
  BY <1>4 DEF ClosedUnder
<1>6. ReachableFrom(D, D[a]) \subseteq ReachableFrom(D, {a})
  BY <1>4, <1>5, ReachableLeast
<1>. QED
  BY <1>3, <1>4, <1>6 DEF onward

\* A call that returns has marked what its policy promises.
LEMMA ReturnMarks ==
  ASSUME TypeOK, call.active, Bounded, Covered, call.worklist = {}, call.stack = {}
  PROVE  LET all   == ReachableFrom(Flow, call.roots)
             least == ReachableFrom(Across, call.roots)
         IN
         /\ call.policy = "Eager" => invalidated = call.before \cup all
         /\ call.policy = "Lazy" => invalidated = call.before \cup least
         /\ call.before \cup least \subseteq invalidated
         /\ call.policy # "Lazy" => invalidated \subseteq call.before \cup all
<1>. DEFINE all   == ReachableFrom(Flow, call.roots)
            least == ReachableFrom(Across, call.roots)
<1>1. CallTyped /\ RulesTyped
  BY TypedCall, TypedRules
<1>2. Flow \in [Pairs -> SUBSET Pairs] /\ Across \in [Pairs -> SUBSET Pairs]
  BY <1>1, RelationTypes
<1>3. call.roots \in SUBSET Pairs
  BY <1>1 DEF CallTyped
<1>4. Listed = {}
  BY DEF Listed
<1>5. call.before \subseteq invalidated /\ invalidated \subseteq call.before \cup Limit
  BY DEF Bounded
<1>6. /\ Eager <=> call.policy = "Eager"
      /\ MarksOnlyRoot(call.policy) <=> call.policy = "Lazy"
  BY <1>1, PolicyNamed DEF CallTyped
<1>7. Limit = IF call.policy = "Lazy" THEN least ELSE all
  BY <1>6 DEF Limit
<1>8. least \subseteq all
  <2>1. ClosedUnder(Across, all)
    <3>1. ClosedUnder(Flow, all) /\ all \in SUBSET Pairs
      BY <1>2, <1>3, ReachableClosed
    <3>2. \A p \in Pairs : Across[p] \subseteq Flow[p]
      BY DEF Across, Flow
    <3>. HIDE DEF all
    <3>. QED
      BY <3>1, <3>2 DEF ClosedUnder
  <2>2. all \in SUBSET Pairs /\ call.roots \subseteq all
    BY <1>2, <1>3, ReachableClosed
  <2>. HIDE DEF all
  <2>. QED
    BY <1>2, <2>1, <2>2, ReachableLeast
<1>9. ASSUME Eager PROVE all \subseteq invalidated
  <2>1. EagerCovered
    BY <1>9, CoveredMeans
  <2>2. call.scanned \in SUBSET Pairs /\ call.roots \subseteq call.scanned
    BY <1>1, <1>4, <2>1 DEF EagerCovered, CallTyped
  <2>3. \A p \in call.scanned : /\ Dependents(p) \subseteq call.scanned
                                /\ CrossSuccessors(p) \subseteq call.scanned
    BY <1>4, <2>1 DEF EagerCovered
  <2>4. \A p \in call.scanned : Flow[p] = Dependents(p) \cup CrossSuccessors(p)
    BY <2>2 DEF Flow
  <2>5. ClosedUnder(Flow, call.scanned)
    BY <2>3, <2>4 DEF ClosedUnder
  <2>6. all \subseteq call.scanned
    BY <1>2, <2>2, <2>5, ReachableLeast
  <2>. QED
    BY <2>1, <2>6 DEF EagerCovered
<1>10. ASSUME ~Eager PROVE least \subseteq invalidated
  <2>1. OtherCovered
    BY <1>10, CoveredMeans
  <2>2. call.processed \in SUBSET Pairs /\ call.roots \subseteq call.processed
    BY <1>1, <1>4, <2>1 DEF OtherCovered, CallTyped
  <2>3. \A p \in call.processed : CrossSuccessors(p) \subseteq call.processed
    BY <1>4, <2>1 DEF OtherCovered
  <2>4. \A p \in call.processed : Across[p] = CrossSuccessors(p)
    BY <2>2 DEF Across
  <2>5. ClosedUnder(Across, call.processed)
    BY <2>3, <2>4 DEF ClosedUnder
  <2>6. least \subseteq call.processed
    BY <1>2, <2>2, <2>5, ReachableLeast
  <2>. QED
    BY <2>1, <2>6 DEF OtherCovered
<1>. HIDE DEF all, least
<1>11. least \subseteq invalidated
  BY <1>8, <1>9, <1>10
<1>. QED
  BY <1>5, <1>6, <1>7, <1>9, <1>11 DEF all, least

\* Between calls the contract has no request.
LEMMA IdleMeans ==
  ASSUME ~call.active
  PROVE  Visible = invalidated /\ Request = Contract!NoRequest
BY DEF Visible, Request, Contract!NoRequest

\* Edits of the rules and of the recorder, takes and plain marks.
LEMMA EditRefines ==
  ASSUME TypeOK, Edit
  PROVE  [Contract!Next]_(Contract!contractVars)
<1>1. ~call.active /\ call' = call
  BY EditTyped
<1>2. /\ Visible = invalidated /\ Visible' = invalidated'
      /\ Request = Contract!NoRequest /\ Request' = Contract!NoRequest
  <2>1. Visible = invalidated /\ Request = Contract!NoRequest
    BY <1>1, IdleMeans
  <2>2. Visible' = invalidated' /\ Request' = Contract!NoRequest'
    <3>1. (~call.active => Visible = invalidated /\ Request = Contract!NoRequest)'
      BY IdleMeans, PTL
    <3>. QED
      BY <1>1, <3>1
  <2>3. Contract!NoRequest' = Contract!NoRequest
    BY DEF Contract!NoRequest
  <2>. QED
    BY <2>1, <2>2, <2>3
<1>3. Contract!Idle
  BY <1>2 DEF Contract!Idle
<1>4. CASE UNCHANGED invalidated
  BY <1>2, <1>3, <1>4 DEF Contract!Next, Contract!Edit
<1>5. ASSUME NEW p \in Pairs, Take(p) PROVE Contract!Next
  <2>1. invalidated' = invalidated \ {p} /\ UNCHANGED rules
    BY <1>5 DEF Take
  <2>2. Contract!Take(p)
    BY <1>2, <1>3, <2>1 DEF Contract!Take, Contract!rules, rules
  <2>. QED
    BY <2>2, SameReachability DEF Contract!Next
<1>6. ASSUME NEW p \in Pairs, Mark(p) PROVE Contract!Next
  <2>1. /\ invalidated' = invalidated \cup {p} \cup {<<p[1], c>> : c \in CascadesFrom(p[2])}
        /\ UNCHANGED rules
    BY <1>6 DEF Mark
  <2>2. p = <<p[1], p[2]>> /\ p[2] \in Channels
    BY DEF Pairs
  <2>3. Contract!ReachableFrom(cascades, {p[2]}) = {p[2]} \cup CascadesFrom(p[2])
    <3>1. cascades \in [Channels -> SUBSET Channels]
      BY DEF TypeOK
    <3>2. ReachableFrom(cascades, {p[2]}) = {p[2]} \cup ReachableFrom(cascades, cascades[p[2]])
      BY <2>2, <3>1, ReachesOnward
    <3>. QED
      BY <3>2, SameReachability DEF CascadesFrom
  <2>4. {p[1]} \X Contract!ReachableFrom(cascades, {p[2]})
          = {p} \cup {<<p[1], c>> : c \in CascadesFrom(p[2])}
    BY <2>2, <2>3
  <2>5. Contract!Mark(p)
    BY <1>2, <1>3, <2>1, <2>4 DEF Contract!Mark, Contract!rules, rules
  <2>. QED
    BY <2>5, SameReachability DEF Contract!Next
<1>. QED
  BY <1>4, <1>5, <1>6 DEF Edit, AddDependency, RemoveDependency, AddCascade,
     AddCrossDependency, Editable, ClearTrace

\* A call begins: the contract is asked.
LEMMA BeginRefines ==
  ASSUME TypeOK, NEW roots \in SUBSET Pairs, NEW policy \in Policies, NEW traced \in BOOLEAN,
         roots # {}, BeginMark(roots, policy, traced)
  PROVE  Contract!Next
<1>1. /\ ~call.active /\ call'.active /\ call'.roots = roots /\ call'.policy = policy
      /\ call'.before = invalidated /\ UNCHANGED <<rules, invalidated>>
  BY BeginMarkMeans DEF TypeOK
<1>2. Visible = invalidated /\ Request = Contract!NoRequest
  BY <1>1, IdleMeans
<1>3. Visible' = invalidated /\ Request' = [roots |-> roots, policy |-> policy]
  BY <1>1 DEF Visible, Request
<1>4. Request' \in [roots : (SUBSET Contract!Pairs) \ {{}}, policy : Policies]
  BY <1>3, SameReachability
<1>. QED
  BY <1>1, <1>2, <1>3, <1>4 DEF Contract!Next, Contract!Ask, Contract!rules, rules

\* A turn of the loop is invisible.
LEMMA KeptRefines ==
  ASSUME Kept
  PROVE  UNCHANGED Contract!contractVars
<1>1. Visible' = Visible /\ Request' = Request
  BY DEF Kept, Visible, Request
<1>. QED
  BY <1>1 DEF Kept, rules, Contract!contractVars

\* A call returns: its marks appear.
LEMMA ReturnRefines ==
  ASSUME Inv, Return
  PROVE  Contract!Next
<1>1. /\ call.active /\ call.worklist = {} /\ call.stack = {}
      /\ call' = NoCall /\ UNCHANGED <<rules, invalidated>>
  BY DEF Return
<1>2. TypeOK /\ Bounded /\ Covered /\ CallTyped /\ RulesTyped
  BY <1>1, TypedCall, TypedRules DEF Inv
<1>3. Visible = call.before /\ Request = [roots |-> call.roots, policy |-> call.policy]
  BY <1>1 DEF Visible, Request
<1>4. Visible' = invalidated /\ Request' = Contract!NoRequest
  BY <1>1 DEF Visible, Request, NoCall, Contract!NoRequest
<1>5. Request # Contract!NoRequest /\ Request.roots = call.roots /\ Request.policy = call.policy
  <2>1. call.roots # {}
    BY <1>2 DEF Bounded
  <2>2. Request.roots = call.roots /\ Request.policy = call.policy
    BY <1>3
  <2>3. Contract!NoRequest.roots = {}
    BY DEF Contract!NoRequest
  <2>. QED
    BY <2>1, <2>2, <2>3
<1>6. call.roots \in SUBSET Pairs /\ call.policy \in {"Eager", "Lazy", "Custom"}
  BY <1>2, PolicyNamed DEF CallTyped
<1>. DEFINE all   == Contract!ReachableFrom(Contract!Flow, call.roots)
            least == Contract!ReachableFrom(Contract!Across, call.roots)
<1>7. /\ call.policy = "Eager" => invalidated = call.before \cup all
      /\ call.policy = "Lazy" => invalidated = call.before \cup least
      /\ call.before \cup least \subseteq invalidated
      /\ call.policy # "Lazy" => invalidated \subseteq call.before \cup all
  BY <1>1, <1>2, <1>6, ReturnMarks, SameReach
<1>8. Contract!MarkWith
  <2>. DEFINE every == Contract!ReachableFrom(Contract!Flow, Request.roots)
              few   == Contract!ReachableFrom(Contract!Across, Request.roots)
  <2>1. every = all /\ few = least
    BY <1>5
  <2>2. (CASE Request.policy = "Eager" -> Visible' = Visible \cup every
           [] Request.policy = "Lazy"  -> Visible' = Visible \cup few
           [] OTHER -> /\ Visible \cup few \subseteq Visible'
                       /\ Visible' \subseteq Visible \cup every)
    <3>. HIDE DEF every, few, all, least
    <3>1. CASE call.policy = "Eager"
      BY <1>3, <1>4, <1>5, <1>7, <2>1, <3>1
    <3>2. CASE call.policy = "Lazy"
      BY <1>3, <1>4, <1>5, <1>7, <2>1, <3>2
    <3>3. CASE call.policy = "Custom"
      BY <1>3, <1>4, <1>5, <1>7, <2>1, <3>3
    <3>. QED
      BY <1>6, <3>1, <3>2, <3>3
  <2>3. Request # Contract!NoRequest /\ Request' = Contract!NoRequest
    BY <1>4, <1>5
  <2>4. UNCHANGED Contract!rules
    BY <1>1 DEF rules, Contract!rules
  <2>. QED
    BY <2>2, <2>3, <2>4 DEF Contract!MarkWith
<1>. QED
  BY <1>8 DEF Contract!Next

(***************************************************************************)
(* Every call marks exactly what its policy promises for its roots, for    *)
(* every graph, however much was invalidated before, through cascades,     *)
(* cross-channel edges and cycles of every kind (tracker.rs, mark_with).   *)
(***************************************************************************)
THEOREM MarksImplementContract == Spec => ImplementsContract
<1>1. Init => Contract!Init
  <2>. SUFFICES ASSUME Init PROVE Contract!Init
    OBVIOUS
  <2>1. ~call.active /\ invalidated = {}
    BY DEF Init, NoCall
  <2>2. Visible = {} /\ Request = Contract!NoRequest
    BY <2>1, IdleMeans
  <2>. QED
    BY <2>2, SameReachability DEF Init, Contract!Init
<1>2. Inv /\ [Next]_vars => [Contract!Next]_(Contract!contractVars)
  <2>. SUFFICES ASSUME Inv, [Next]_vars PROVE [Contract!Next]_(Contract!contractVars)
    OBVIOUS
  <2>1. TypeOK
    BY DEF Inv
  <2>2. ASSUME Edit PROVE [Contract!Next]_(Contract!contractVars)
    BY <2>1, <2>2, EditRefines
  <2>3. ASSUME NEW roots \in SUBSET Pairs, NEW policy \in Policies, NEW traced \in BOOLEAN,
               roots # {}, BeginMark(roots, policy, traced)
        PROVE  Contract!Next
    BY <2>1, <2>3, BeginRefines
  <2>4. ASSUME CallStep PROVE [Contract!Next]_(Contract!contractVars)
    <3>1. call.active
      BY <2>4 DEF CallStep, Worklist, Walk, Return
    <3>2. CallTyped /\ RulesTyped /\ invalidated \in SUBSET Pairs
      BY <2>1, <3>1, TypedCall, TypedRules DEF TypeOK
    <3>3. ASSUME NEW entry \in call.worklist,
                 \/ SkipProcessed(entry) \/ SkipScanned(entry)
                 \/ EagerStep(entry) \/ PolicyStep(entry)
          PROVE  Kept
      BY <3>2, <3>3, SkipProcessedMeans, SkipScannedMeans, EagerStepMeans, PolicyStepMeans
    <3>4. ASSUME NEW p \in Pairs, Walk(p) PROVE Kept
      BY <3>2, <3>4, WalkMeans
    <3>5. ASSUME Return PROVE Contract!Next
      BY <3>5, ReturnRefines
    <3>. QED
      BY <2>4, <3>3, <3>4, <3>5, CallStepCases, KeptRefines
  <2>5. CASE UNCHANGED vars
    BY <2>5 DEF vars, rules, Contract!contractVars, Visible, Request
  <2>. QED
    BY <2>2, <2>3, <2>4, <2>5 DEF Next, Begin, MarkMany, MarkWithTrace
<1>. QED
  BY <1>1, <1>2, MarkInvariant, PTL DEF Spec, ImplementsContract, Contract!Spec
=============================================================================
