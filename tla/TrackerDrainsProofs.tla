------------------------ MODULE TrackerDrainsProofs -------------------------
(***************************************************************************)
(* Proofs about TrackerDrains, for all finite sets of keys and channels    *)
(* and for all rules a tracker can be given.                               *)
(*                                                                         *)
(* The invariant has a part for each promise.  All of them rest on the     *)
(* types, and on what a drain knows of its own progress: which keys it has *)
(* expanded, which pairs are still to be followed.                         *)
(***************************************************************************)
EXTENDS TrackerDrains, ReachabilityTheorems, FiniteSetTheorems

-----------------------------------------------------------------------------
(***************************************************************************)
(* Worklists.                                                              *)
(***************************************************************************)
\* One round more: what was reached, and what it leads to.
Further(D, reached) == reached \cup UNION {D[x] : x \in reached}

\* The rounds of a worklist, one by one (transitive_dependents_cross).
GoesFurther(f, D, roots, m) == f[0] = roots /\ \A n \in 1 .. m : f[n] = Further(D, f[n - 1])

\* That is what the rounds are (transitive_dependents_cross,
\* compute_allowed_dependencies).
LEMMA RoundByRound ==
  ASSUME NEW K, IsFiniteSet(K), NEW D \in [K -> SUBSET K], NEW roots \in SUBSET K
  PROVE  /\ Rounds(D, roots) \in [0 .. Cardinality(K) -> SUBSET K]
         /\ GoesFurther(Rounds(D, roots), D, roots, Cardinality(K))
<1>. DEFINE m == Cardinality(K)
            S == SUBSET K
            Loop(f) == f = [n \in 0 .. m |-> IF n = 0 THEN roots
                              ELSE LET before == f[n - 1]
                                   IN  before \cup UNION {D[x] : x \in before}]
            rounds == Rounds(D, roots)
            step == [n \in 1 .. m |-> [reached \in S |-> Further(D, reached)]]
<1>1. m \in Nat
  BY FS_CardinalityType
<1>2. rounds = CHOOSE f : Loop(f)
  <2>1. DOMAIN D = K
    OBVIOUS
  <2>. QED
    BY <2>1 DEF Rounds
<1>3. step \in [1 .. m -> [S -> S]]
  <2>1. ASSUME NEW reached \in S PROVE Further(D, reached) \in S
    BY DEF Further
  <2>. QED
    BY <2>1
<1>. HIDE DEF m
<1>4. PICK f \in [0 .. m -> S] : GoesBy(f, roots, m, step)
  <2>1. roots \in S
    OBVIOUS
  <2>. HIDE DEF step, S
  <2>. QED
    BY <1>1, <1>3, <2>1, TurnsRun
<1>5. ASSUME NEW n \in 1 .. m PROVE f[n] = Further(D, f[n - 1])
  <2>1. n - 1 \in 0 .. m
    BY <1>1
  <2>2. f[n - 1] \in S /\ f[n] = step[n][f[n - 1]]
    BY <1>4, <2>1 DEF GoesBy
  <2>. QED
    BY <2>2
<1>6. Loop(f)
  <2>1. ASSUME NEW n \in 0 .. m
        PROVE  f[n] = IF n = 0 THEN roots ELSE Further(D, f[n - 1])
    <3>1. CASE n = 0
      BY <1>4, <3>1 DEF GoesBy
    <3>2. CASE n # 0
      <4>1. n \in 1 .. m
        BY <1>1, <3>2
      <4>. QED
        BY <1>5, <3>2, <4>1
    <3>. QED
      BY <3>1, <3>2
  <2>. QED
    BY <1>4, <2>1 DEF Further
<1>7. Loop(rounds)
  <2>. HIDE DEF Loop
  <2>. QED
    BY <1>2, <1>6
<1>8. ASSUME NEW n \in 1 .. m PROVE rounds[n] = Further(D, rounds[n - 1])
  <2>1. n \in 0 .. m /\ n # 0
    BY <1>1
  <2>. QED
    BY <1>7, <2>1 DEF Further
<1>9. rounds[0] = roots
  <2>1. 0 \in 0 .. m
    BY <1>1
  <2>. QED
    BY <1>7, <2>1
<1>. HIDE DEF Loop
<1>10. GoesFurther(rounds, D, roots, m)
  <2>. HIDE DEF rounds
  <2>. QED
    BY <1>8, <1>9 DEF GoesFurther
<1>11. rounds \in [0 .. m -> SUBSET K]
  <2>1. DOMAIN rounds = 0 .. m /\ rounds = [n \in 0 .. m |-> rounds[n]]
    BY <1>7 DEF Loop
  <2>. HIDE DEF rounds
  <2>. DEFINE T == {n \in Nat : n <= m => rounds[n] \in SUBSET K}
  <2>2. 0 \in T
    BY <1>9
  <2>3. ASSUME NEW n \in T PROVE n + 1 \in T
    <3>. SUFFICES ASSUME n + 1 <= m PROVE rounds[n + 1] \in SUBSET K
      OBVIOUS
    <3>1. n + 1 \in 1 .. m /\ n + 1 - 1 = n /\ rounds[n] \in SUBSET K
      BY <1>1
    <3>2. rounds[n + 1] = Further(D, rounds[n])
      BY <1>8, <3>1
    <3>. QED
      BY <3>1, <3>2 DEF Further
  <2>4. T = Nat
    <3>1. T \in SUBSET Nat
      OBVIOUS
    <3>. HIDE DEF T
    <3>. QED
      BY <2>2, <2>3, <3>1, EveryTurn
  <2>. QED
    BY <1>1, <2>1, <2>4
<1>. QED
  BY <1>10, <1>11 DEF m

\* So many rounds reach all that can be reached, and nothing else.
LEMMA ClosureReaches ==
  ASSUME NEW K, IsFiniteSet(K), NEW D \in [K -> SUBSET K], NEW roots \in SUBSET K
  PROVE  Closure(D, roots) = ReachableFrom(D, roots)
<1>. DEFINE m == Cardinality(K)
            rounds == Rounds(D, roots)
            all == ReachableFrom(D, roots)
<1>1. m \in Nat
  BY FS_CardinalityType
<1>2. rounds \in [0 .. m -> SUBSET K] /\ GoesFurther(rounds, D, roots, m)
  BY RoundByRound
<1>3. Closure(D, roots) = rounds[m]
  BY DEF Closure
<1>4. all \in SUBSET K /\ roots \subseteq all /\ \A x \in all : D[x] \subseteq all
  BY ReachableClosed DEF ClosedUnder
<1>5. \A b \in all : \E a \in roots : Reaches(D, a, b)
  BY DEF ReachableFrom
<1>. HIDE DEF rounds, all
<1>6. rounds[0] = roots
  BY <1>2 DEF GoesFurther
<1>7. ASSUME NEW n \in Nat, n + 1 <= m
      PROVE  /\ rounds[n] \in SUBSET K
             /\ rounds[n + 1] = rounds[n] \cup UNION {D[x] : x \in rounds[n]}
  <2>1. n + 1 \in 1 .. m /\ n + 1 - 1 = n /\ n \in 0 .. m
    BY <1>1, <1>7 DEF m
  <2>. QED
    BY <1>2, <2>1 DEF GoesFurther, Further
<1>. HIDE DEF m
<1>8. rounds[m] \subseteq all
  <2>. DEFINE T == {n \in Nat : n <= m => rounds[n] \subseteq all}
  <2>1. 0 \in T
    BY <1>4, <1>6
  <2>2. ASSUME NEW n \in T PROVE n + 1 \in T
    BY <1>1, <1>4, <1>7
  <2>3. T = Nat
    <3>1. T \in SUBSET Nat
      OBVIOUS
    <3>. HIDE DEF T
    <3>. QED
      BY <2>1, <2>2, <3>1, EveryTurn
  <2>. QED
    BY <1>1, <2>3
<1>9. ASSUME NEW b \in all PROVE b \in rounds[m]
  <2>1. PICK a \in roots : Reaches(D, a, b)
    BY <1>5
  <2>2. a \in K /\ b \in K
    BY <1>4
  <2>3. PICK n \in 1 .. m : \E s \in [1 .. n -> K] : LeadsBy(D, s, n, a, b)
    BY <2>1, <2>2, ShortChain DEF m
  <2>4. PICK s \in [1 .. n -> K] : LeadsBy(D, s, n, a, b)
    BY <2>3
  <2>5. n \in Nat /\ n >= 1 /\ n <= m /\ s[1] = a /\ s[n] = b
    BY <1>1, <2>4 DEF LeadsBy
  <2>6. ASSUME NEW i \in 1 .. n - 1 PROVE s[i + 1] \in D[s[i]]
    BY <2>4 DEF LeadsBy
  <2>. DEFINE T == {i \in Nat : /\ i <= m => a \in rounds[i]
                                /\ i + 1 <= n => s[i + 1] \in rounds[i]
                                /\ i >= n - 1 /\ i <= m => b \in rounds[i]}
  <2>7. 0 \in T
    BY <1>6, <2>5
  <2>8. ASSUME NEW i \in T PROVE i + 1 \in T
    <3>1. ASSUME i + 1 <= m PROVE a \in rounds[i + 1]
      <4>1. i \in Nat /\ i <= m /\ a \in rounds[i]
        BY <1>1, <2>8, <3>1
      <4>. QED
        BY <1>7, <3>1, <4>1
    <3>2. ASSUME i + 1 + 1 <= n PROVE s[i + 1 + 1] \in rounds[i + 1]
      <4>1. i + 1 \in 1 .. n - 1 /\ i + 1 <= m /\ i + 1 <= n
        BY <1>1, <2>5, <3>2
      <4>2. s[i + 1] \in rounds[i] /\ s[i + 1 + 1] \in D[s[i + 1]]
        BY <2>6, <4>1
      <4>. QED
        BY <1>7, <4>1, <4>2
    <3>3. ASSUME i + 1 >= n - 1, i + 1 <= m PROVE b \in rounds[i + 1]
      <4>1. CASE i >= n - 1
        <5>1. b \in rounds[i]
          BY <1>1, <3>3, <4>1
        <5>. QED
          BY <1>7, <3>3, <5>1
      <4>2. CASE ~(i >= n - 1)
        <5>1. i + 1 + 1 <= n /\ i + 1 + 1 = n
          BY <2>5, <3>3, <4>2
        <5>. QED
          BY <2>5, <3>2, <5>1
      <4>. QED
        BY <4>1, <4>2
    <3>. QED
      BY <3>1, <3>2, <3>3
  <2>9. T = Nat
    <3>1. T \in SUBSET Nat
      OBVIOUS
    <3>. HIDE DEF T
    <3>. QED
      BY <2>7, <2>8, <3>1, EveryTurn
  <2>10. \A i \in Nat : i >= n - 1 /\ i <= m => b \in rounds[i]
    BY <2>9
  <2>11. m >= n - 1 /\ m <= m
    BY <1>1, <2>5
  <2>. QED
    BY <1>1, <2>10, <2>11
<1>. QED
  BY <1>3, <1>8, <1>9 DEF all

-----------------------------------------------------------------------------
(***************************************************************************)
(* Types.                                                                  *)
(***************************************************************************)
RulesTyped ==
  /\ dependencies \in [Channels -> [Keys -> SUBSET Keys]]
  /\ cascadesFrom \in [Channels -> SUBSET Channels]
  /\ crossDependents \in [Pairs -> SUBSET Pairs]
  /\ \A c \in Channels : c \notin cascadesFrom[c]

DrainOrders == {"AnyOrder", "Deterministic"}

\* What a builder asks for.
Requests ==
  [channel : Channels, affected : BOOLEAN, within : SUBSET Keys, retain : BOOLEAN,
   follow : BOOLEAN, trace : BOOLEAN, order : DrainOrders]

\* What a recorder holds: the pairs that were blamed, for each that was reported.
Causes == UNION {[S -> SUBSET Pairs] : S \in SUBSET Pairs}

\* A drain that run is at work on, and one that is iterated over.
Selecting ==
  [channel : Channels, affected : BOOLEAN, within : SUBSET Keys, retain : BOOLEAN,
   follow : BOOLEAN, trace : BOOLEAN, order : DrainOrders, phase : {"collect", "follow"},
   keys : SUBSET Keys, stack : SUBSET Keys, work : SUBSET (Pairs \X Pairs),
   seen : SUBSET Pairs, retained : SUBSET Pairs, causes : Causes]

Iterating ==
  [phase : {"yield"}, channel : Channels, order : DrainOrders, keys : SUBSET Keys,
   held : SUBSET Keys, careful : BOOLEAN, whole : BOOLEAN]

Passes ==
  [open : {TRUE}, order : Seq(Channels), done : SUBSET Channels, stalled : SUBSET Channels]

Types ==
  /\ RulesTyped
  /\ invalidated \in SUBSET Pairs
  /\ settled \in SUBSET Channels
  /\ drain = NoDrain \/ drain \in Selecting \/ drain \in Iterating
  /\ pass = NoPass \/ pass \in Passes
  /\ pass \in Passes /\ drain # NoDrain => pass.order # <<>>

\* Pairs of one channel.
LEMMA InMembers ==
  ASSUME NEW c \in Channels, NEW S \in SUBSET Keys
  PROVE  /\ In(c, S) \in SUBSET Pairs
         /\ \A p \in Pairs : p \in In(c, S) <=> p[1] \in S /\ p[2] = c
         /\ \A k : <<k, c>> \in In(c, S) <=> k \in S
  BY DEF In, Pairs

\* A pair is its key and its channel.
LEMMA PairParts ==
  ASSUME NEW p \in Pairs
  PROVE  p[1] \in Keys /\ p[2] \in Channels /\ p = <<p[1], p[2]>>
  BY DEF Pairs

\* There are finitely many pairs.
LEMMA PairsFinite == IsFiniteSet(Pairs)
  BY TrackerDrainsAssumption, FS_Product DEF Pairs

\* Successors are pairs (for_each_cross_successor).
LEMMA SuccessorsAre ==
  ASSUME RulesTyped, NEW p \in Pairs
  PROVE  /\ CrossSuccessors(p) \in SUBSET Pairs
         /\ \A q \in CrossSuccessors(p) :
              q[2] \in cascadesFrom[p[2]] \/ q \in crossDependents[p]
<1>1. crossDependents[p] \in SUBSET Pairs /\ cascadesFrom[p[2]] \in SUBSET Channels
  BY PairParts DEF RulesTyped
<1>2. ASSUME NEW c \in cascadesFrom[p[2]] PROVE <<p[1], c>> \in Pairs /\ <<p[1], c>>[2] = c
  BY <1>1, PairParts DEF Pairs
<1>. QED
  BY <1>1, <1>2 DEF CrossSuccessors

\* The flow is a relation on pairs, made of what depends on a key in its channel
\* and of its successors.
LEMMA FlowIs ==
  ASSUME RulesTyped
  PROVE  /\ Flow \in [Pairs -> SUBSET Pairs]
         /\ \A p \in Pairs : Flow[p] = In(p[2], Dependents(p[1], p[2])) \cup CrossSuccessors(p)
         /\ \A k \in Keys, c \in Channels : Dependents(k, c) \in SUBSET Keys
<1>1. \A k \in Keys, c \in Channels : Dependents(k, c) \in SUBSET Keys
  BY DEF Dependents
<1>2. ASSUME NEW p \in Pairs
      PROVE  In(p[2], Dependents(p[1], p[2])) \cup CrossSuccessors(p) \in SUBSET Pairs
  <2>1. Dependents(p[1], p[2]) \in SUBSET Keys
    BY <1>1, PairParts
  <2>. QED
    BY <2>1, PairParts, InMembers, SuccessorsAre
<1>. QED
  BY <1>1, <1>2 DEF Flow

\* What the drain in progress holds.
LEMMA HeldIs ==
  /\ drain = NoDrain => Held = {}
  /\ drain \in Selecting => Held = In(drain.channel, drain.keys)
  /\ drain \in Iterating => Held = In(drain.channel, drain.held)
<1>1. ASSUME drain = NoDrain PROVE Held = {}
  BY <1>1 DEF Held, NoDrain
<1>2. ASSUME drain \in Selecting PROVE Held = In(drain.channel, drain.keys)
  <2>1. drain.phase \in {"collect", "follow"}
    BY <1>2 DEF Selecting
  <2>. QED
    BY <2>1 DEF Held
<1>3. ASSUME drain \in Iterating PROVE Held = In(drain.channel, drain.held)
  <2>1. drain.phase = "yield"
    BY <1>3 DEF Iterating
  <2>. QED
    BY <2>1 DEF Held
<1>. QED
  BY <1>1, <1>2, <1>3

\* The phase tells which of the three a drain is.
LEMMA PhaseTells ==
  ASSUME Types
  PROVE  /\ drain.phase = "none" <=> drain = NoDrain
         /\ drain.phase \in {"collect", "follow"} <=> drain \in Selecting
         /\ drain.phase = "yield" <=> drain \in Iterating
         /\ Open <=> drain # NoDrain
         /\ pass.open <=> pass \in Passes
         /\ ~pass.open <=> pass = NoPass
<1>1. NoDrain.phase = "none" /\ NoPass.open = FALSE
  BY DEF NoDrain, NoPass
<1>2. drain \in Selecting => drain.phase \in {"collect", "follow"}
  BY DEF Selecting
<1>3. drain \in Iterating => drain.phase = "yield"
  BY DEF Iterating
<1>4. pass \in Passes => pass.open = TRUE
  BY DEF Passes
<1>. QED
  BY <1>1, <1>2, <1>3, <1>4 DEF Types, Open

\* The channel leads somewhere (InvalidationTracker::drain).
Crosses(c) == cascadesFrom[c] # {} \/ HasSourcesIn(c)

\* A builder for channel c, which minds the rules if they matter.
WellBuilt(b, c) == b \in Requests /\ b.channel = c /\ b.follow = Crosses(c)

\* All builders of a channel are well built, and the drains of a pass are of
\* the whole channel (DrainBuilder).
LEMMA BuildersMean ==
  ASSUME RulesTyped, NEW c \in Channels
  PROVE  /\ \A b \in Builders(c) : WellBuilt(b, c)
         /\ WellBuilt(DrainSorted(c), c)
         /\ DrainSorted(c).affected = FALSE /\ DrainSorted(c).within = Keys
<1>1. ASSUME NEW k \in Keys PROVE AllowedDependencies(k, c) \in SUBSET Keys
  <2>1. dependencies[c] \in [Keys -> SUBSET Keys] /\ IsFiniteSet(Keys) /\ {k} \in SUBSET Keys
    BY TrackerDrainsAssumption DEF RulesTyped
  <2>2. Closure(dependencies[c], {k}) = ReachableFrom(dependencies[c], {k})
    BY <2>1, ClosureReaches
  <2>3. ReachableFrom(dependencies[c], {k}) \in SUBSET Keys
    BY <2>1, ReachableClosed
  <2>. QED
    BY <2>2, <2>3 DEF AllowedDependencies
<1>2. WellBuilt(Drain(c), c) /\ Drain(c).within = Keys
  <2>1. NewBuilder(c) \in Requests
    BY DEF NewBuilder, Requests, DrainOrders
  <2>2. WithRules(NewBuilder(c)) \in Requests /\ WithRules(NewBuilder(c)).follow = TRUE
    BY DEF NewBuilder, WithRules, Requests, DrainOrders
  <2>3. /\ NewBuilder(c).follow = FALSE /\ NewBuilder(c).channel = c /\ NewBuilder(c).within = Keys
        /\ WithRules(NewBuilder(c)).channel = c /\ WithRules(NewBuilder(c)).within = Keys
    BY DEF NewBuilder, WithRules
  <2>4. Crosses(c) \in BOOLEAN
    BY DEF Crosses
  <2>. QED
    BY <2>1, <2>2, <2>3, <2>4 DEF Drain, Crosses, WellBuilt
<1>3. ASSUME NEW b, WellBuilt(b, c)
      PROVE  /\ WellBuilt(InvalidatedOnly(b), c) /\ WellBuilt(Affected(b), c)
             /\ WellBuilt(RetainOutOfScope(b), c) /\ WellBuilt(Trace(b), c)
             /\ WellBuilt(Deterministic(b), c)
             /\ \A keys \in SUBSET Keys : WellBuilt(WithinKeys(b, keys), c)
             /\ \A k \in Keys : WellBuilt(WithinDependenciesOf(b, k), c)
  <2>1. b \in Requests /\ b.channel = c /\ b.follow = Crosses(c)
    BY <1>3 DEF WellBuilt
  <2>2. WellBuilt(InvalidatedOnly(b), c) /\ WellBuilt(Affected(b), c)
    BY <2>1 DEF WellBuilt, Requests, InvalidatedOnly, Affected
  <2>3. WellBuilt(RetainOutOfScope(b), c) /\ WellBuilt(Trace(b), c)
    BY <2>1 DEF WellBuilt, Requests, RetainOutOfScope, Trace
  <2>4. WellBuilt(Deterministic(b), c)
    BY <2>1 DEF WellBuilt, Requests, Deterministic, DrainOrders
  <2>5. ASSUME NEW keys \in SUBSET Keys PROVE WellBuilt(WithinKeys(b, keys), c)
    BY <2>1 DEF WellBuilt, Requests, WithinKeys
  <2>6. ASSUME NEW k \in Keys PROVE WellBuilt(WithinDependenciesOf(b, k), c)
    BY <1>1, <2>1 DEF WellBuilt, Requests, WithinDependenciesOf
  <2>. QED
    BY <2>2, <2>3, <2>4, <2>5, <2>6
<1>4. /\ WellBuilt(DrainSorted(c), c) /\ WellBuilt(DrainAffectedSorted(c), c)
      /\ WellBuilt(DrainAffectedSortedWithTrace(c), c)
      /\ WellBuilt(DrainSortedDeterministic(c), c)
      /\ WellBuilt(DrainAffectedSortedDeterministic(c), c)
  <2>1. /\ WellBuilt(InvalidatedOnly(Drain(c)), c) /\ WellBuilt(Affected(Drain(c)), c)
    BY <1>2, <1>3
  <2>2. /\ WellBuilt(Trace(Affected(Drain(c))), c)
        /\ WellBuilt(Deterministic(InvalidatedOnly(Drain(c))), c)
        /\ WellBuilt(Deterministic(Affected(Drain(c))), c)
    BY <2>1, <1>3
  <2>. QED
    BY <2>1, <2>2 DEF DrainSorted, DrainAffectedSorted, DrainAffectedSortedWithTrace,
       DrainSortedDeterministic, DrainAffectedSortedDeterministic
<1>5. /\ DrainSorted(c).affected = FALSE /\ DrainSorted(c).within = Keys
  BY <1>2 DEF DrainSorted, InvalidatedOnly, WellBuilt, Requests
<1>6. ASSUME NEW b \in Builders(c) PROVE WellBuilt(b, c)
  <2>. DEFINE affected == {WithinKeys(DrainAffectedSorted(c), keys) : keys \in SUBSET Keys \ {{}}}
                    \cup {WithinDependenciesOf(DrainAffectedSorted(c), k) : k \in Keys}
  <2>1. ASSUME NEW a \in affected PROVE WellBuilt(a, c)
    BY <1>3, <1>4
  <2>2. ASSUME NEW a \in affected PROVE WellBuilt(Trace(RetainOutOfScope(a)), c)
    <3>1. WellBuilt(RetainOutOfScope(a), c)
      BY <1>3, <2>1
    <3>. QED
      BY <1>3, <3>1
  <2>3. ASSUME NEW k \in Keys PROVE WellBuilt(WithinKeys(DrainSorted(c), {k}), c)
    BY <1>3, <1>4
  <2>4. b \in {DrainSorted(c), DrainSortedDeterministic(c),
               DrainAffectedSortedDeterministic(c), DrainAffectedSortedWithTrace(c)}
                \cup {WithinKeys(DrainSorted(c), {k}) : k \in Keys}
                \cup affected
                \cup {Trace(RetainOutOfScope(a)) : a \in affected}
    BY DEF Builders
  <2>. HIDE DEF affected
  <2>. QED
    BY <1>4, <2>1, <2>2, <2>3, <2>4
<1>. QED
  BY <1>4, <1>5, <1>6

\* The same after a step.
LEMMA HeldIsThen ==
  /\ drain' = NoDrain => Held' = {}
  /\ drain' \in Selecting => Held' = In(drain'.channel, drain'.keys)
  /\ drain' \in Iterating => Held' = In(drain'.channel, drain'.held)
<1>1. ASSUME drain' = NoDrain PROVE Held' = {}
  BY <1>1 DEF Held, NoDrain
<1>2. ASSUME drain' \in Selecting PROVE Held' = In(drain'.channel, drain'.keys)
  <2>1. drain'.phase \in {"collect", "follow"}
    BY <1>2 DEF Selecting
  <2>. QED
    BY <2>1 DEF Held, In
<1>3. ASSUME drain' \in Iterating PROVE Held' = In(drain'.channel, drain'.held)
  <2>1. drain'.phase = "yield"
    BY <1>3 DEF Iterating
  <2>. QED
    BY <2>1 DEF Held, In
<1>. QED
  BY <1>1, <1>2, <1>3

-----------------------------------------------------------------------------
(***************************************************************************)
(* What the steps do, field by field.                                      *)
(***************************************************************************)
\* The rules stay, and so does all that follows from them.
SameRules ==
  /\ UNCHANGED rules
  /\ \A p : CrossSuccessors(p)' = CrossSuccessors(p)
  /\ \A k, c : Dependents(k, c)' = Dependents(k, c)
  /\ \A c : FeedsInto(c)' = FeedsInto(c)
  /\ \A c : Crosses(c)' = Crosses(c)
  /\ Flow' = Flow
  /\ RulesTyped' <=> RulesTyped

\* Where rules stay, so does all that is read off them: a drain borrows the
\* tracker's rules (CrossRules).
LEMMA RulesStay ==
  ASSUME UNCHANGED rules
  PROVE  SameRules
<1>1. /\ dependencies' = dependencies /\ cascadesFrom' = cascadesFrom
      /\ crossDependents' = crossDependents
  BY DEF rules
<1>2. \A p : CrossSuccessors(p)' = CrossSuccessors(p)
  BY <1>1 DEF CrossSuccessors
<1>3. \A k, c : Dependents(k, c)' = Dependents(k, c)
  BY <1>1 DEF Dependents
<1>4. \A c : FeedsInto(c)' = FeedsInto(c)
  BY <1>1, <1>2 DEF FeedsInto
<1>5. \A c : Crosses(c)' = Crosses(c)
  BY <1>1 DEF Crosses, HasSourcesIn
<1>6. Flow' = Flow
  BY <1>1, <1>2, <1>3 DEF Flow
<1>7. RulesTyped' <=> RulesTyped
  BY <1>1 DEF RulesTyped
<1>. QED
  BY <1>1, <1>2, <1>3, <1>4, <1>5, <1>6, <1>7 DEF SameRules

\* The drain is still what the builder asked for.
SameRequest ==
  /\ drain'.channel = drain.channel /\ drain'.affected = drain.affected
  /\ drain'.within = drain.within /\ drain'.retain = drain.retain
  /\ drain'.follow = drain.follow /\ drain'.trace = drain.trace
  /\ drain'.order = drain.order

\* TakeKeys: all that is marked in the scope, and nothing else yet.
Taken(b, c) ==
  /\ WellBuilt(b, c) /\ drain = NoDrain /\ drain' \in Selecting
  /\ drain'.channel = c /\ drain'.affected = b.affected /\ drain'.within = b.within
  /\ drain'.retain = b.retain /\ drain'.follow = Crosses(c)
  /\ drain'.trace = (b.trace /\ b.affected)
  /\ drain'.phase = (IF b.affected THEN "collect" ELSE "follow")
  /\ drain'.keys = {k \in b.within : <<k, c>> \in invalidated}
  /\ drain'.stack = (IF b.affected THEN drain'.keys ELSE {})
  /\ drain'.work = {} /\ drain'.seen = {} /\ drain'.retained = {}
  /\ DOMAIN drain'.causes = (IF drain'.trace THEN In(c, drain'.keys) ELSE {})
  /\ \A p \in DOMAIN drain'.causes : drain'.causes[p] = {}
  /\ invalidated' = invalidated \ In(c, drain'.keys)
  /\ UNCHANGED <<pass, settled>> /\ SameRules

\* TakeKeys is what Taken says (DrainBuilder::take_roots).
LEMMA TakenIs ==
  ASSUME Types, drain = NoDrain, NEW c \in Channels, NEW b, WellBuilt(b, c), TakeKeys(b)
  PROVE  Taken(b, c)
<1>. DEFINE roots == TakenRoots(b)
            noted == b.trace /\ b.affected
            causes == [p \in IF noted THEN In(b.channel, roots) ELSE {} |-> {}]
            phase == IF b.affected THEN "collect" ELSE "follow"
            stack == IF b.affected THEN roots ELSE {}
<1>1. b \in Requests /\ b.channel = c /\ b.follow = Crosses(c)
  BY DEF WellBuilt
<1>2. roots = {k \in b.within : <<k, c>> \in invalidated} /\ roots \in SUBSET Keys
  BY <1>1 DEF TakenRoots, Requests
<1>3. causes \in Causes
  <2>1. In(b.channel, roots) \in SUBSET Pairs
    BY <1>1, <1>2, InMembers
  <2>. DEFINE S == IF noted THEN In(b.channel, roots) ELSE {}
  <2>2. S \in SUBSET Pairs
    BY <2>1
  <2>. HIDE DEF S
  <2>3. [p \in S |-> {}] \in [S -> SUBSET Pairs]
    OBVIOUS
  <2>4. [p \in S |-> {}] \in Causes
    BY <2>2, <2>3 DEF Causes
  <2>. QED
    BY <2>4 DEF S
<1>4. phase \in {"collect", "follow"} /\ stack \in SUBSET Keys /\ noted \in BOOLEAN
  BY <1>2
<1>5. /\ drain' = [channel |-> b.channel, affected |-> b.affected, within |-> b.within,
                   retain |-> b.retain, follow |-> b.follow, trace |-> noted,
                   order |-> b.order, phase |-> phase, keys |-> roots, stack |-> stack,
                   work |-> {}, seen |-> {}, retained |-> {}, causes |-> causes]
      /\ invalidated' = invalidated \ In(b.channel, roots)
      /\ UNCHANGED <<rules, pass, settled>>
  BY DEF TakeKeys
<1>6. DOMAIN causes = (IF noted THEN In(b.channel, roots) ELSE {})
      /\ \A p \in DOMAIN causes : causes[p] = {}
  OBVIOUS
<1>7. SameRules
  BY <1>5, RulesStay
<1>. HIDE DEF roots, noted, causes, phase, stack
<1>8. drain' \in Selecting
  BY <1>1, <1>2, <1>3, <1>4, <1>5 DEF Selecting, Requests
<1>. QED
  BY <1>1, <1>2, <1>5, <1>6, <1>7, <1>8 DEF Taken, noted, phase, stack

\* What recording some pairs makes of the causes: those that were there stay
\* (OneParentRecorder::record).
Noted(after, before, pairs, source) ==
  /\ ~drain.trace => after = before
  /\ drain.trace => DOMAIN after = DOMAIN before \cup pairs
  /\ \A p \in DOMAIN before : after[p] = before[p]
  /\ drain.trace => \A p \in pairs \ DOMAIN before : after[p] = source

\* Recording notes a source for the pairs that have none, and keeps the causes
\* that were there (OneParentRecorder::record).
LEMMA RecordedIs ==
  ASSUME NEW causes \in Causes, NEW pairs \in SUBSET Pairs, NEW source \in SUBSET Pairs
  PROVE  /\ Recorded(causes, pairs, source) \in Causes
         /\ Noted(Recorded(causes, pairs, source), causes, pairs, source)
<1>. DEFINE more == [p \in DOMAIN causes \cup pairs |->
                       IF p \in DOMAIN causes THEN causes[p] ELSE source]
<1>1. DOMAIN causes \in SUBSET Pairs /\ \A p \in DOMAIN causes : causes[p] \in SUBSET Pairs
  <2>1. PICK S \in SUBSET Pairs : causes \in [S -> SUBSET Pairs]
    BY DEF Causes
  <2>. QED
    BY <2>1
<1>2. more \in [DOMAIN causes \cup pairs -> SUBSET Pairs]
  BY <1>1
<1>3. more \in Causes
  <2>. HIDE DEF more
  <2>1. DOMAIN causes \cup pairs \in SUBSET Pairs
    BY <1>1
  <2>. QED
    BY <1>2, <2>1 DEF Causes
<1>4. CASE drain.trace
  <2>1. Recorded(causes, pairs, source) = more
    BY <1>4 DEF Recorded
  <2>. QED
    BY <1>3, <1>4, <2>1 DEF Noted
<1>5. CASE ~drain.trace
  BY <1>5 DEF Recorded, Noted
<1>. QED
  BY <1>4, <1>5

\* Collect: the dependents of k in the scope that the drain does not have yet.
Found(k) == (Dependents(k, drain.channel) \cap drain.within) \ drain.keys

Collected(k) ==
  /\ drain \in Selecting /\ drain' \in Selecting /\ SameRequest
  /\ drain.phase = "collect" /\ drain'.phase = "collect" /\ k \in drain.stack
  /\ Found(k) \in SUBSET Keys
  /\ drain'.keys = drain.keys \cup Found(k)
  /\ drain'.stack = (drain.stack \ {k}) \cup Found(k)
  /\ drain'.causes = Recorded(drain.causes, In(drain.channel, Found(k)), {<<k, drain.channel>>})
  /\ drain'.work = drain.work /\ drain'.seen = drain.seen /\ drain'.retained = drain.retained
  /\ UNCHANGED <<invalidated, pass, settled>> /\ SameRules

\* Collect is what Collected says (DrainBuilder::collect_affected).
LEMMA CollectedIs ==
  ASSUME Types, NEW k \in Keys, Collect(k)
  PROVE  Collected(k)
<1>. DEFINE new == Found(k)
            causes == Recorded(drain.causes, In(drain.channel, new), {<<k, drain.channel>>})
<1>1. /\ drain.phase = "collect" /\ k \in drain.stack
      /\ drain' = [drain EXCEPT !.keys = @ \cup new, !.stack = (@ \ {k}) \cup new,
                                !.causes = causes]
      /\ UNCHANGED <<rules, invalidated, pass, settled>>
  BY DEF Collect, Found
<1>2. drain \in Selecting
  BY <1>1, PhaseTells
<1>3. /\ drain.channel \in Channels /\ drain.keys \in SUBSET Keys /\ drain.stack \in SUBSET Keys
      /\ drain.causes \in Causes /\ drain.within \in SUBSET Keys
  BY <1>2 DEF Selecting
<1>4. new \in SUBSET Keys
  BY <1>3 DEF Found
<1>5. causes \in Causes
  <2>. DEFINE pairs == In(drain.channel, new)
              source == {<<k, drain.channel>>}
              before == drain.causes
  <2>1. pairs \in SUBSET Pairs /\ source \in SUBSET Pairs /\ before \in Causes
    BY <1>3, <1>4, InMembers DEF Pairs
  <2>. HIDE DEF pairs, source, before
  <2>2. Recorded(before, pairs, source) \in Causes
    BY <2>1, RecordedIs
  <2>. QED
    BY <2>2 DEF pairs, source, before
<1>6. SameRules
  BY <1>1, RulesStay
<1>. HIDE DEF causes, new
<1>7. drain' \in Selecting
  BY <1>1, <1>2, <1>4, <1>5 DEF Selecting
<1>8. SameRequest
  BY <1>1, <1>2 DEF SameRequest, Selecting
<1>9. /\ drain'.phase = "collect" /\ drain'.keys = drain.keys \cup new
      /\ drain'.stack = (drain.stack \ {k}) \cup new /\ drain'.causes = causes
      /\ drain'.work = drain.work /\ drain'.seen = drain.seen
      /\ drain'.retained = drain.retained
  BY <1>1, <1>2 DEF Selecting
<1>. QED
  BY <1>1, <1>2, <1>4, <1>6, <1>7, <1>8, <1>9 DEF Collected, new, causes

\* Retain: what depends on the keys and lies outside the scope, if asked for.
Beyond == IF drain.retain THEN In(drain.channel, OutOfScopeDependents) ELSE {}

Retained ==
  /\ drain \in Selecting /\ drain' \in Selecting /\ SameRequest
  /\ drain.phase = "collect" /\ drain'.phase = "follow" /\ drain.stack = {}
  /\ Beyond \in SUBSET Pairs
  /\ drain'.keys = drain.keys /\ drain'.stack = drain.stack /\ drain'.causes = drain.causes
  /\ drain'.seen = drain.seen
  /\ drain'.retained = Beyond
  /\ drain'.work = (IF drain.follow THEN UNION {PushSuccessors(p) : p \in Held \cup Beyond}
                    ELSE {})
  /\ invalidated' = invalidated \cup Beyond
  /\ UNCHANGED <<pass, settled>> /\ SameRules

\* Retain is what Retained says (retain_out_of_scope_dependents).
LEMMA RetainedIs ==
  ASSUME Types, Retain
  PROVE  Retained
<1>. DEFINE work == IF drain.follow THEN UNION {PushSuccessors(p) : p \in Held \cup Beyond}
                    ELSE {}
<1>1. /\ drain.phase = "collect" /\ drain.stack = {}
      /\ invalidated' = invalidated \cup Beyond
      /\ drain' = [drain EXCEPT !.retained = Beyond, !.work = work, !.phase = "follow"]
      /\ UNCHANGED <<rules, pass, settled>>
  BY DEF Retain, Beyond
<1>2. drain \in Selecting
  BY <1>1, PhaseTells
<1>3. drain.channel \in Channels /\ drain.keys \in SUBSET Keys
  BY <1>2 DEF Selecting
<1>4. Beyond \in SUBSET Pairs
  <2>1. OutOfScopeDependents \in SUBSET Keys
    BY DEF OutOfScopeDependents, Dependents
  <2>. QED
    BY <1>3, <2>1, InMembers DEF Beyond
<1>5. Held \cup Beyond \in SUBSET Pairs
  BY <1>2, <1>3, <1>4, HeldIs, InMembers
<1>6. work \in SUBSET (Pairs \X Pairs)
  <2>1. ASSUME NEW p \in Held \cup Beyond PROVE PushSuccessors(p) \in SUBSET (Pairs \X Pairs)
    <3>1. p \in Pairs /\ RulesTyped
      BY <1>5 DEF Types
    <3>2. CrossSuccessors(p) \in SUBSET Pairs
      BY <3>1, SuccessorsAre
    <3>. QED
      BY <3>1, <3>2 DEF PushSuccessors
  <2>. QED
    BY <2>1
<1>7. SameRules
  BY <1>1, RulesStay
<1>. HIDE DEF work
<1>8. drain' \in Selecting
  BY <1>1, <1>2, <1>4, <1>6 DEF Selecting
<1>9. SameRequest
  BY <1>1, <1>2 DEF SameRequest, Selecting
<1>10. /\ drain'.phase = "follow" /\ drain'.keys = drain.keys /\ drain'.stack = drain.stack
       /\ drain'.causes = drain.causes /\ drain'.seen = drain.seen
       /\ drain'.retained = Beyond /\ drain'.work = work
  BY <1>1, <1>2 DEF Selecting
<1>. QED
  BY <1>1, <1>2, <1>4, <1>7, <1>8, <1>9, <1>10 DEF Retained, work

\* Follow: a pair that is neither held nor was met before is marked, and leads
\* further.
Fresh(p) == p \notin drain.seen /\ p \notin Held

Followed(item) ==
  /\ drain \in Selecting /\ drain' \in Selecting /\ SameRequest
  /\ drain.phase = "follow" /\ drain'.phase = "follow" /\ item \in drain.work
  /\ item[1] \in Pairs /\ item[2] \in Pairs /\ item = <<item[1], item[2]>>
  /\ drain'.keys = drain.keys /\ drain'.stack = drain.stack /\ drain'.retained = drain.retained
  /\ drain'.seen = drain.seen \cup {item[1]}
  /\ drain'.work = (drain.work \ {item}) \cup (IF Fresh(item[1]) THEN PushSuccessors(item[1]) ELSE {})
  /\ drain'.causes = (IF Fresh(item[1]) THEN Recorded(drain.causes, {item[1]}, {item[2]})
                      ELSE drain.causes)
  /\ invalidated' = (IF Fresh(item[1]) THEN invalidated \cup {item[1]} ELSE invalidated)
  /\ UNCHANGED <<pass, settled>> /\ SameRules

\* Follow is what Followed says (CrossRules::follow).
LEMMA FollowedIs ==
  ASSUME Types, NEW item \in Pairs \X Pairs, Follow(item)
  PROVE  Followed(item)
<1>. DEFINE work == (drain.work \ {item})
                       \cup (IF Fresh(item[1]) THEN PushSuccessors(item[1]) ELSE {})
            causes == IF Fresh(item[1]) THEN Recorded(drain.causes, {item[1]}, {item[2]})
                      ELSE drain.causes
<1>1. /\ drain.phase = "follow" /\ item \in drain.work
      /\ invalidated' = (IF Fresh(item[1]) THEN invalidated \cup {item[1]} ELSE invalidated)
      /\ drain' = [drain EXCEPT !.seen = @ \cup {item[1]}, !.work = work, !.causes = causes]
      /\ UNCHANGED <<rules, pass, settled>>
  BY DEF Follow, Fresh
<1>2. drain \in Selecting
  BY <1>1, PhaseTells
<1>3. item[1] \in Pairs /\ item[2] \in Pairs /\ item = <<item[1], item[2]>>
  OBVIOUS
<1>4. drain.causes \in Causes /\ drain.work \in SUBSET (Pairs \X Pairs)
  BY <1>2 DEF Selecting
<1>5. work \in SUBSET (Pairs \X Pairs)
  <2>1. CrossSuccessors(item[1]) \in SUBSET Pairs
    BY <1>3, SuccessorsAre DEF Types
  <2>. QED
    BY <1>3, <1>4, <2>1 DEF PushSuccessors
<1>6. causes \in Causes
  <2>. DEFINE pairs == {item[1]}
              source == {item[2]}
              before == drain.causes
  <2>1. pairs \in SUBSET Pairs /\ source \in SUBSET Pairs /\ before \in Causes
    BY <1>3, <1>4
  <2>. HIDE DEF pairs, source, before
  <2>2. Recorded(before, pairs, source) \in Causes
    BY <2>1, RecordedIs
  <2>. QED
    BY <1>4, <2>2 DEF pairs, source, before
<1>7. SameRules
  BY <1>1, RulesStay
<1>. HIDE DEF work, causes
<1>8. drain' \in Selecting
  BY <1>1, <1>2, <1>3, <1>5, <1>6 DEF Selecting
<1>9. SameRequest
  BY <1>1, <1>2 DEF SameRequest, Selecting
<1>10. /\ drain'.phase = "follow" /\ drain'.keys = drain.keys /\ drain'.stack = drain.stack
       /\ drain'.retained = drain.retained /\ drain'.seen = drain.seen \cup {item[1]}
       /\ drain'.work = work /\ drain'.causes = causes
  BY <1>1, <1>2 DEF Selecting
<1>. QED
  BY <1>1, <1>2, <1>3, <1>7, <1>8, <1>9, <1>10 DEF Followed, work, causes

\* Run: all keys are held, and no others.
Ran ==
  /\ drain \in Selecting /\ drain' \in Iterating
  /\ drain.phase = "follow" /\ drain.work = {}
  /\ drain'.channel = drain.channel /\ drain'.keys = drain.keys /\ drain'.held = drain.keys
  /\ drain'.careful = CarefulBuilder(drain) /\ drain'.whole = WholeBuilder(drain)
  /\ UNCHANGED <<invalidated, pass, settled>> /\ SameRules

\* Run is what Ran says (DrainBuilder::run).
LEMMA RanIs ==
  ASSUME Types, Run
  PROVE  Ran
<1>1. /\ drain.phase = "follow" /\ drain.work = {}
      /\ drain' = [phase |-> "yield", channel |-> drain.channel, order |-> drain.order,
                   keys |-> drain.keys, held |-> drain.keys,
                   careful |-> CarefulBuilder(drain), whole |-> WholeBuilder(drain)]
      /\ UNCHANGED <<rules, invalidated, pass, settled>>
  BY DEF Run
<1>2. drain \in Selecting
  BY <1>1, PhaseTells
<1>3. CarefulBuilder(drain) \in BOOLEAN /\ WholeBuilder(drain) \in BOOLEAN
  BY <1>2 DEF CarefulBuilder, WholeBuilder, Selecting
<1>4. drain' \in Iterating
  BY <1>1, <1>2, <1>3 DEF Iterating, Selecting
<1>5. SameRules
  BY <1>1, RulesStay
<1>. QED
  BY <1>1, <1>2, <1>4, <1>5 DEF Ran

\* Yield: one key that is ready is no longer held.
Yielded(k) ==
  /\ drain \in Iterating /\ drain' \in Iterating /\ k \in Ready /\ k \in drain.held
  /\ drain'.channel = drain.channel /\ drain'.keys = drain.keys
  /\ drain'.held = drain.held \ {k}
  /\ drain'.careful = drain.careful /\ drain'.whole = drain.whole
  /\ UNCHANGED <<invalidated, pass, settled>> /\ SameRules

\* Yield is what Yielded says (DrainSorted::next).
LEMMA YieldedIs ==
  ASSUME Types, NEW k \in Keys, Yield(k)
  PROVE  Yielded(k)
<1>1. /\ drain.phase = "yield" /\ k \in Ready
      /\ drain' = [drain EXCEPT !.held = @ \ {k}]
      /\ UNCHANGED <<rules, invalidated, pass, settled>>
  BY DEF Yield
<1>2. drain \in Iterating
  BY <1>1, PhaseTells
<1>3. drain' \in Iterating /\ drain'.channel = drain.channel /\ drain'.keys = drain.keys
      /\ drain'.held = drain.held \ {k}
      /\ drain'.careful = drain.careful /\ drain'.whole = drain.whole
  BY <1>1, <1>2 DEF Iterating
<1>4. k \in drain.held
  BY <1>1 DEF Ready
<1>5. SameRules
  BY <1>1, RulesStay
<1>. QED
  BY <1>1, <1>2, <1>3, <1>4, <1>5 DEF Yielded

\* Steps while no drain is in progress: marks come and go, a pass begins or ends.
Quiet ==
  /\ drain = NoDrain /\ drain' = NoDrain /\ invalidated' \in SUBSET Pairs /\ SameRules
  /\ \/ /\ pass = NoPass /\ pass' = NoPass
        /\ settled' = {} \/ (settled' = settled /\ invalidated' \subseteq invalidated)
     \/ UNCHANGED <<invalidated, settled>> /\ pass' = NoPass
     \/ /\ UNCHANGED <<invalidated, settled>>
        /\ pass' \in Passes /\ pass'.done = {} /\ pass'.stalled = {}

\* A mark is made while no drain is open (InvalidationTracker::mark).
LEMMA MarkIsQuiet ==
  ASSUME Types, NEW p \in Pairs, Mark(p)
  PROVE  Quiet
<1>1. drain = NoDrain /\ pass = NoPass
  BY PhaseTells DEF Mark, Idle
<1>2. /\ invalidated' = invalidated \cup {p} \cup {<<p[1], c>> : c \in cascadesFrom[p[2]]}
      /\ settled' = {} /\ UNCHANGED <<rules, drain, pass>>
  BY DEF Mark
<1>3. {<<p[1], c>> : c \in cascadesFrom[p[2]]} \in SUBSET Pairs
  <2>1. cascadesFrom[p[2]] \in SUBSET Channels
    BY PairParts DEF Types, RulesTyped
  <2>. QED
    BY <2>1, PairParts DEF Pairs
<1>4. SameRules
  BY <1>2, RulesStay
<1>. QED
  BY <1>1, <1>2, <1>3, <1>4 DEF Quiet, Types

\* So is a clear, which only takes marks away (InvalidationTracker::clear,
\* clear_all).
LEMMA ClearIsQuiet ==
  ASSUME Types, ClearAll \/ \E c \in Channels : Clear(c)
  PROVE  Quiet
<1>1. drain = NoDrain /\ pass = NoPass
  BY PhaseTells DEF Clear, ClearAll, Idle
<1>2. invalidated' \subseteq invalidated /\ UNCHANGED <<rules, drain, pass, settled>>
  BY DEF Clear, ClearAll
<1>3. SameRules
  BY <1>2, RulesStay
<1>. QED
  BY <1>1, <1>2, <1>3 DEF Quiet, Types

\* A pass begins without a drain (drain_channels_sorted).
LEMMA BeginPassIsQuiet ==
  ASSUME Types, NEW order \in Orders, BeginPass(order)
  PROVE  Quiet
<1>1. drain = NoDrain
  BY PhaseTells DEF BeginPass, Idle
<1>2. /\ pass' = [open |-> TRUE, order |-> order, done |-> {}, stalled |-> {}]
      /\ UNCHANGED <<rules, invalidated, drain, settled>>
  BY DEF BeginPass
<1>3. order \in Seq(Channels)
  BY DEF Orders
<1>4. pass' \in Passes /\ pass'.done = {} /\ pass'.stalled = {}
  BY <1>2, <1>3 DEF Passes
<1>5. SameRules
  BY <1>2, RulesStay
<1>. QED
  BY <1>1, <1>2, <1>4, <1>5 DEF Quiet, Types

\* A pass ends without a drain, and leaves the marks as they are
\* (drain_channels_sorted).
LEMMA EndPassIsQuiet ==
  ASSUME Types, EndPass
  PROVE  Quiet
<1>1. drain = NoDrain
  BY PhaseTells DEF EndPass
<1>2. pass' = NoPass /\ UNCHANGED <<rules, invalidated, drain, settled>>
  BY DEF EndPass
<1>3. SameRules
  BY <1>2, RulesStay
<1>. QED
  BY <1>1, <1>2, <1>3 DEF Quiet, Types

\* The drain is dropped, and marks again what it still holds.
Dropped ==
  /\ drain \in Iterating /\ drain' = NoDrain /\ pass = NoPass
  /\ invalidated' = InFlight
  /\ \/ settled' = settled
     \/ /\ drain.whole /\ drain.held = {}
        /\ FeedsInto(drain.channel) \subseteq settled \ {drain.channel}
        /\ settled' = settled \cup {drain.channel}
  /\ UNCHANGED pass /\ SameRules

\* Drop is what Dropped says (Drop for DrainSorted).
LEMMA DroppedIs ==
  ASSUME Types, Drop
  PROVE  Dropped
<1>1. drain \in Iterating /\ pass = NoPass
  BY PhaseTells DEF Drop
<1>2. /\ invalidated' = InFlight /\ drain' = NoDrain
      /\ settled' = (IF drain.whole /\ drain.held = {}
                        /\ FeedsInto(drain.channel) \subseteq settled \ {drain.channel}
                     THEN settled \cup {drain.channel} ELSE settled)
      /\ UNCHANGED <<rules, pass>>
  BY DEF Drop
<1>3. SameRules
  BY <1>2, RulesStay
<1>. QED
  BY <1>1, <1>2, <1>3 DEF Dropped

\* The drain of a pass has come to its end.
Stopped ==
  /\ drain \in Iterating /\ drain' = NoDrain /\ Ready = {}
  /\ pass \in Passes /\ pass' \in Passes
  /\ pass'.done = pass.done \cup {drain.channel}
  /\ pass'.stalled = (IF drain.held = {} THEN pass.stalled ELSE pass.stalled \cup {drain.channel})
  /\ invalidated' = InFlight
  /\ UNCHANGED settled /\ SameRules

\* CloseInPass is what Stopped says: the drain of a pass is exhausted and
\* dropped, and its channel is listed if keys are left (drain_channels_sorted).
LEMMA StoppedIs ==
  ASSUME Types, CloseInPass
  PROVE  Stopped
<1>1. drain \in Iterating /\ pass \in Passes /\ drain # NoDrain
  <2>1. drain.phase = "yield" /\ pass.open
    BY DEF CloseInPass
  <2>2. NoDrain.phase = "none"
    BY DEF NoDrain
  <2>. QED
    BY <2>1, <2>2, PhaseTells
<1>2. /\ Ready = {} /\ invalidated' = InFlight /\ drain' = NoDrain
      /\ pass' = [pass EXCEPT !.order = Tail(@), !.done = @ \cup {drain.channel},
                              !.stalled = IF drain.held = {} THEN @ ELSE @ \cup {drain.channel}]
      /\ UNCHANGED <<rules, settled>>
  BY DEF CloseInPass
<1>3. /\ drain.channel \in Channels /\ pass.order \in Seq(Channels) /\ pass.order # <<>>
      /\ pass.done \in SUBSET Channels /\ pass.stalled \in SUBSET Channels
  BY <1>1 DEF Types, Iterating, Passes
<1>4. Tail(pass.order) \in Seq(Channels)
  BY <1>3
<1>5. /\ pass' \in Passes /\ pass'.done = pass.done \cup {drain.channel}
      /\ pass'.stalled = (IF drain.held = {} THEN pass.stalled
                          ELSE pass.stalled \cup {drain.channel})
  BY <1>1, <1>2, <1>3, <1>4 DEF Passes
<1>6. SameRules
  BY <1>2, RulesStay
<1>. QED
  BY <1>1, <1>2, <1>5, <1>6 DEF Stopped

\* A drain is opened by itself, or in a pass: then it is the next channel's,
\* whole, and does not expand.
OpenedFor(b, c) ==
  \/ pass = NoPass
  \/ /\ pass \in Passes /\ pass.order # <<>>
     /\ b.affected = FALSE /\ b.within = Keys

Opened == \E c \in Channels : \E b : Taken(b, c) /\ OpenedFor(b, c)

\* A caller's drain takes its keys (InvalidationTracker::drain).
LEMMA OpenDrainIs ==
  ASSUME Types, NEW c \in Channels, OpenDrain(c)
  PROVE  Opened
<1>1. drain = NoDrain /\ pass = NoPass
  BY PhaseTells DEF OpenDrain, Idle
<1>2. PICK b \in Builders(c) : TakeKeys(b)
  BY DEF OpenDrain
<1>3. WellBuilt(b, c)
  BY BuildersMean DEF Types
<1>4. Taken(b, c)
  BY <1>1, <1>2, <1>3, TakenIs
<1>. QED
  BY <1>1, <1>4 DEF Opened, OpenedFor

\* A drain of a pass takes the keys of the next channel
\* (drain_channels_sorted).
LEMMA OpenInPassIs ==
  ASSUME Types, OpenInPass
  PROVE  Opened
<1>. DEFINE c == Head(pass.order)
            b == DrainSorted(c)
<1>1. drain = NoDrain /\ pass \in Passes /\ pass.order # <<>> /\ TakeKeys(b)
  BY PhaseTells DEF OpenInPass
<1>2. c \in Channels
  <2>1. pass.order \in Seq(Channels) /\ pass.order # <<>>
    BY <1>1 DEF Passes
  <2>. QED
    BY <2>1
<1>. HIDE DEF c
<1>3. WellBuilt(b, c) /\ b.affected = FALSE /\ b.within = Keys
  BY <1>2, BuildersMean DEF Types
<1>. HIDE DEF b
<1>4. Taken(b, c)
  BY <1>1, <1>2, <1>3, TakenIs
<1>. QED
  BY <1>1, <1>2, <1>3, <1>4 DEF Opened, OpenedFor

\* What the steps come to.
Steps ==
  \/ UNCHANGED vars
  \/ Quiet
  \/ Opened
  \/ \E k \in Keys : Collected(k)
  \/ Retained
  \/ \E item \in Pairs \X Pairs : Followed(item)
  \/ Ran
  \/ \E k \in Keys : Yielded(k)
  \/ Dropped
  \/ Stopped

\* Every step of the tracker is one of these.  What follows goes through them
\* (InvalidationTracker, DrainBuilder::run).
LEMMA StepIs ==
  ASSUME Types, [Next]_vars
  PROVE  Steps
<1>1. CASE Marking
  BY <1>1, MarkIsQuiet DEF Steps, Marking
<1>2. CASE \E c \in Channels : Clear(c) \/ OpenDrain(c)
  BY <1>2, ClearIsQuiet, OpenDrainIs DEF Steps
<1>3. CASE ClearAll
  BY <1>3, ClearIsQuiet DEF Steps
<1>4. CASE Draining
  <2>1. CASE \E k \in Keys : Collect(k) \/ Yield(k)
    BY <2>1, CollectedIs, YieldedIs DEF Steps
  <2>2. CASE Retain
    BY <2>2, RetainedIs DEF Steps
  <2>3. CASE \E p, q \in Pairs : Follow(<<p, q>>)
    <3>1. PICK p \in Pairs, q \in Pairs : Follow(<<p, q>>)
      BY <2>3
    <3>2. <<p, q>> \in Pairs \X Pairs
      OBVIOUS
    <3>3. Followed(<<p, q>>)
      BY <3>1, <3>2, FollowedIs
    <3>. QED
      BY <3>2, <3>3 DEF Steps
  <2>4. CASE Run
    BY <2>4, RanIs DEF Steps
  <2>. QED
    BY <1>4, <2>1, <2>2, <2>3, <2>4 DEF Draining
<1>5. CASE Drop
  BY <1>5, DroppedIs DEF Steps
<1>6. CASE \E order \in Orders : BeginPass(order)
  BY <1>6, BeginPassIsQuiet DEF Steps
<1>7. CASE OpenInPass
  BY <1>7, OpenInPassIs DEF Steps
<1>8. CASE CloseInPass
  BY <1>8, StoppedIs DEF Steps
<1>9. CASE EndPass
  BY <1>9, EndPassIsQuiet DEF Steps
<1>10. CASE UNCHANGED vars
  BY <1>10 DEF Steps
<1>. QED
  BY <1>1, <1>2, <1>3, <1>4, <1>5, <1>6, <1>7, <1>8, <1>9, <1>10 DEF Next

\* A drain is in one phase at a time.
LEMMA PhasesApart ==
  /\ \A d \in Selecting : d # NoDrain /\ d \notin Iterating
  /\ \A d \in Iterating : d # NoDrain
  /\ \A p \in Passes : p # NoPass
<1>1. NoDrain.phase = "none" /\ NoPass.open = FALSE
  BY DEF NoDrain, NoPass
<1>2. \A d \in Selecting : d.phase \in {"collect", "follow"}
  BY DEF Selecting
<1>3. \A d \in Iterating : d.phase = "yield"
  BY DEF Iterating
<1>4. \A p \in Passes : p.open = TRUE
  BY DEF Passes
<1>. QED
  BY <1>1, <1>2, <1>3, <1>4

\* The rules a tracker is given have their types, and no channel cascades to
\* itself (add_cascade).
LEMMA InitTypes ==
  ASSUME Init
  PROVE  Types
<1>1. invalidated = {} /\ drain = NoDrain /\ pass = NoPass /\ settled = {}
  BY DEF Init
<1>2. PICK crossing \in SUBSET CrossEdges, cascading \in SUBSET CascadeEdges,
           depending \in SUBSET DependencyEdges :
        /\ dependencies =
             [c \in Channels |-> [k \in Keys |-> {d \in Keys : <<k, d, c>> \in depending}]]
        /\ cascadesFrom = [c \in Channels |-> {d \in Channels : <<c, d>> \in cascading}]
        /\ crossDependents = [p \in Pairs |-> {q \in Pairs : <<p, q>> \in crossing}]
  BY DEF Init
<1>3. dependencies \in [Channels -> [Keys -> SUBSET Keys]]
  BY <1>2
<1>4. cascadesFrom \in [Channels -> SUBSET Channels]
  BY <1>2
<1>5. crossDependents \in [Pairs -> SUBSET Pairs]
  BY <1>2
<1>6. ASSUME NEW c \in Channels PROVE c \notin cascadesFrom[c]
  <2>1. <<c, c>> \notin cascading
    BY DEF CascadeEdges
  <2>. QED
    BY <1>2, <2>1
<1>7. RulesTyped
  BY <1>3, <1>4, <1>5, <1>6 DEF RulesTyped
<1>. QED
  BY <1>1, <1>7, PhasesApart DEF Types

\* Every step keeps the types.
LEMMA StepTypes ==
  ASSUME Types, [Next]_vars
  PROVE  Types'
<1>1. Steps
  BY StepIs
<1>2. CASE UNCHANGED vars
  <2>1. /\ UNCHANGED rules
        /\ invalidated' = invalidated /\ settled' = settled /\ drain' = drain /\ pass' = pass
    BY <1>2 DEF vars, rules
  <2>2. RulesTyped'
    BY <2>1, RulesStay DEF SameRules, Types
  <2>. QED
    BY <2>1, <2>2 DEF Types
<1>3. CASE Quiet
  BY <1>3, PhasesApart DEF Quiet, Types, SameRules
<1>4. CASE Opened
  <2>. PICK c \in Channels : \E b : Taken(b, c) /\ OpenedFor(b, c)
    BY <1>4 DEF Opened
  <2>1. PICK b : Taken(b, c) /\ OpenedFor(b, c)
    OBVIOUS
  <2>2. pass \in Passes => pass.order # <<>>
    BY <2>1, PhasesApart DEF OpenedFor
  <2>3. invalidated' \in SUBSET Pairs /\ drain' \in Selecting /\ RulesTyped'
    BY <2>1 DEF Taken, Types, SameRules
  <2>4. pass' = pass /\ settled' = settled
    BY <2>1 DEF Taken
  <2>. QED
    BY <2>2, <2>3, <2>4 DEF Types
<1>5. CASE \E k \in Keys : Collected(k)
  BY <1>5, PhasesApart DEF Collected, Types, SameRules
<1>6. CASE Retained
  BY <1>6, PhasesApart DEF Retained, Types, SameRules
<1>7. CASE \E item \in Pairs \X Pairs : Followed(item)
  BY <1>7, PhasesApart DEF Followed, Types, SameRules
<1>8. CASE Ran
  BY <1>8, PhasesApart DEF Ran, Types, SameRules
<1>9. CASE \E k \in Keys : Yielded(k)
  BY <1>9, PhasesApart DEF Yielded, Types, SameRules
<1>10. ASSUME drain \in Iterating PROVE InFlight \in SUBSET Pairs
  <2>1. drain.channel \in Channels /\ drain.held \in SUBSET Keys
    BY <1>10 DEF Iterating
  <2>2. Held \in SUBSET Pairs
    BY <1>10, <2>1, HeldIs, InMembers
  <2>. QED
    BY <2>2 DEF InFlight, Types
<1>11. CASE Dropped
  <2>1. drain.channel \in Channels
    BY <1>11 DEF Dropped, Iterating
  <2>. QED
    BY <1>10, <1>11, <2>1, PhasesApart DEF Dropped, Types, SameRules
<1>12. CASE Stopped
  BY <1>10, <1>12, PhasesApart DEF Stopped, Types, SameRules
<1>. QED
  BY <1>1, <1>2, <1>3, <1>4, <1>5, <1>6, <1>7, <1>8, <1>9, <1>11, <1>12 DEF Steps

-----------------------------------------------------------------------------
(***************************************************************************)
(* What a drain knows of its own progress.                                 *)
(***************************************************************************)
\* Where the drain was: the pairs it holds, retained or met on its way.
Met == Held \cup drain.retained \cup drain.seen

\* The keys are in the scope, and nothing in the scope is both taken and
\* marked while they are collected; what was retained is marked and outside;
\* work comes from where the drain was; an invalidated-only drain has none.
Selection ==
  drain \in Selecting =>
    /\ drain.keys \subseteq drain.within
    /\ drain.stack \subseteq drain.keys
    /\ drain.retained \subseteq invalidated \cap In(drain.channel, Keys \ drain.within)
    /\ drain.seen \subseteq InFlight
    /\ \A i \in drain.work : i[2] \in Met /\ i[1] \in CrossSuccessors(i[2])
    /\ drain.phase = "collect" =>
         /\ drain.affected
         /\ drain.work = {} /\ drain.seen = {} /\ drain.retained = {}
         /\ invalidated \cap In(drain.channel, drain.within) = {}
    /\ drain.phase = "follow" => drain.stack = {}
    /\ ~drain.affected => drain.work = {} /\ drain.seen = {} /\ drain.retained = {}
    /\ drain.trace => drain.affected
    /\ drain.follow = Crosses(drain.channel)

Iteration == drain \in Iterating => drain.held \subseteq drain.keys

PassKept == pass \in Passes => pass.stalled \subseteq pass.done

Progress == Types /\ Selection /\ Iteration /\ PassKept /\ HeldOnce

\* What each step does to the pairs held.
LEMMA TakenHolds ==
  ASSUME Types, NEW c \in Channels, NEW b, Taken(b, c)
  PROVE  /\ Held = {} /\ Held' = In(c, drain'.keys) /\ Held' \subseteq invalidated
         /\ drain'.keys \in SUBSET Keys /\ drain'.keys \subseteq b.within
         /\ InFlight' = InFlight
<1>1. Held = {} /\ Held' = In(c, drain'.keys)
  BY HeldIs, HeldIsThen DEF Taken
<1>2. drain'.keys = {k \in b.within : <<k, c>> \in invalidated}
  BY DEF Taken
<1>3. b.within \in SUBSET Keys
  BY DEF Taken, WellBuilt, Requests
<1>4. Held' \subseteq invalidated
  BY <1>1, <1>2 DEF In
<1>5. invalidated' = invalidated \ Held'
  BY <1>1 DEF Taken
<1>. QED
  BY <1>1, <1>2, <1>3, <1>4, <1>5 DEF InFlight

\* Collecting adds the keys found to what the drain holds, and takes none
\* (collect_affected).
LEMMA CollectedHolds ==
  ASSUME Types, NEW k \in Keys, Collected(k)
  PROVE  /\ Held = In(drain.channel, drain.keys)
         /\ Held' = Held \cup In(drain.channel, Found(k))
         /\ InFlight' = InFlight \cup In(drain.channel, Found(k))
         /\ drain.channel \in Channels /\ drain.keys \in SUBSET Keys
<1>1. /\ drain \in Selecting /\ drain' \in Selecting /\ drain'.channel = drain.channel
      /\ drain'.keys = drain.keys \cup Found(k) /\ invalidated' = invalidated
  BY DEF Collected, SameRequest
<1>2. Held = In(drain.channel, drain.keys) /\ Held' = In(drain.channel, drain'.keys)
  BY <1>1, HeldIs, HeldIsThen
<1>3. Held' = Held \cup In(drain.channel, Found(k))
  BY <1>1, <1>2 DEF In
<1>. QED
  BY <1>1, <1>2, <1>3 DEF InFlight, Selecting

\* Retaining adds marks outside what the drain holds
\* (retain_out_of_scope_dependents).
LEMMA RetainedHolds ==
  ASSUME Types, Retained
  PROVE  /\ Held = In(drain.channel, drain.keys) /\ Held' = Held
         /\ InFlight' = InFlight \cup Beyond
         /\ drain.channel \in Channels /\ drain.keys \in SUBSET Keys
<1>1. /\ drain \in Selecting /\ drain' \in Selecting /\ drain'.channel = drain.channel
      /\ drain'.keys = drain.keys /\ invalidated' = invalidated \cup Beyond
  BY DEF Retained, SameRequest
<1>2. Held = In(drain.channel, drain.keys) /\ Held' = In(drain.channel, drain.keys)
  BY <1>1, HeldIs, HeldIsThen
<1>. QED
  BY <1>1, <1>2 DEF InFlight, Selecting

\* Following adds one mark at most, and holds what it held (CrossRules::follow).
LEMMA FollowedHolds ==
  ASSUME Types, NEW item \in Pairs \X Pairs, Followed(item)
  PROVE  /\ Held = In(drain.channel, drain.keys) /\ Held' = Held
         /\ InFlight' = (IF Fresh(item[1]) THEN InFlight \cup {item[1]} ELSE InFlight)
         /\ drain.channel \in Channels /\ drain.keys \in SUBSET Keys
<1>1. /\ drain \in Selecting /\ drain' \in Selecting /\ drain'.channel = drain.channel
      /\ drain'.keys = drain.keys
      /\ invalidated' = (IF Fresh(item[1]) THEN invalidated \cup {item[1]} ELSE invalidated)
  BY DEF Followed, SameRequest
<1>2. Held = In(drain.channel, drain.keys) /\ Held' = In(drain.channel, drain.keys)
  BY <1>1, HeldIs, HeldIsThen
<1>. QED
  BY <1>1, <1>2 DEF InFlight, Selecting

\* The iterator holds what the builder took (DrainBuilder::run).
LEMMA RanHolds ==
  ASSUME Types, Ran
  PROVE  /\ Held = In(drain.channel, drain.keys) /\ Held' = Held /\ InFlight' = InFlight
         /\ drain.channel \in Channels /\ drain.keys \in SUBSET Keys
<1>1. /\ drain \in Selecting /\ drain' \in Iterating /\ drain'.channel = drain.channel
      /\ drain'.held = drain.keys /\ invalidated' = invalidated
  BY DEF Ran
<1>2. Held = In(drain.channel, drain.keys) /\ Held' = In(drain.channel, drain.keys)
  BY <1>1, HeldIs, HeldIsThen
<1>. QED
  BY <1>1, <1>2 DEF InFlight, Selecting

\* Handing out a key gives up that key and no other (DrainSorted::next).
LEMMA YieldedHolds ==
  ASSUME Types, NEW k \in Keys, Yielded(k)
  PROVE  /\ Held = In(drain.channel, drain.held)
         /\ <<k, drain.channel>> \in Held /\ Held' = Held \ {<<k, drain.channel>>}
         /\ invalidated' = invalidated
         /\ drain.channel \in Channels /\ drain.keys \in SUBSET Keys /\ drain.held \in SUBSET Keys
<1>1. /\ drain \in Iterating /\ drain' \in Iterating /\ drain'.channel = drain.channel
      /\ k \in drain.held /\ drain'.held = drain.held \ {k} /\ invalidated' = invalidated
  BY DEF Yielded
<1>2. Held = In(drain.channel, drain.held) /\ Held' = In(drain.channel, drain'.held)
  BY <1>1, HeldIs, HeldIsThen
<1>3. Held' = Held \ {<<k, drain.channel>>} /\ <<k, drain.channel>> \in Held
  BY <1>1, <1>2 DEF In
<1>. QED
  BY <1>1, <1>2, <1>3 DEF Iterating

\* A drain that is dropped marks all that it holds.
Over == Dropped \/ Stopped

\* Where a drain ends, all that it held is marked, so nothing is lost (Drop for
\* DrainSorted).
LEMMA OverHolds ==
  ASSUME Types, Over
  PROVE  /\ drain \in Iterating /\ drain' = NoDrain
         /\ Held = In(drain.channel, drain.held) /\ Held' = {}
         /\ invalidated' = InFlight /\ InFlight' = InFlight /\ SameRules
         /\ drain.channel \in Channels /\ drain.held \in SUBSET Keys
<1>1. drain \in Iterating /\ drain' = NoDrain /\ invalidated' = InFlight /\ SameRules
  BY DEF Over, Dropped, Stopped
<1>2. Held = In(drain.channel, drain.held) /\ Held' = {}
  BY <1>1, HeldIs, HeldIsThen
<1>. QED
  BY <1>1, <1>2 DEF InFlight, Iterating

-----------------------------------------------------------------------------
\* A drain that has just taken its keys knows where it stands (take_keys).
LEMMA TakenProgresses ==
  ASSUME Types, NEW c \in Channels, NEW b, Taken(b, c)
  PROVE  Selection' /\ HeldOnce'
<1>1. /\ Held' = In(c, drain'.keys) /\ drain'.keys \in SUBSET Keys
      /\ drain'.keys \subseteq b.within
  BY TakenHolds
<1>2. /\ drain' \in Selecting /\ drain'.channel = c /\ drain'.within = b.within
      /\ drain'.affected = b.affected
      /\ drain'.follow = Crosses(c) /\ Crosses(c)' = Crosses(c)
      /\ drain'.trace = (b.trace /\ b.affected)
      /\ drain'.phase = (IF b.affected THEN "collect" ELSE "follow")
      /\ drain'.stack = (IF b.affected THEN drain'.keys ELSE {})
      /\ drain'.work = {} /\ drain'.seen = {} /\ drain'.retained = {}
      /\ invalidated' = invalidated \ In(c, drain'.keys)
  BY DEF Taken, SameRules
<1>3. HeldOnce'
  BY <1>1, <1>2 DEF HeldOnce
<1>4. drain'.keys = {k \in b.within : <<k, c>> \in invalidated}
  BY DEF Taken
<1>5. invalidated' \cap In(c, b.within) = {}
  BY <1>2, <1>4 DEF In
<1>6. drain'.trace => drain'.affected
  BY <1>2
<1>7. drain'.phase = "collect" => drain'.affected
  BY <1>2
<1>8. drain'.phase = "follow" => drain'.stack = {}
  BY <1>2
<1>9. drain'.stack \subseteq drain'.keys
  BY <1>2
<1>10. Crosses(drain.channel)' = Crosses(c)
  BY <1>2
<1>. QED
  BY <1>1, <1>2, <1>3, <1>5, <1>6, <1>7, <1>8, <1>9, <1>10 DEF Selection

\* Collecting stays in the scope and finds no key that is marked: all marks in
\* it were taken (collect_affected).
LEMMA CollectedProgresses ==
  ASSUME Progress, NEW k \in Keys, Collected(k)
  PROVE  Selection' /\ HeldOnce'
<1>. USE DEF Progress
<1>1. /\ drain \in Selecting /\ drain' \in Selecting
      /\ drain.phase = "collect" /\ drain'.phase = "collect" /\ k \in drain.stack
      /\ drain'.keys = drain.keys \cup Found(k)
      /\ drain'.stack = (drain.stack \ {k}) \cup Found(k)
      /\ drain'.work = drain.work /\ drain'.seen = drain.seen
      /\ drain'.retained = drain.retained /\ invalidated' = invalidated
      /\ drain'.channel = drain.channel /\ drain'.affected = drain.affected
      /\ drain'.within = drain.within /\ drain'.trace = drain.trace
      /\ drain'.follow = drain.follow
      /\ Crosses(drain.channel)' = Crosses(drain.channel)
  BY DEF Collected, SameRequest, SameRules
<1>2. /\ Held' = Held \cup In(drain.channel, Found(k))
      /\ drain.channel \in Channels /\ drain.keys \in SUBSET Keys
  BY CollectedHolds
<1>3. Found(k) \subseteq drain.within
  BY DEF Found
<1>4. invalidated \cap In(drain.channel, drain.within) = {}
  BY <1>1 DEF Selection
<1>5. HeldOnce'
  BY <1>1, <1>2, <1>3, <1>4 DEF HeldOnce, In
<1>6. drain'.follow = Crosses(drain.channel)'
  BY <1>1 DEF Selection
<1>7. drain'.keys \subseteq drain'.within /\ drain'.stack \subseteq drain'.keys
  BY <1>1, <1>3 DEF Selection
<1>. QED
  BY <1>1, <1>4, <1>5, <1>6, <1>7 DEF Selection

\* What is retained lies outside the scope, and so is not held; work starts
\* from what is held or retained (retain_out_of_scope_dependents).
LEMMA RetainedProgresses ==
  ASSUME Progress, Retained
  PROVE  Selection' /\ HeldOnce'
<1>. USE DEF Progress
<1>1. /\ drain \in Selecting /\ drain' \in Selecting
      /\ drain.phase = "collect" /\ drain'.phase = "follow" /\ drain.stack = {}
      /\ drain'.keys = drain.keys /\ drain'.stack = drain.stack /\ drain'.seen = drain.seen
      /\ drain'.retained = Beyond /\ invalidated' = invalidated \cup Beyond
      /\ drain'.work = (IF drain.follow THEN UNION {PushSuccessors(p) : p \in Held \cup Beyond}
                        ELSE {})
      /\ drain'.channel = drain.channel /\ drain'.affected = drain.affected
      /\ drain'.within = drain.within /\ drain'.trace = drain.trace
      /\ drain'.follow = drain.follow
      /\ Crosses(drain.channel)' = Crosses(drain.channel)
      /\ \A p : CrossSuccessors(p)' = CrossSuccessors(p)
  BY DEF Retained, SameRequest, SameRules
<1>2. /\ Held = In(drain.channel, drain.keys) /\ Held' = Held
      /\ drain.channel \in Channels /\ drain.keys \in SUBSET Keys
  BY RetainedHolds
<1>3. Beyond \subseteq In(drain.channel, Keys \ drain.within)
  <2>1. OutOfScopeDependents \subseteq Keys \ drain.within
    BY DEF OutOfScopeDependents, Dependents
  <2>. QED
    BY <2>1 DEF Beyond, In
<1>4. drain.affected /\ drain.seen = {} /\ drain.keys \subseteq drain.within
  BY <1>1 DEF Selection
<1>5. HeldOnce'
  BY <1>1, <1>2, <1>3, <1>4 DEF HeldOnce, In
<1>6. Met' = Held \cup Beyond
  BY <1>1, <1>2, <1>4 DEF Met
<1>7. ASSUME NEW i \in drain'.work PROVE i[2] \in Met' /\ i[1] \in CrossSuccessors(i[2])'
  <2>1. PICK p \in Held \cup Beyond : i \in PushSuccessors(p)
    BY <1>1, <1>7
  <2>2. i[2] = p /\ i[1] \in CrossSuccessors(p)
    BY <2>1 DEF PushSuccessors
  <2>. QED
    BY <1>1, <1>6, <2>1, <2>2
<1>8. drain'.follow = Crosses(drain.channel)'
  BY <1>1 DEF Selection
<1>9. drain'.retained \subseteq invalidated' \cap In(drain'.channel, Keys \ drain'.within)
  BY <1>1, <1>3
<1>. QED
  BY <1>1, <1>4, <1>5, <1>7, <1>8, <1>9 DEF Selection

\* Following marks no pair that the drain holds, and new work comes from the
\* pair it marked (CrossRules::follow).
LEMMA FollowedProgresses ==
  ASSUME Progress, NEW item \in Pairs \X Pairs, Followed(item)
  PROVE  Selection' /\ HeldOnce'
<1>. USE DEF Progress
<1>. DEFINE p == item[1]
<1>1. /\ drain \in Selecting /\ drain' \in Selecting
      /\ drain.phase = "follow" /\ drain'.phase = "follow" /\ item \in drain.work
      /\ drain'.keys = drain.keys /\ drain'.stack = drain.stack
      /\ drain'.retained = drain.retained
      /\ drain'.seen = drain.seen \cup {p}
      /\ drain'.work = (drain.work \ {item}) \cup (IF Fresh(p) THEN PushSuccessors(p) ELSE {})
      /\ invalidated' = (IF Fresh(p) THEN invalidated \cup {p} ELSE invalidated)
      /\ drain'.channel = drain.channel /\ drain'.affected = drain.affected
      /\ drain'.within = drain.within /\ drain'.trace = drain.trace
      /\ drain'.follow = drain.follow
      /\ Crosses(drain.channel)' = Crosses(drain.channel)
      /\ \A q : CrossSuccessors(q)' = CrossSuccessors(q)
  BY DEF Followed, SameRequest, SameRules
<1>2. Held' = Held /\ InFlight' = (IF Fresh(p) THEN InFlight \cup {p} ELSE InFlight)
  BY FollowedHolds
<1>. HIDE DEF p
<1>3. drain.affected
  BY <1>1 DEF Selection
<1>4. HeldOnce'
  BY <1>1, <1>2 DEF HeldOnce, Fresh
<1>5. drain'.seen \subseteq InFlight'
  <2>1. drain.seen \subseteq InFlight
    BY <1>1 DEF Selection
  <2>2. p \in InFlight'
    BY <1>2, <2>1 DEF Fresh, InFlight
  <2>. QED
    BY <1>1, <1>2, <2>1, <2>2
<1>6. Met' = Met \cup {p}
  BY <1>1, <1>2 DEF Met
<1>7. ASSUME NEW i \in drain'.work PROVE i[2] \in Met' /\ i[1] \in CrossSuccessors(i[2])'
  <2>1. CASE i \in drain.work
    BY <1>1, <1>6, <2>1 DEF Selection
  <2>2. CASE i \in PushSuccessors(p)
    <3>1. i[2] = p /\ i[1] \in CrossSuccessors(p)
      BY <2>2 DEF PushSuccessors
    <3>. QED
      BY <1>1, <1>6, <3>1
  <2>. QED
    BY <1>1, <1>7, <2>1, <2>2
<1>8. drain'.follow = Crosses(drain.channel)'
  BY <1>1 DEF Selection
<1>9. drain'.retained \subseteq invalidated' \cap In(drain'.channel, Keys \ drain'.within)
  BY <1>1 DEF Selection
<1>. QED
  BY <1>1, <1>3, <1>4, <1>5, <1>7, <1>8, <1>9 DEF Selection

\* Nothing happens.
LEMMA StutterHolds ==
  ASSUME UNCHANGED vars
  PROVE  /\ invalidated' = invalidated /\ drain' = drain /\ pass' = pass /\ settled' = settled
         /\ Held' = Held /\ InFlight' = InFlight /\ Met' = Met /\ SameRules
<1>1. /\ invalidated' = invalidated /\ drain' = drain /\ pass' = pass /\ settled' = settled
      /\ UNCHANGED rules
  BY DEF vars, rules
<1>2. Held' = Held
  BY <1>1 DEF Held, In
<1>3. SameRules
  BY <1>1, RulesStay
<1>. QED
  BY <1>1, <1>2, <1>3 DEF InFlight, Met

\* The keys of a drain stay apart from the marks, and its progress is what it
\* takes it to be, whatever step is taken (drain_builder.rs).
LEMMA StepProgresses ==
  ASSUME Progress, [Next]_vars
  PROVE  Progress'
<1>1. Types /\ Types'
  BY StepTypes DEF Progress
<1>2. Steps
  BY <1>1, StepIs
<1>3. CASE UNCHANGED vars
  <2>1. HeldOnce' /\ Iteration' /\ PassKept'
    BY <1>3, StutterHolds DEF Progress, HeldOnce, Iteration, PassKept
  <2>2. Crosses(drain.channel)' = Crosses(drain.channel)
    BY <1>3, StutterHolds DEF SameRules
  <2>3. Selection'
    BY <1>3, <2>2, StutterHolds DEF Progress, Selection, SameRules
  <2>. QED
    BY <1>1, <2>1, <2>3 DEF Progress
<1>4. CASE Quiet
  <2>1. HeldOnce' /\ Selection' /\ Iteration'
    BY <1>4, HeldIsThen, PhasesApart DEF Quiet, HeldOnce, Selection, Iteration
  <2>2. PassKept'
    BY <1>4, PhasesApart DEF Quiet, PassKept
  <2>. QED
    BY <1>1, <2>1, <2>2 DEF Progress
<1>5. CASE Opened
  <2>. PICK c \in Channels : \E b : Taken(b, c)
    BY <1>5 DEF Opened
  <2>1. PICK b : Taken(b, c)
    OBVIOUS
  <2>2. Selection' /\ HeldOnce'
    BY <1>1, <2>1, TakenProgresses
  <2>3. Iteration' /\ PassKept'
    BY <2>1, PhasesApart DEF Progress, Taken, Iteration, PassKept
  <2>. QED
    BY <1>1, <2>2, <2>3 DEF Progress
<1>6. CASE \E k \in Keys : Collected(k)
  <2>1. PICK k \in Keys : Collected(k)
    BY <1>6
  <2>2. Selection' /\ HeldOnce'
    BY <2>1, CollectedProgresses
  <2>3. Iteration' /\ PassKept'
    BY <2>1, PhasesApart DEF Progress, Collected, Iteration, PassKept
  <2>. QED
    BY <1>1, <2>2, <2>3 DEF Progress
<1>7. CASE Retained
  <2>1. Selection' /\ HeldOnce'
    BY <1>7, RetainedProgresses
  <2>2. Iteration' /\ PassKept'
    BY <1>7, PhasesApart DEF Progress, Retained, Iteration, PassKept
  <2>. QED
    BY <1>1, <2>1, <2>2 DEF Progress
<1>8. CASE \E item \in Pairs \X Pairs : Followed(item)
  <2>1. PICK item \in Pairs \X Pairs : Followed(item)
    BY <1>8
  <2>2. Selection' /\ HeldOnce'
    BY <2>1, FollowedProgresses
  <2>3. Iteration' /\ PassKept'
    BY <2>1, PhasesApart DEF Progress, Followed, Iteration, PassKept
  <2>. QED
    BY <1>1, <2>2, <2>3 DEF Progress
<1>9. CASE Ran
  <2>1. HeldOnce'
    BY <1>1, <1>9, RanHolds DEF Progress, HeldOnce, Ran
  <2>2. Selection' /\ Iteration' /\ PassKept'
    BY <1>9, PhasesApart DEF Progress, Ran, Selection, Iteration, PassKept
  <2>. QED
    BY <1>1, <2>1, <2>2 DEF Progress
<1>10. CASE \E k \in Keys : Yielded(k)
  <2>1. PICK k \in Keys : Yielded(k)
    BY <1>10
  <2>2. HeldOnce'
    BY <1>1, <2>1, YieldedHolds DEF Progress, HeldOnce
  <2>3. Selection' /\ Iteration' /\ PassKept'
    BY <2>1, PhasesApart DEF Progress, Yielded, Selection, Iteration, PassKept
  <2>. QED
    BY <1>1, <2>2, <2>3 DEF Progress
<1>11. CASE Dropped \/ Stopped
  <2>1. HeldOnce'
    BY <1>1, <1>11, OverHolds DEF Over, HeldOnce
  <2>2. drain' = NoDrain
    BY <1>11 DEF Dropped, Stopped
  <2>3. Selection' /\ Iteration'
    BY <2>2, PhasesApart DEF Selection, Iteration
  <2>4. PassKept'
    BY <1>11, PhasesApart DEF Progress, Dropped, Stopped, PassKept
  <2>. QED
    BY <1>1, <2>1, <2>3, <2>4 DEF Progress
<1>. QED
  BY <1>2, <1>3, <1>4, <1>5, <1>6, <1>7, <1>8, <1>9, <1>10, <1>11 DEF Steps

\* There is no drain to begin with (InvalidationTracker::new).
LEMMA InitProgresses ==
  ASSUME Init
  PROVE  Progress
<1>1. drain = NoDrain /\ pass = NoPass
  BY DEF Init
<1>2. Types /\ Held = {}
  BY <1>1, InitTypes, HeldIs
<1>. QED
  BY <1>1, <1>2, PhasesApart DEF Progress, HeldOnce, Selection, Iteration, PassKept

\* Every drain keeps to this, for any keys, channels and rules.
LEMMA AlwaysProgress == Spec => []Progress
<1>1. Init => Progress
  BY InitProgresses
<1>2. Progress /\ [Next]_vars => Progress'
  BY StepProgresses
<1>. QED
  BY <1>1, <1>2, PTL DEF Spec

\* WorkDivided says of each phase what Progress says of each kind of drain.
LEMMA ProgressDivides ==
  ASSUME Progress
  PROVE  WorkDivided
<1>1. Types /\ Selection /\ Iteration /\ PassKept /\ HeldOnce
  BY DEF Progress
<1>2. /\ drain.phase \in {"none", "collect", "follow", "yield"}
      /\ drain.phase \in {"collect", "follow"} => drain \in Selecting
      /\ drain.phase = "yield" => drain \in Iterating
      /\ pass.open => pass \in Passes
  <2>1. NoDrain.phase = "none"
    BY DEF NoDrain
  <2>2. drain \in Selecting => drain.phase \in {"collect", "follow"}
    BY DEF Selecting
  <2>3. drain \in Iterating => drain.phase = "yield"
    BY DEF Iterating
  <2>. QED
    BY <1>1, <2>1, <2>2, <2>3, PhaseTells DEF Types
<1>3. ASSUME drain \in Selecting
      PROVE  /\ drain.keys \subseteq drain.within /\ drain.stack \subseteq drain.keys
             /\ drain.work \subseteq Pairs \X Pairs
             /\ drain.retained \subseteq invalidated \cap In(drain.channel, Keys \ drain.within)
  <2>1. drain.work \subseteq Pairs \X Pairs
    BY <1>3 DEF Selecting
  <2>. QED
    BY <1>1, <1>3, <2>1 DEF Selection
<1>4. ASSUME drain \in Iterating PROVE drain.held \subseteq drain.keys /\ drain.keys \subseteq Keys
  BY <1>1, <1>4 DEF Iteration, Iterating
<1>5. pass.open => pass.stalled \subseteq pass.done
  BY <1>1, <1>2 DEF PassKept
<1>6. invalidated \subseteq Pairs /\ settled \subseteq Channels
  BY <1>1 DEF Types
<1>. QED
  BY <1>1, <1>2, <1>3, <1>4, <1>5, <1>6 DEF WorkDivided, TypeOK

\* The marks and the keys in a drain's hands divide the work between them, for
\* any keys, channels and rules: a key that is about to be handed out is not
\* marked as well, though successors may lead back to it (CrossRules::follow).
THEOREM AlwaysWorkDivided == Spec => []WorkDivided
<1>1. Progress => WorkDivided
  BY ProgressDivides
<1>. QED
  BY <1>1, AlwaysProgress, PTL

-----------------------------------------------------------------------------
(***************************************************************************)
(* Work on other channels is delivered first.  What drain is at work on    *)
(* leads either to pairs it met, or to pairs it has still to follow; so    *)
(* once there is nothing left to follow, the pairs it met are closed.      *)
(***************************************************************************)
Delivery ==
  drain \in Selecting =>
    /\ drain.phase = "follow" /\ drain.affected =>
         \A p \in Met : \A q \in CrossSuccessors(p) :
           q \in Held \cup drain.seen \/ \E i \in drain.work : i[1] = q
    /\ drain.trace => Held \cup drain.seen \subseteq DOMAIN drain.causes

\* The roots of a traced drain are in its trace (DrainBuilder::take_keys).
LEMMA TakenDelivers ==
  ASSUME Types, NEW c \in Channels, NEW b, Taken(b, c)
  PROVE  Delivery'
<1>1. Held' = In(c, drain'.keys)
  BY TakenHolds
<1>2. /\ drain' \in Selecting
      /\ drain'.affected = b.affected
      /\ drain'.phase = (IF b.affected THEN "collect" ELSE "follow")
      /\ drain'.seen = {}
      /\ DOMAIN drain'.causes = (IF drain'.trace THEN In(c, drain'.keys) ELSE {})
  BY DEF Taken
<1>3. ~(drain'.phase = "follow" /\ drain'.affected)
  BY <1>2
<1>. QED
  BY <1>1, <1>2, <1>3 DEF Delivery

\* What a recorder holds after it was told of some pairs.
LEMMA RecordedIn ==
  ASSUME drain \in Selecting, NEW pairs \in SUBSET Pairs, NEW source \in SUBSET Pairs,
         drain'.causes = Recorded(drain.causes, pairs, source)
  PROVE  Noted(drain'.causes, drain.causes, pairs, source)
<1>1. drain.causes \in Causes
  BY DEF Selecting
<1>. QED
  BY <1>1, RecordedIs

\* The recorder is told of what is found.
LEMMA CollectedRecords ==
  ASSUME Types, NEW k \in Keys, Collected(k)
  PROVE  \E pairs \in SUBSET Pairs, source \in SUBSET Pairs :
           /\ pairs = In(drain.channel, Found(k)) /\ source = {<<k, drain.channel>>}
           /\ drain'.causes = Recorded(drain.causes, pairs, source)
<1>. DEFINE pairs == In(drain.channel, Found(k))
            source == {<<k, drain.channel>>}
<1>1. /\ drain'.causes = Recorded(drain.causes, pairs, source) /\ Found(k) \in SUBSET Keys
      /\ drain \in Selecting
  BY DEF Collected
<1>2. drain.channel \in Channels
  BY <1>1 DEF Selecting
<1>3. pairs \in SUBSET Pairs /\ source \in SUBSET Pairs
  BY <1>1, <1>2, InMembers DEF Pairs
<1>. QED
  BY <1>1, <1>3

\* Every key collected gets a cause (collect_affected).
LEMMA CollectedDelivers ==
  ASSUME Progress, Delivery, NEW k \in Keys, Collected(k)
  PROVE  Delivery'
<1>1. Types /\ drain \in Selecting /\ drain' \in Selecting /\ drain'.phase = "collect"
      /\ drain'.seen = drain.seen /\ drain'.trace = drain.trace
  BY DEF Progress, Collected, SameRequest
<1>2. PICK pairs \in SUBSET Pairs, source \in SUBSET Pairs :
        /\ pairs = In(drain.channel, Found(k)) /\ source = {<<k, drain.channel>>}
        /\ drain'.causes = Recorded(drain.causes, pairs, source)
  BY <1>1, CollectedRecords
<1>3. drain.trace => DOMAIN drain'.causes = DOMAIN drain.causes \cup pairs
  BY <1>1, <1>2, RecordedIn DEF Noted
<1>4. Held' = Held \cup pairs
  BY <1>1, <1>2, CollectedHolds
<1>5. drain'.trace => Held' \cup drain'.seen \subseteq DOMAIN drain'.causes
  BY <1>1, <1>3, <1>4 DEF Delivery
<1>6. drain'.phase # "follow"
  BY <1>1
<1>. QED
  BY <1>1, <1>5, <1>6 DEF Delivery

\* A channel that does not matter to the rules leads nowhere
\* (InvalidationTracker::drain).
LEMMA LeadsNowhere ==
  ASSUME RulesTyped, NEW c \in Channels, ~Crosses(c), NEW p \in In(c, Keys)
  PROVE  CrossSuccessors(p) = {}
<1>1. PICK k \in Keys : p = <<k, c>>
  BY DEF In
<1>2. cascadesFrom[p[2]] = {} /\ crossDependents[p] = {}
  BY <1>1 DEF Crosses, HasSourcesIn
<1>. QED
  BY <1>2 DEF CrossSuccessors

\* The successors of all that is held or retained are put on the worklist
\* (DrainBuilder::take_keys).
LEMMA RetainedDelivers ==
  ASSUME Progress, Delivery, Retained
  PROVE  Delivery'
<1>1. /\ Types /\ drain \in Selecting /\ drain' \in Selecting
      /\ drain.phase = "collect" /\ drain'.seen = drain.seen
      /\ drain'.causes = drain.causes /\ drain'.retained = Beyond
      /\ drain'.work = (IF drain.follow THEN UNION {PushSuccessors(p) : p \in Held \cup Beyond}
                        ELSE {})
      /\ drain'.trace = drain.trace
      /\ \A p : CrossSuccessors(p)' = CrossSuccessors(p)
  BY DEF Progress, Retained, SameRequest, SameRules
<1>2. /\ Held = In(drain.channel, drain.keys) /\ Held' = Held
      /\ drain.channel \in Channels /\ drain.keys \in SUBSET Keys
  BY <1>1, RetainedHolds
<1>3. drain.seen = {} /\ drain.follow = Crosses(drain.channel)
  BY <1>1 DEF Progress, Selection
<1>4. Met' = Held \cup Beyond
  BY <1>1, <1>2, <1>3 DEF Met
<1>5. Held \cup Beyond \subseteq In(drain.channel, Keys)
  BY <1>2 DEF In, Beyond, OutOfScopeDependents, Dependents
<1>6. ASSUME NEW p \in Met', NEW q \in CrossSuccessors(p)
      PROVE  \E i \in drain'.work : i[1] = q
  <2>1. drain.follow
    <3>1. p \in In(drain.channel, Keys) /\ RulesTyped
      BY <1>1, <1>4, <1>5 DEF Types
    <3>. QED
      BY <1>2, <1>3, <1>6, <3>1, LeadsNowhere
  <2>2. <<q, p>> \in PushSuccessors(p) /\ p \in Held \cup Beyond
    BY <1>4, <1>6 DEF PushSuccessors
  <2>3. <<q, p>> \in drain'.work
    BY <1>1, <2>1, <2>2
  <2>. QED
    BY <2>3
<1>7. drain'.trace => Held' \cup drain'.seen \subseteq DOMAIN drain'.causes
  BY <1>1, <1>2 DEF Delivery
<1>. QED
  BY <1>1, <1>6, <1>7 DEF Delivery

\* What Follow tells the recorder.
LEMMA FollowedRecords ==
  ASSUME Types, NEW item \in Pairs \X Pairs, Followed(item)
  PROVE  \E pairs \in SUBSET Pairs, source \in SUBSET Pairs :
           /\ pairs = {item[1]} /\ source = {item[2]}
           /\ Fresh(item[1]) => drain'.causes = Recorded(drain.causes, pairs, source)
           /\ ~Fresh(item[1]) => drain'.causes = drain.causes
<1>. DEFINE pairs == {item[1]}
            source == {item[2]}
<1>1. /\ Fresh(item[1]) => drain'.causes = Recorded(drain.causes, pairs, source)
      /\ ~Fresh(item[1]) => drain'.causes = drain.causes
      /\ pairs \in SUBSET Pairs /\ source \in SUBSET Pairs
  BY DEF Followed
<1>. QED
  BY <1>1

\* A pair followed is met, and its own successors are put on the worklist, unless
\* it was met before (CrossRules::follow).
LEMMA FollowedDelivers ==
  ASSUME Progress, Delivery, NEW item \in Pairs \X Pairs, Followed(item)
  PROVE  Delivery'
<1>1. /\ Types /\ drain \in Selecting /\ drain' \in Selecting
      /\ drain.phase = "follow" /\ item \in drain.work
      /\ drain'.retained = drain.retained
      /\ drain'.seen = drain.seen \cup {item[1]}
      /\ drain'.work = (drain.work \ {item})
                         \cup (IF Fresh(item[1]) THEN PushSuccessors(item[1]) ELSE {})
      /\ drain'.affected = drain.affected /\ drain'.trace = drain.trace
      /\ \A q : CrossSuccessors(q)' = CrossSuccessors(q)
  BY DEF Progress, Followed, SameRequest, SameRules
<1>2. Held' = Held
  BY <1>1, FollowedHolds
<1>3. drain.affected
  BY <1>1 DEF Progress, Selection
<1>4. Met' = Met \cup {item[1]}
  BY <1>1, <1>2 DEF Met
<1>5. ASSUME NEW p \in Met, NEW q \in CrossSuccessors(p)
      PROVE  q \in Held' \cup drain'.seen \/ \E i \in drain'.work : i[1] = q
  <2>1. q \in Held \cup drain.seen \/ \E i \in drain.work : i[1] = q
    BY <1>1, <1>3 DEF Delivery
  <2>2. CASE q \in Held \cup drain.seen
    BY <1>1, <1>2, <2>2
  <2>3. ASSUME NEW i \in drain.work, i[1] = q
        PROVE  q \in drain'.seen \/ \E j \in drain'.work : j[1] = q
    <3>1. CASE i = item
      BY <1>1, <2>3, <3>1
    <3>2. CASE i # item
      BY <1>1, <2>3, <3>2
    <3>. QED
      BY <3>1, <3>2
  <2>. QED
    BY <2>1, <2>2, <2>3
<1>6. ASSUME NEW p \in Met', NEW q \in CrossSuccessors(p)
      PROVE  q \in Held' \cup drain'.seen \/ \E i \in drain'.work : i[1] = q
  <2>1. CASE p \in Met
    BY <1>5, <1>6, <2>1
  <2>2. CASE p \notin Met
    <3>1. p = item[1] /\ Fresh(item[1])
      BY <1>4, <1>6, <2>2 DEF Fresh, Met
    <3>2. <<q, p>> \in drain'.work
      BY <1>1, <1>6, <3>1 DEF PushSuccessors
    <3>3. <<q, p>>[1] = q
      OBVIOUS
    <3>. QED
      BY <3>2, <3>3
  <2>. QED
    BY <2>1, <2>2
<1>7. PICK pairs \in SUBSET Pairs, source \in SUBSET Pairs :
        /\ pairs = {item[1]} /\ source = {item[2]}
        /\ Fresh(item[1]) => drain'.causes = Recorded(drain.causes, pairs, source)
        /\ ~Fresh(item[1]) => drain'.causes = drain.causes
  BY <1>1, FollowedRecords
<1>8. ASSUME drain'.trace PROVE Held' \cup drain'.seen \subseteq DOMAIN drain'.causes
  <2>1. Held \cup drain.seen \subseteq DOMAIN drain.causes /\ drain.trace
    BY <1>1, <1>8 DEF Delivery
  <2>2. CASE Fresh(item[1])
    <3>1. Noted(drain'.causes, drain.causes, pairs, source)
      BY <1>1, <1>7, <2>2, RecordedIn
    <3>2. DOMAIN drain'.causes = DOMAIN drain.causes \cup pairs
      BY <2>1, <3>1 DEF Noted
    <3>. QED
      BY <1>1, <1>2, <1>7, <2>1, <3>2
  <2>3. CASE ~Fresh(item[1])
    BY <1>1, <1>2, <1>7, <2>1, <2>3 DEF Fresh
  <2>. QED
    BY <2>2, <2>3
<1>. QED
  BY <1>1, <1>6, <1>8 DEF Delivery

\* Delivery is kept by every step, given what a drain knows of its progress
\* (DrainBuilder::affected).
LEMMA StepDelivers ==
  ASSUME Progress, Delivery, [Next]_vars
  PROVE  Delivery'
<1>1. Types /\ Steps
  BY StepIs DEF Progress
<1>2. CASE UNCHANGED vars
  BY <1>2, StutterHolds DEF Delivery, SameRules
<1>3. CASE Quiet
  BY <1>3, PhasesApart DEF Quiet, Delivery
<1>4. CASE Opened
  BY <1>1, <1>4, TakenDelivers DEF Opened
<1>5. CASE \E k \in Keys : Collected(k)
  BY <1>5, CollectedDelivers
<1>6. CASE Retained
  BY <1>6, RetainedDelivers
<1>7. CASE \E item \in Pairs \X Pairs : Followed(item)
  BY <1>7, FollowedDelivers
<1>8. CASE Ran
  BY <1>8, PhasesApart DEF Ran, Delivery
<1>9. CASE \E k \in Keys : Yielded(k)
  BY <1>9, PhasesApart DEF Yielded, Delivery
<1>10. CASE Dropped \/ Stopped
  BY <1>10, PhasesApart DEF Dropped, Stopped, Delivery
<1>. QED
  BY <1>1, <1>2, <1>3, <1>4, <1>5, <1>6, <1>7, <1>8, <1>9, <1>10 DEF Steps

\* So it holds of every behaviour of the tracker (DrainBuilder::affected).
LEMMA AlwaysDelivery == Spec => [](Progress /\ Delivery)
<1>1. Init => Delivery
  BY PhasesApart DEF Init, Delivery
<1>2. Progress /\ Delivery /\ [Next]_vars => Delivery'
  BY StepDelivers
<1>. QED
  BY <1>1, <1>2, AlwaysProgress, PTL DEF Spec

\* The pairs that were met are all that the edges across channels lead to.
LEMMA PassedOnWasMet ==
  ASSUME Types, drain \in Selecting, NEW S \in SUBSET Pairs,
         Held \cup drain.retained \subseteq S, \A p \in S : CrossSuccessors(p) \subseteq S
  PROVE  PassedOn \subseteq S
<1>. DEFINE D == [p \in Pairs |-> CrossSuccessors(p)]
            roots == Held \cup drain.retained
<1>1. D \in [Pairs -> SUBSET Pairs]
  BY SuccessorsAre DEF Types
<1>2. ClosedUnder(D, S) /\ roots \in SUBSET Pairs /\ roots \subseteq S
  BY DEF ClosedUnder
<1>3. PassedOn = Closure(D, roots)
  BY DEF PassedOn
<1>. HIDE DEF D, roots
<1>4. Closure(D, roots) = ReachableFrom(D, roots)
  BY <1>1, <1>2, PairsFinite, ClosureReaches
<1>5. ReachableFrom(D, roots) \subseteq S
  BY <1>1, <1>2, ReachableLeast
<1>. QED
  BY <1>3, <1>4, <1>5

\* Before an affected drain hands out its first key, all that cascades and
\* cross-channel edges lead to from what it took or retained is marked or held,
\* and in the trace, for any rules (DrainBuilder::affected).
THEOREM AlwaysDeliversFirst == Spec => []DeliversFirst
<1>1. ASSUME Progress, Delivery PROVE DeliversFirst
  <2>. SUFFICES ASSUME drain.phase = "follow", drain.work = {}, drain.affected
                PROVE  /\ PassedOn \subseteq InFlight
                       /\ drain.trace => PassedOn \ drain.retained \subseteq DOMAIN drain.causes
    BY DEF DeliversFirst
  <2>1. Types /\ drain \in Selecting
    BY <1>1, PhaseTells DEF Progress
  <2>2. drain.channel \in Channels /\ drain.keys \in SUBSET Keys /\ drain.retained \in SUBSET Pairs
        /\ drain.seen \in SUBSET Pairs
    BY <2>1 DEF Selecting
  <2>3. Met \in SUBSET Pairs
    BY <2>1, <2>2, HeldIs, InMembers DEF Met
  <2>4. \A p \in Met : CrossSuccessors(p) \subseteq Held \cup drain.seen
    BY <1>1, <2>1 DEF Delivery
  <2>5. PassedOn \subseteq Met
    <3>1. Held \cup drain.retained \subseteq Met /\ \A p \in Met : CrossSuccessors(p) \subseteq Met
      BY <2>4 DEF Met
    <3>. QED
      BY <2>1, <2>3, <3>1, PassedOnWasMet
  <2>6. Met \subseteq InFlight
    BY <1>1, <2>1 DEF Met, Progress, Selection, InFlight
  <2>7. drain.trace => Held \cup drain.seen \subseteq DOMAIN drain.causes
    BY <1>1, <2>1 DEF Delivery
  <2>8. Met \ drain.retained \subseteq Held \cup drain.seen
    BY DEF Met
  <2>. QED
    BY <2>5, <2>6, <2>7, <2>8
<1>. QED
  BY <1>1, AlwaysDelivery, PTL

-----------------------------------------------------------------------------
(***************************************************************************)
(* The recorder explains what it was told.  A cause, once recorded, stays; *)
(* and a pair is recorded with a source that was recorded before it, or    *)
(* that was retained.                                                      *)
(***************************************************************************)
\* What was blamed for each pair.
Sources(causes) == [q \in Pairs |-> IF q \in DOMAIN causes THEN causes[q] ELSE {}]

PathFrom(causes, retained, p) ==
  \E q \in Pairs :
    /\ Reaches(Sources(causes), p, q)
    /\ (q \in DOMAIN causes /\ causes[q] = {}) \/ q \in retained

\* The causes of pairs, as a relation between pairs (OneParentRecorder).
LEMMA CausesAre ==
  ASSUME NEW causes \in Causes
  PROVE  /\ DOMAIN causes \in SUBSET Pairs
         /\ \A p \in DOMAIN causes : causes[p] \in SUBSET Pairs
         /\ Sources(causes) \in [Pairs -> SUBSET Pairs]
         /\ \A p \in DOMAIN causes : Sources(causes)[p] = causes[p]
<1>1. DOMAIN causes \in SUBSET Pairs /\ \A p \in DOMAIN causes : causes[p] \in SUBSET Pairs
  <2>1. PICK S \in SUBSET Pairs : causes \in [S -> SUBSET Pairs]
    BY DEF Causes
  <2>. QED
    BY <2>1
<1>. QED
  BY <1>1 DEF Sources

\* The first of a drain's causes are its roots, which have none.
LEMMA RootsHavePaths ==
  ASSUME NEW causes \in Causes, NEW retained, NEW p \in DOMAIN causes, causes[p] = {}
  PROVE  PathFrom(causes, retained, p)
<1>1. p \in Pairs
  BY CausesAre
<1>. QED
  BY <1>1, ReachesSelf DEF PathFrom

\* Paths stay as more is recorded, and as more is retained.
LEMMA PathsStay ==
  ASSUME NEW before \in Causes, NEW after \in Causes, NEW retained, NEW more,
         retained \subseteq more, DOMAIN before \subseteq DOMAIN after,
         \A q \in DOMAIN before : after[q] = before[q],
         NEW p, PathFrom(before, retained, p)
  PROVE  PathFrom(after, more, p)
<1>. DEFINE C == Sources(before)
            D == Sources(after)
<1>1. C \in [Pairs -> SUBSET Pairs] /\ D \in [Pairs -> SUBSET Pairs]
  BY CausesAre
<1>2. \A x \in Pairs : C[x] \subseteq D[x]
  BY DEF Sources
<1>3. PICK q \in Pairs : /\ Reaches(C, p, q)
                         /\ (q \in DOMAIN before /\ before[q] = {}) \/ q \in retained
  BY DEF PathFrom
<1>. HIDE DEF C, D
<1>4. Reaches(D, p, q)
  BY <1>1, <1>2, <1>3, ReachesMonotone
<1>5. (q \in DOMAIN after /\ after[q] = {}) \/ q \in more
  BY <1>3
<1>. QED
  BY <1>4, <1>5 DEF PathFrom, D

\* A pair has a path if one that was blamed for it has one, or was retained.
LEMMA SourceGivesPath ==
  ASSUME NEW causes \in Causes, NEW retained, NEW p \in DOMAIN causes,
         NEW s \in causes[p], PathFrom(causes, retained, s) \/ s \in retained
  PROVE  PathFrom(causes, retained, p)
<1>. DEFINE D == Sources(causes)
<1>1. D \in [Pairs -> SUBSET Pairs] /\ p \in Pairs /\ s \in Pairs /\ s \in D[p]
  BY CausesAre
<1>2. PICK q \in Pairs : /\ Reaches(D, s, q)
                         /\ (q \in DOMAIN causes /\ causes[q] = {}) \/ q \in retained
  BY <1>1, ReachesSelf DEF PathFrom
<1>. HIDE DEF D
<1>3. Reaches(D, p, q)
  BY <1>1, <1>2, ReachesFirst
<1>. QED
  BY <1>2, <1>3 DEF PathFrom, D

Paths == drain \in Selecting =>
           \A p \in DOMAIN drain.causes : PathFrom(drain.causes, drain.retained, p)

\* Pairs recorded with a source that has a path, or was retained, have paths.
LEMMA RecordedHavePaths ==
  ASSUME Paths, drain \in Selecting, drain' \in Selecting,
         drain'.retained = drain.retained,
         NEW pairs \in SUBSET Pairs, NEW s \in Pairs,
         s \in drain.retained \/ (drain.trace => s \in DOMAIN drain.causes),
         Noted(drain'.causes, drain.causes, pairs, {s})
  PROVE  Paths'
<1>. DEFINE before == drain.causes
            after == drain'.causes
            retained == drain.retained
<1>1. before \in Causes /\ after \in Causes
  BY DEF Selecting
<1>2. \A p \in DOMAIN before : PathFrom(before, retained, p)
  BY DEF Paths
<1>3. Noted(after, before, pairs, {s}) /\ (s \in retained \/ (drain.trace => s \in DOMAIN before))
  OBVIOUS
<1>. HIDE DEF before, after, retained
<1>4. CASE ~drain.trace
  BY <1>2, <1>3, <1>4 DEF Noted, Paths, before, after, retained
<1>5. CASE drain.trace
  <2>1. /\ DOMAIN after = DOMAIN before \cup pairs
        /\ \A p \in DOMAIN before : after[p] = before[p]
        /\ \A p \in pairs \ DOMAIN before : after[p] = {s}
    BY <1>3, <1>5 DEF Noted
  <2>2. ASSUME NEW p \in DOMAIN before PROVE PathFrom(after, retained, p)
    BY <1>1, <1>2, <2>1, PathsStay
  <2>3. ASSUME NEW p \in pairs \ DOMAIN before PROVE PathFrom(after, retained, p)
    <3>1. s \in after[p] /\ p \in DOMAIN after
      BY <2>1, <2>3
    <3>2. PathFrom(after, retained, s) \/ s \in retained
      BY <1>3, <1>5, <2>2
    <3>. QED
      BY <1>1, <3>1, <3>2, SourceGivesPath
  <2>4. \A p \in DOMAIN after : PathFrom(after, retained, p)
    BY <2>1, <2>2, <2>3
  <2>. QED
    BY <2>4 DEF Paths, after, retained
<1>. QED
  BY <1>4, <1>5

\* A root has no source, and needs none (DrainBuilder::take_keys).
LEMMA TakenExplains ==
  ASSUME NEW c \in Channels, NEW b, Taken(b, c)
  PROVE  Paths'
<1>. DEFINE causes == drain'.causes
            retained == drain'.retained
<1>1. causes \in Causes /\ \A p \in DOMAIN causes : causes[p] = {}
  BY DEF Taken, Selecting
<1>. HIDE DEF causes, retained
<1>2. \A p \in DOMAIN causes : PathFrom(causes, retained, p)
  BY <1>1, RootsHavePaths
<1>. QED
  BY <1>2 DEF Paths, causes, retained

\* A key collected is blamed on one that has a path (collect_affected).
LEMMA CollectedExplains ==
  ASSUME Progress, Delivery, Paths, NEW k \in Keys, Collected(k)
  PROVE  Paths'
<1>. DEFINE s == <<k, drain.channel>>
<1>1. /\ Types /\ drain \in Selecting /\ drain' \in Selecting /\ drain'.retained = drain.retained
      /\ k \in drain.stack
  BY DEF Progress, Collected
<1>2. PICK pairs \in SUBSET Pairs, source \in SUBSET Pairs :
        /\ pairs = In(drain.channel, Found(k)) /\ source = {s}
        /\ drain'.causes = Recorded(drain.causes, pairs, source)
  BY <1>1, CollectedRecords
<1>3. Noted(drain'.causes, drain.causes, pairs, source)
  BY <1>1, <1>2, RecordedIn
<1>4. s \in Pairs /\ s \in Held
  <2>1. Held = In(drain.channel, drain.keys) /\ drain.channel \in Channels
    BY <1>1, CollectedHolds
  <2>2. k \in drain.keys
    BY <1>1 DEF Progress, Selection
  <2>. QED
    BY <2>1, <2>2 DEF In, Pairs
<1>5. drain.trace => s \in DOMAIN drain.causes
  BY <1>1, <1>4 DEF Delivery
<1>. HIDE DEF s
<1>. QED
  BY <1>1, <1>2, <1>3, <1>4, <1>5, RecordedHavePaths

\* A key retained ends a path (retain_out_of_scope_dependents).
LEMMA RetainedExplains ==
  ASSUME Progress, Paths, Retained
  PROVE  Paths'
<1>. DEFINE causes == drain.causes
            before == drain.retained
            after == drain'.retained
<1>1. /\ drain \in Selecting /\ drain'.causes = causes /\ causes \in Causes /\ before = {}
  BY DEF Progress, Selection, Retained, Selecting
<1>2. \A p \in DOMAIN causes : PathFrom(causes, before, p)
  BY <1>1 DEF Paths
<1>. HIDE DEF causes, before, after
<1>3. \A p \in DOMAIN causes : PathFrom(causes, after, p)
  BY <1>1, <1>2, PathsStay
<1>. QED
  BY <1>1, <1>3 DEF Paths, after

\* A pair followed is blamed on one that was met, and so has a path or is
\* retained (CrossRules::follow).
LEMMA FollowedExplains ==
  ASSUME Progress, Delivery, Paths, NEW item \in Pairs \X Pairs, Followed(item)
  PROVE  Paths'
<1>. DEFINE s == item[2]
<1>1. /\ Types /\ drain \in Selecting /\ drain' \in Selecting /\ drain'.retained = drain.retained
      /\ s \in Pairs /\ item \in drain.work
  BY DEF Progress, Followed
<1>2. PICK pairs \in SUBSET Pairs, source \in SUBSET Pairs :
        /\ pairs = {item[1]} /\ source = {s}
        /\ Fresh(item[1]) => drain'.causes = Recorded(drain.causes, pairs, source)
        /\ ~Fresh(item[1]) => drain'.causes = drain.causes
  BY <1>1, FollowedRecords
<1>3. s \in drain.retained \/ (drain.trace => s \in DOMAIN drain.causes)
  <2>1. s \in Met
    BY <1>1 DEF Progress, Selection
  <2>. QED
    BY <1>1, <2>1 DEF Met, Delivery
<1>. HIDE DEF s
<1>4. CASE Fresh(item[1])
  <2>1. Noted(drain'.causes, drain.causes, pairs, source)
    BY <1>1, <1>2, <1>4, RecordedIn
  <2>. QED
    BY <1>1, <1>2, <1>3, <2>1, RecordedHavePaths
<1>5. CASE ~Fresh(item[1])
  BY <1>1, <1>2, <1>5 DEF Paths
<1>. QED
  BY <1>4, <1>5

\* Paths are kept by every step (OneParentRecorder::explain_path).
LEMMA StepExplains ==
  ASSUME Progress, Delivery, Paths, [Next]_vars
  PROVE  Paths'
<1>1. Types /\ Steps
  BY StepIs DEF Progress
<1>2. CASE UNCHANGED vars
  BY <1>2, StutterHolds DEF Paths
<1>3. CASE Quiet
  BY <1>3, PhasesApart DEF Quiet, Paths
<1>4. CASE Opened
  BY <1>4, TakenExplains DEF Opened
<1>5. CASE \E k \in Keys : Collected(k)
  BY <1>5, CollectedExplains
<1>6. CASE Retained
  BY <1>6, RetainedExplains
<1>7. CASE \E item \in Pairs \X Pairs : Followed(item)
  BY <1>7, FollowedExplains
<1>8. CASE Ran
  BY <1>8, PhasesApart DEF Ran, Paths
<1>9. CASE \E k \in Keys : Yielded(k)
  BY <1>9, PhasesApart DEF Yielded, Paths
<1>10. CASE Dropped \/ Stopped
  BY <1>10, PhasesApart DEF Dropped, Stopped, Paths
<1>. QED
  BY <1>1, <1>2, <1>3, <1>4, <1>5, <1>6, <1>7, <1>8, <1>9, <1>10 DEF Steps

\* The recorder's causes lead back to the roots.
LEMMA PathsExplain ==
  ASSUME Progress, Paths
  PROVE  Explained
<1>. SUFFICES ASSUME drain.phase \in {"collect", "follow"}, NEW p \in DOMAIN drain.causes
              PROVE  HasPath(p)
  BY DEF Explained
<1>. DEFINE causes == drain.causes
            D == Sources(causes)
<1>1. drain \in Selecting
  BY PhaseTells DEF Progress
<1>2. causes \in Causes
  BY <1>1 DEF Selecting
<1>3. p \in Pairs /\ D \in [Pairs -> SUBSET Pairs]
  BY <1>2, CausesAre
<1>4. PICK q \in Pairs : /\ Reaches(D, p, q)
                         /\ (q \in DOMAIN causes /\ causes[q] = {}) \/ q \in drain.retained
  BY <1>1 DEF Paths, PathFrom
<1>. HIDE DEF D
<1>5. Closure(D, {p}) = ReachableFrom(D, {p})
  BY <1>3, PairsFinite, ClosureReaches
<1>6. q \in Closure(D, {p})
  BY <1>3, <1>4, <1>5, ReachableFromOne
<1>. QED
  BY <1>4, <1>6 DEF HasPath, D, Sources

\* A traced drain explains whatever it reported: the causes of each pair lead to
\* a root or to a key retained, for any rules, cycles among them
\* (OneParentRecorder::explain_path).
THEOREM AlwaysExplained == Spec => []Explained
<1>1. Init => Paths
  BY PhasesApart DEF Init, Paths
<1>2. Progress /\ Delivery /\ Paths /\ [Next]_vars => Paths'
  BY StepExplains
<1>3. Progress /\ Paths => Explained
  BY PathsExplain
<1>. QED
  BY <1>1, <1>2, <1>3, AlwaysDelivery, PTL DEF Spec

-----------------------------------------------------------------------------
(***************************************************************************)
(* One pass is enough.  All that feeds a settled channel is settled, holds *)
(* no marks, and a drain of it has no keys: so nothing is left that could  *)
(* lead back to it.                                                        *)
(***************************************************************************)
\* The channels before c are settled, and c is not one of them.
FedBySettled(c) == FeedsInto(c) \subseteq settled \ {c}

\* The drain expands, and its scope is the channel.
WholeDrain ==
  (drain \in Selecting /\ WholeBuilder(drain)) \/ (drain \in Iterating /\ drain.whole)

Settlement ==
  /\ OnePass
  /\ \A c \in settled : FedBySettled(c)
  /\ drain # NoDrain /\ drain.channel \in settled => drain.keys = {}
  /\ WholeDrain /\ FedBySettled(drain.channel) =>
       invalidated \cap In(drain.channel, Keys) = {}

\* A pair's channel feeds the channels of its successors (for_each_cross_successor).
LEMMA FeedsAre ==
  ASSUME RulesTyped, NEW p \in Pairs, NEW q \in CrossSuccessors(p)
  PROVE  p[2] \in FeedsInto(q[2])
<1>. DEFINE passed == [d \in Channels |-> UNION {CrossSuccessors(r) : r \in In(d, Keys)}]
            feeds == [d \in Channels |-> {r[2] : r \in passed[d]} \ {d}]
            loops == {d \in Channels : \E k, l \in Keys : <<l, d>> \in crossDependents[<<k, d>>]}
            D == Transposed(feeds)
            c == q[2]
<1>1. q \in Pairs /\ p[2] \in Channels /\ c \in Channels /\ p \in In(p[2], Keys)
  BY PairParts, InMembers, SuccessorsAre
<1>2. FeedsInto(c) = Closure(D, D[c]) \cup (loops \cap {c})
  BY DEF FeedsInto
<1>3. CASE p[2] # c
  <2>1. feeds \in [Channels -> SUBSET Channels]
    <3>1. ASSUME NEW d \in Channels, NEW r \in passed[d] PROVE r[2] \in Channels
      <4>1. PICK s \in In(d, Keys) : r \in CrossSuccessors(s)
        BY <3>1
      <4>2. s \in Pairs
        BY <4>1 DEF In, Pairs
      <4>. QED
        BY <4>1, <4>2, SuccessorsAre, PairParts
    <3>. QED
      BY <3>1
  <2>2. q \in passed[p[2]]
    BY <1>1
  <2>3. c \in feeds[p[2]]
    BY <1>1, <1>3, <2>2
  <2>. HIDE DEF feeds
  <2>4. D \in [Channels -> SUBSET Channels] /\ p[2] \in D[c]
    BY <1>1, <2>1, <2>3 DEF Transposed
  <2>. HIDE DEF D
  <2>5. D[c] \in SUBSET Channels /\ IsFiniteSet(Channels)
    BY <1>1, <2>4, TrackerDrainsAssumption
  <2>6. Closure(D, D[c]) = ReachableFrom(D, D[c])
    BY <2>4, <2>5, ClosureReaches
  <2>7. D[c] \subseteq ReachableFrom(D, D[c])
    BY <2>4, <2>5, ReachableClosed
  <2>. QED
    BY <1>2, <2>4, <2>6, <2>7
<1>4. CASE p[2] = c
  <2>1. q \in crossDependents[p]
    BY <1>1, <1>4, SuccessorsAre DEF RulesTyped
  <2>2. p = <<p[1], c>> /\ q = <<q[1], c>> /\ p[1] \in Keys /\ q[1] \in Keys
    BY <1>1, <1>4, PairParts
  <2>3. <<q[1], c>> \in crossDependents[<<p[1], c>>]
    BY <2>1, <2>2
  <2>. HIDE DEF c
  <2>4. c \in loops
    <3>1. \E k, l \in Keys : <<l, c>> \in crossDependents[<<k, c>>]
      BY <2>2, <2>3
    <3>. QED
      BY <1>1, <3>1
  <2>. HIDE DEF loops, D
  <2>. QED
    BY <1>2, <1>4, <2>4 DEF c
<1>. QED
  BY <1>3, <1>4

\* No work leads to a channel that only settled channels feed.
LEMMA NothingLeadsBack ==
  ASSUME Progress, Settlement, drain \in Selecting, NEW i \in drain.work, FedBySettled(i[1][2])
  PROVE  FALSE
<1>1. i[2] \in Met /\ i[1] \in CrossSuccessors(i[2])
  BY DEF Progress, Selection
<1>2. i \in Pairs \X Pairs /\ drain.channel \in Channels /\ drain.keys \in SUBSET Keys
  BY DEF Selecting
<1>. DEFINE p == i[2]
            q == i[1]
<1>3. p \in Pairs /\ p[2] \in Channels /\ RulesTyped
  BY <1>2, PairParts DEF Progress, Types
<1>4. p[2] \in FeedsInto(q[2])
  <2>. HIDE DEF p, q
  <2>1. q \in CrossSuccessors(p)
    BY <1>1 DEF p, q
  <2>. QED
    BY <1>3, <2>1, FeedsAre
<1>5. p[2] \in settled
  BY <1>4 DEF FedBySettled
<1>6. p \in In(p[2], Keys)
  BY <1>3, InMembers, PairParts
<1>7. p \notin invalidated
  BY <1>5, <1>6 DEF Settlement, OnePass
<1>8. p \in InFlight
  BY <1>1 DEF Met, Progress, Selection, InFlight
<1>9. p \in In(drain.channel, drain.keys)
  BY <1>7, <1>8, HeldIs DEF InFlight
<1>10. p[2] = drain.channel /\ drain.keys # {}
  BY <1>9 DEF In
<1>. QED
  BY <1>5, <1>10, PhasesApart DEF Settlement

\* While a drain goes on, settled channels stay settled if it marks nothing in
\* them, nor in its own channel if it is to settle that.
LEMMA SettlementKept ==
  ASSUME Settlement, SameRules, UNCHANGED settled,
         drain # NoDrain, drain'.channel = drain.channel,
         drain'.keys = drain.keys \/ drain.channel \notin settled,
         WholeDrain' => WholeDrain,
         \A p \in invalidated' :
           \/ p \in invalidated
           \/ /\ p[2] \notin settled
              /\ WholeDrain /\ FedBySettled(drain.channel) => p[2] # drain.channel
  PROVE  Settlement'
<1>1. \A c : FedBySettled(c)' <=> FedBySettled(c)
  BY DEF FedBySettled, SameRules
<1>2. OnePass'
  <2>1. ASSUME NEW c \in settled PROVE invalidated' \cap In(c, Keys) = {}
    BY DEF Settlement, OnePass, In
  <2>. QED
    BY <2>1 DEF OnePass, In
<1>3. \A c \in settled' : FedBySettled(c)'
  BY <1>1 DEF Settlement
<1>4. drain'.channel \in settled' => drain'.keys = {}
  BY DEF Settlement
<1>. DEFINE c == drain.channel
<1>5. ASSUME WholeDrain, FedBySettled(c) PROVE invalidated' \cap In(c, Keys) = {}
  <2>1. invalidated \cap In(c, Keys) = {}
    BY <1>5 DEF Settlement
  <2>2. \A p \in invalidated' : p \in invalidated \/ p[2] # c
    BY <1>5
  <2>. HIDE DEF c
  <2>. QED
    BY <2>1, <2>2 DEF In
<1>6. FedBySettled(drain.channel)' => FedBySettled(c)
  BY DEF FedBySettled, SameRules
<1>7. (invalidated \cap In(drain.channel, Keys))' = invalidated' \cap In(c, Keys)
  BY DEF In
<1>. HIDE DEF c
<1>. QED
  BY <1>2, <1>3, <1>4, <1>5, <1>6, <1>7 DEF Settlement

\* Steps while no drain is in progress take marks away, or unsettle all channels.
LEMMA QuietSettles ==
  ASSUME Settlement, Quiet
  PROVE  Settlement'
<1>1. drain' = NoDrain /\ SameRules
  BY DEF Quiet
<1>2. settled' = {} \/ (settled' = settled /\ invalidated' \subseteq invalidated)
  BY DEF Quiet
<1>3. OnePass' /\ \A c \in settled' : FedBySettled(c)'
  BY <1>1, <1>2 DEF Settlement, OnePass, FedBySettled, SameRules, In
<1>. QED
  BY <1>1, <1>3, PhasesApart DEF Settlement, WholeDrain

\* A drain of a whole channel takes all its marks, and finds none if the channel
\* is settled (DrainBuilder::take_roots).
LEMMA TakenSettles ==
  ASSUME Types, Settlement, NEW c \in Channels, NEW b, Taken(b, c)
  PROVE  Settlement'
<1>1. /\ drain' \in Selecting /\ drain'.channel = c /\ drain'.within = b.within
      /\ drain'.keys = {k \in b.within : <<k, c>> \in invalidated}
      /\ invalidated' = invalidated \ In(c, drain'.keys) /\ settled' = settled /\ SameRules
  BY DEF Taken
<1>2. drain'.keys \in SUBSET Keys
  BY TakenHolds
<1>3. OnePass' /\ \A d \in settled' : FedBySettled(d)'
  BY <1>1 DEF Settlement, OnePass, FedBySettled, SameRules, In
<1>4. c \in settled => drain'.keys = {}
  <2>1. ASSUME c \in settled, NEW k \in drain'.keys PROVE FALSE
    <3>1. <<k, c>> \in invalidated /\ <<k, c>> \in In(c, Keys)
      BY <1>1, <1>2, <2>1 DEF In
    <3>. QED
      BY <2>1, <3>1 DEF Settlement, OnePass
  <2>. QED
    BY <2>1
<1>5. WholeDrain' => invalidated' \cap In(c, Keys) = {}
  <2>1. WholeDrain' => b.within = Keys
    BY <1>1, PhasesApart DEF WholeDrain, WholeBuilder
  <2>. QED
    BY <1>1, <2>1 DEF In
<1>6. (invalidated \cap In(drain.channel, Keys))' = invalidated' \cap In(c, Keys)
  BY <1>1 DEF In
<1>. QED
  BY <1>1, <1>3, <1>4, <1>5, <1>6 DEF Settlement

\* A drain that took nothing finds nothing (collect_affected).
LEMMA CollectedSettles ==
  ASSUME Progress, Settlement, NEW k \in Keys, Collected(k)
  PROVE  Settlement'
<1>1. /\ drain \in Selecting /\ drain' \in Selecting /\ k \in drain.stack
      /\ drain'.channel = drain.channel /\ drain'.within = drain.within
      /\ drain'.affected = drain.affected
      /\ UNCHANGED <<invalidated, settled>> /\ SameRules
  BY DEF Collected, SameRequest
<1>2. drain # NoDrain
  BY <1>1, PhasesApart
<1>3. drain.channel \notin settled
  BY <1>1, <1>2 DEF Progress, Selection, Settlement
<1>4. WholeDrain' => WholeDrain
  BY <1>1, PhasesApart DEF WholeDrain, WholeBuilder
<1>. QED
  BY <1>1, <1>2, <1>3, <1>4, SettlementKept

\* A drain of a whole channel has nothing to retain, and any other leaves
\* settled channels alone (retain_out_of_scope_dependents).
LEMMA RetainedSettles ==
  ASSUME Progress, Settlement, Retained
  PROVE  Settlement'
<1>1. /\ drain \in Selecting /\ drain' \in Selecting /\ drain'.keys = drain.keys
      /\ drain'.channel = drain.channel /\ drain'.within = drain.within
      /\ drain'.affected = drain.affected
      /\ invalidated' = invalidated \cup Beyond /\ UNCHANGED settled /\ SameRules
  BY DEF Retained, SameRequest
<1>2. drain # NoDrain
  BY <1>1, PhasesApart
<1>3. WholeDrain' => WholeDrain
  BY <1>1, PhasesApart DEF WholeDrain, WholeBuilder
<1>4. ASSUME NEW p \in Beyond
      PROVE  p[2] = drain.channel /\ drain.keys # {} /\ drain.within # Keys
  <2>1. PICK d \in OutOfScopeDependents : p = <<d, drain.channel>>
    BY <1>4 DEF Beyond, In
  <2>. QED
    BY <2>1 DEF OutOfScopeDependents, Dependents
<1>5. ASSUME NEW p \in invalidated'
      PROVE  \/ p \in invalidated
             \/ /\ p[2] \notin settled
                /\ WholeDrain /\ FedBySettled(drain.channel) => p[2] # drain.channel
  <2>1. CASE p \in Beyond
    <3>1. p[2] \notin settled
      BY <1>2, <1>4, <2>1 DEF Settlement
    <3>2. ~WholeDrain
      BY <1>1, <1>4, <2>1, PhasesApart DEF WholeDrain, WholeBuilder
    <3>. QED
      BY <3>1, <3>2
  <2>. QED
    BY <1>1, <2>1
<1>. QED
  BY <1>1, <1>2, <1>3, <1>5, SettlementKept

\* Work comes to a channel from one that feeds it; so none comes to a settled
\* one (CrossRules::follow).
LEMMA FollowedSettles ==
  ASSUME Progress, Settlement, NEW item \in Pairs \X Pairs, Followed(item)
  PROVE  Settlement'
<1>1. /\ drain \in Selecting /\ drain' \in Selecting /\ drain'.keys = drain.keys
      /\ drain'.channel = drain.channel /\ drain'.within = drain.within
      /\ drain'.affected = drain.affected /\ item \in drain.work
      /\ invalidated' \subseteq invalidated \cup {item[1]}
      /\ UNCHANGED settled /\ SameRules
  BY DEF Followed, SameRequest
<1>2. drain # NoDrain
  BY <1>1, PhasesApart
<1>3. WholeDrain' => WholeDrain
  BY <1>1, PhasesApart DEF WholeDrain, WholeBuilder
<1>4. ~FedBySettled(item[1][2])
  BY <1>1, NothingLeadsBack
<1>5. item[1][2] \notin settled
  BY <1>4 DEF Settlement
<1>6. ASSUME NEW p \in invalidated'
      PROVE  \/ p \in invalidated
             \/ /\ p[2] \notin settled
                /\ WholeDrain /\ FedBySettled(drain.channel) => p[2] # drain.channel
  BY <1>1, <1>4, <1>5
<1>. QED
  BY <1>1, <1>2, <1>3, <1>6, SettlementKept

\* The iterator has the keys of the builder (DrainBuilder::run).
LEMMA RanSettles ==
  ASSUME Progress, Settlement, Ran
  PROVE  Settlement'
<1>1. /\ drain \in Selecting /\ drain' \in Iterating /\ drain'.keys = drain.keys
      /\ drain'.channel = drain.channel /\ drain'.whole = WholeBuilder(drain)
      /\ UNCHANGED <<invalidated, settled>> /\ SameRules
  BY DEF Ran
<1>2. drain # NoDrain
  BY <1>1, PhasesApart
<1>3. WholeDrain' => WholeDrain
  BY <1>1, PhasesApart DEF WholeDrain
<1>. QED
  BY <1>1, <1>2, <1>3, SettlementKept

\* Handing out a key marks nothing (DrainSorted::next).
LEMMA YieldedSettles ==
  ASSUME Progress, Settlement, NEW k \in Keys, Yielded(k)
  PROVE  Settlement'
<1>1. /\ drain \in Iterating /\ drain' \in Iterating /\ drain'.keys = drain.keys
      /\ drain'.channel = drain.channel /\ drain'.whole = drain.whole
      /\ UNCHANGED <<invalidated, settled>> /\ SameRules
  BY DEF Yielded
<1>2. drain # NoDrain
  BY <1>1, PhasesApart
<1>3. WholeDrain' => WholeDrain
  BY <1>1, PhasesApart DEF WholeDrain
<1>. QED
  BY <1>1, <1>2, <1>3, SettlementKept

\* A drain that ends with nothing held marks nothing, and may settle its
\* channel if what feeds it is settled (Drop for DrainSorted).
LEMMA OverSettles ==
  ASSUME Progress, Settlement, Over
  PROVE  Settlement'
<1>1. /\ drain \in Iterating /\ drain' = NoDrain /\ Held = In(drain.channel, drain.held)
      /\ invalidated' = invalidated \cup Held /\ SameRules
  BY OverHolds DEF Progress, InFlight
<1>2. drain # NoDrain /\ drain.held \subseteq drain.keys /\ drain.keys \subseteq Keys
  BY <1>1, PhasesApart DEF Progress, Iteration, Iterating
<1>3. drain.channel \in settled => Held = {}
  BY <1>1, <1>2 DEF Settlement, In
<1>. DEFINE c == drain.channel
<1>4. \/ settled' = settled
      \/ drain.whole /\ drain.held = {} /\ FedBySettled(c) /\ settled' = settled \cup {c}
  BY DEF Over, Dropped, Stopped, FedBySettled
<1>5. CASE settled' = settled
  <2>1. ASSUME NEW d \in settled PROVE invalidated' \cap In(d, Keys) = {}
    BY <1>1, <1>3, <2>1 DEF Settlement, OnePass, In
  <2>2. OnePass'
    BY <1>5, <2>1 DEF OnePass, In
  <2>3. \A d \in settled' : FedBySettled(d)'
    BY <1>1, <1>5 DEF Settlement, FedBySettled, SameRules
  <2>. QED
    BY <1>1, <2>2, <2>3, PhasesApart DEF Settlement, WholeDrain
<1>6. CASE drain.whole /\ drain.held = {} /\ FedBySettled(c) /\ settled' = settled \cup {c}
  <2>1. invalidated' = invalidated
    BY <1>1, <1>6 DEF In
  <2>2. invalidated \cap In(c, Keys) = {}
    BY <1>1, <1>6 DEF Settlement, WholeDrain
  <2>3. OnePass'
    BY <1>6, <2>1, <2>2 DEF Settlement, OnePass, In
  <2>4. \A d \in settled' : FedBySettled(d)'
    BY <1>1, <1>6 DEF Settlement, FedBySettled, SameRules
  <2>. QED
    BY <1>1, <2>3, <2>4, PhasesApart DEF Settlement, WholeDrain
<1>. QED
  BY <1>4, <1>5, <1>6

\* Settlement is kept by every step (DrainBuilder::affected).
LEMMA StepSettles ==
  ASSUME Progress, Settlement, [Next]_vars
  PROVE  Settlement'
<1>1. Types /\ Steps
  BY StepIs DEF Progress
<1>2. CASE UNCHANGED vars
  <2>1. OnePass' /\ \A c \in settled' : FedBySettled(c)'
    BY <1>2, StutterHolds DEF Settlement, OnePass, In, FedBySettled, SameRules
  <2>2. FedBySettled(drain.channel)' => FedBySettled(drain.channel)
    BY <1>2, StutterHolds DEF FedBySettled, SameRules
  <2>3. WholeDrain' => WholeDrain
    BY <1>2, StutterHolds DEF WholeDrain, WholeBuilder
  <2>4. (invalidated \cap In(drain.channel, Keys))' = invalidated \cap In(drain.channel, Keys)
    BY <1>2, StutterHolds DEF In
  <2>. QED
    BY <1>2, <2>1, <2>2, <2>3, <2>4, StutterHolds DEF Settlement
<1>3. CASE Quiet
  BY <1>3, QuietSettles
<1>4. CASE Opened
  BY <1>1, <1>4, TakenSettles DEF Opened
<1>5. CASE \E k \in Keys : Collected(k)
  BY <1>5, CollectedSettles
<1>6. CASE Retained
  BY <1>6, RetainedSettles
<1>7. CASE \E item \in Pairs \X Pairs : Followed(item)
  BY <1>7, FollowedSettles
<1>8. CASE Ran
  BY <1>8, RanSettles
<1>9. CASE \E k \in Keys : Yielded(k)
  BY <1>9, YieldedSettles
<1>10. CASE Dropped \/ Stopped
  BY <1>10, OverSettles DEF Over
<1>. QED
  BY <1>1, <1>2, <1>3, <1>4, <1>5, <1>6, <1>7, <1>8, <1>9, <1>10 DEF Steps

\* Channels drained in the order in which they feed each other are done with one
\* drain each: no mark comes back to them, for any rules (DrainBuilder::affected).
THEOREM AlwaysOnePass == Spec => []OnePass
<1>1. Init => Settlement
  BY PhasesApart DEF Init, Settlement, OnePass, WholeDrain
<1>2. Progress /\ Settlement /\ [Next]_vars => Settlement'
  BY StepSettles
<1>3. Settlement => OnePass
  BY DEF Settlement
<1>. QED
  BY <1>1, <1>2, <1>3, AlwaysProgress, PTL DEF Spec

-----------------------------------------------------------------------------
(***************************************************************************)
(* Stalled channels.  Where a drain of a pass ends, each key that is still *)
(* held waits for another; so another drain of the channel in that pass    *)
(* finds them as they were and hands out none of them either.              *)
(***************************************************************************)
MarkedIn(c) == {k \in Keys : <<k, c>> \in invalidated}

NoneReady(c, keys) == \A k \in keys : dependencies[c][k] \cap keys # {}

PassState ==
  pass \in Passes =>
    /\ drain \in Selecting => ~drain.affected
    /\ drain # NoDrain => MarkedIn(drain.channel) = {}
    /\ \A c \in pass.done : drain = NoDrain \/ c # drain.channel =>
         (c \in pass.stalled <=> MarkedIn(c) # {}) /\ NoneReady(c, MarkedIn(c))
    /\ drain # NoDrain /\ drain.channel \in pass.done =>
         /\ drain.channel \in pass.stalled <=> drain.keys # {}
         /\ NoneReady(drain.channel, drain.keys)
         /\ drain \in Iterating => drain.held = drain.keys

\* The state of a pass, for as long as its drain goes on and the marks stay.
LEMMA PassStateKept ==
  ASSUME PassState, SameRules, pass' = pass, invalidated' = invalidated,
         (drain' = NoDrain) <=> (drain = NoDrain),
         drain # NoDrain => drain'.channel = drain.channel /\ drain'.keys = drain.keys,
         drain' \in Selecting => drain \in Selecting /\ drain'.affected = drain.affected,
         pass \in Passes /\ drain' \in Iterating /\ drain.channel \in pass.done =>
           drain'.held = drain.keys
  PROVE  PassState'
<1>1. \A c : MarkedIn(c)' = MarkedIn(c)
  BY DEF MarkedIn
<1>2. \A c, S : NoneReady(c, S)' <=> NoneReady(c, S)
  BY DEF NoneReady, SameRules, rules
<1>3. ASSUME drain # NoDrain PROVE MarkedIn(drain.channel)' = MarkedIn(drain.channel)
  BY <1>3 DEF MarkedIn
<1>4. ASSUME drain # NoDrain
      PROVE  NoneReady(drain.channel, drain.keys)' <=> NoneReady(drain.channel, drain.keys)
  BY <1>4 DEF NoneReady, SameRules, rules
<1>5. ASSUME NEW c \in Channels, NoneReady(c, MarkedIn(c))
      PROVE  NoneReady(c, MarkedIn(c))'
  BY <1>1, <1>5 DEF NoneReady, SameRules, rules
<1>. SUFFICES ASSUME pass \in Passes PROVE PassState'
  BY DEF PassState
<1>6. drain' \in Selecting => ~drain'.affected
  BY DEF PassState
<1>7. drain' # NoDrain => MarkedIn(drain.channel)' = {}
  BY <1>3 DEF PassState
<1>8. ASSUME NEW c \in pass.done, drain' = NoDrain \/ c # drain'.channel
      PROVE  (c \in pass.stalled <=> MarkedIn(c)' # {}) /\ NoneReady(c, MarkedIn(c))'
  <2>1. c \in Channels
    BY DEF Passes
  <2>2. (c \in pass.stalled <=> MarkedIn(c) # {}) /\ NoneReady(c, MarkedIn(c))
    BY <1>8 DEF PassState
  <2>. QED
    BY <1>1, <1>5, <2>1, <2>2
<1>9. ASSUME drain' # NoDrain, drain'.channel \in pass.done
      PROVE  /\ drain'.channel \in pass.stalled <=> drain'.keys # {}
             /\ NoneReady(drain.channel, drain.keys)'
             /\ drain' \in Iterating => drain'.held = drain'.keys
  BY <1>4, <1>9 DEF PassState
<1>. QED
  BY <1>6, <1>7, <1>8, <1>9 DEF PassState

\* A drain of a pass takes all marks of its channel; none of them was ready if the
\* channel had its turn before (drain_channels_sorted).
LEMMA TakenInPass ==
  ASSUME Progress, PassState, NEW c \in Channels, NEW b, Taken(b, c), OpenedFor(b, c)
  PROVE  PassState'
<1>. SUFFICES ASSUME pass \in Passes PROVE PassState'
  BY DEF PassState, Taken
<1>1. /\ drain = NoDrain /\ drain' \in Selecting /\ drain'.channel = c
      /\ drain'.affected = b.affected
      /\ drain'.keys = {k \in b.within : <<k, c>> \in invalidated}
      /\ invalidated' = invalidated \ In(c, drain'.keys)
      /\ pass' = pass /\ SameRules
  BY DEF Taken
<1>2. b.affected = FALSE /\ b.within = Keys
  BY PhasesApart DEF OpenedFor
<1>3. drain'.keys = MarkedIn(c)
  BY <1>1, <1>2 DEF MarkedIn
<1>4. MarkedIn(c)' = {}
  BY <1>1, <1>2 DEF MarkedIn, In
<1>5. \A d : d # c => MarkedIn(d)' = MarkedIn(d)
  BY <1>1 DEF MarkedIn, In
<1>6. \A d \in pass.done : (d \in pass.stalled <=> MarkedIn(d) # {}) /\ NoneReady(d, MarkedIn(d))
  BY <1>1 DEF PassState
<1>7. drain' # NoDrain /\ drain' \notin Iterating
  BY <1>1, PhasesApart
<1>8. MarkedIn(drain.channel)' = {}
  BY <1>1, <1>4 DEF MarkedIn
<1>9. ASSUME NEW d \in pass.done, d # c
      PROVE  (d \in pass.stalled <=> MarkedIn(d)' # {}) /\ NoneReady(d, MarkedIn(d))'
  BY <1>1, <1>5, <1>6, <1>9 DEF NoneReady, SameRules, rules
<1>10. ASSUME c \in pass.done
       PROVE  /\ c \in pass.stalled <=> drain'.keys # {}
              /\ NoneReady(drain.channel, drain.keys)'
  BY <1>1, <1>3, <1>6, <1>10 DEF NoneReady, SameRules, rules
<1>. QED
  BY <1>1, <1>2, <1>7, <1>8, <1>9, <1>10 DEF PassState

\* The drains of a pass have nothing to collect or to follow.
LEMMA PassDrainsAreShort ==
  ASSUME Progress, PassState, pass \in Passes, drain \in Selecting
  PROVE  drain.phase = "follow" /\ drain.work = {}
<1>1. drain.phase \in {"collect", "follow"} /\ ~drain.affected
  BY DEF Selecting, PassState
<1>. QED
  BY <1>1 DEF Progress, Selection

\* A drain of a channel that stalled in this pass has no key ready to hand out
\* (drain_channels_sorted).
LEMMA YieldedInPass ==
  ASSUME Progress, PassState, NEW k \in Keys, Yielded(k)
  PROVE  PassState'
<1>1. /\ drain \in Iterating /\ drain' \in Iterating /\ k \in Ready /\ k \in drain.held
      /\ drain'.channel = drain.channel /\ drain'.keys = drain.keys
      /\ UNCHANGED <<invalidated, pass>> /\ SameRules
  BY DEF Yielded
<1>2. ASSUME pass \in Passes, drain.channel \in pass.done PROVE FALSE
  <2>1. NoneReady(drain.channel, drain.keys) /\ drain.held = drain.keys
    BY <1>1, <1>2, PhasesApart DEF PassState
  <2>2. dependencies[drain.channel][k] \cap drain.held = {}
    BY <1>1 DEF Ready
  <2>. QED
    BY <1>1, <2>1, <2>2 DEF NoneReady
<1>. QED
  BY <1>1, <1>2, PhasesApart, PassStateKept

\* Where a drain of a pass ends, each key it holds waits for another, and the
\* channel is listed if there is one (drain_channels_sorted).
LEMMA StoppedInPass ==
  ASSUME Progress, PassState, Stopped
  PROVE  PassState'
<1>. PICK c \in Channels : c = drain.channel
  BY DEF Stopped, Iterating
<1>1. /\ drain \in Iterating /\ drain' = NoDrain /\ Ready = {} /\ pass \in Passes
      /\ pass'.done = pass.done \cup {c}
      /\ pass'.stalled = (IF drain.held = {} THEN pass.stalled ELSE pass.stalled \cup {c})
      /\ SameRules
  BY DEF Stopped
<1>2. /\ Held = In(c, drain.held) /\ invalidated' = invalidated \cup Held
      /\ c \in Channels /\ drain.held \in SUBSET Keys
  <2>1. Types /\ Over
    BY DEF Progress, Over
  <2>. QED
    BY <2>1, OverHolds DEF InFlight
<1>3. drain # NoDrain /\ pass.stalled \subseteq pass.done
  BY <1>1, PhasesApart DEF Progress, PassKept
<1>4. MarkedIn(c) = {}
  BY <1>1, <1>3 DEF PassState
<1>5. MarkedIn(c)' = drain.held
  BY <1>2, <1>4 DEF MarkedIn, In
<1>6. \A d : d # c => MarkedIn(d)' = MarkedIn(d)
  BY <1>2 DEF MarkedIn, In
<1>7. NoneReady(c, drain.held)
  BY <1>1 DEF Ready, NoneReady
<1>8. c \in pass'.stalled <=> drain.held # {}
  <2>1. ASSUME drain.held = {} PROVE c \notin pass.stalled
    <3>1. CASE c \in pass.done
      BY <1>1, <1>3, <2>1, <3>1 DEF PassState
    <3>2. CASE c \notin pass.done
      BY <1>3, <3>2
    <3>. QED
      BY <3>1, <3>2
  <2>. QED
    BY <1>1, <2>1
<1>9. ASSUME NEW d \in pass'.done
      PROVE  (d \in pass'.stalled <=> MarkedIn(d)' # {}) /\ NoneReady(d, MarkedIn(d))'
  <2>1. CASE d = c
    BY <1>1, <1>5, <1>7, <1>8, <2>1 DEF NoneReady, SameRules, rules
  <2>2. CASE d # c
    <3>1. d \in pass.done /\ (d \in pass'.stalled <=> d \in pass.stalled)
      BY <1>1, <1>9, <2>2
    <3>2. (d \in pass.stalled <=> MarkedIn(d) # {}) /\ NoneReady(d, MarkedIn(d))
      BY <1>1, <2>2, <3>1 DEF PassState
    <3>. QED
      BY <1>1, <1>6, <2>2, <3>1, <3>2 DEF NoneReady, SameRules, rules
  <2>. QED
    BY <2>1, <2>2
<1>. QED
  BY <1>1, <1>9, PhasesApart DEF PassState

\* The state of a pass is kept by every step (drain_channels_sorted).
LEMMA StepKeepsPassState ==
  ASSUME Progress, PassState, [Next]_vars
  PROVE  PassState'
<1>1. Types /\ Steps
  BY StepIs DEF Progress
<1>2. CASE UNCHANGED vars
  <2>1. pass \in Passes /\ drain \in Iterating /\ drain.channel \in pass.done =>
          drain.held = drain.keys
    BY PhasesApart DEF PassState
  <2>. QED
    BY <1>2, <2>1, StutterHolds, PassStateKept
<1>3. CASE Quiet
  BY <1>3, PhasesApart DEF Quiet, PassState
<1>4. CASE Opened
  BY <1>4, TakenInPass DEF Opened
<1>5. CASE \E k \in Keys : Collected(k)
  BY <1>5, PassDrainsAreShort DEF Collected, PassState
<1>6. CASE Retained
  BY <1>6, PassDrainsAreShort DEF Retained, PassState
<1>7. CASE \E item \in Pairs \X Pairs : Followed(item)
  BY <1>7, PassDrainsAreShort DEF Followed, PassState
<1>8. CASE Ran
  <2>1. /\ drain \in Selecting /\ drain' \in Iterating /\ drain'.channel = drain.channel
        /\ drain'.keys = drain.keys /\ drain'.held = drain.keys
        /\ UNCHANGED <<invalidated, pass>> /\ SameRules
    BY <1>8 DEF Ran
  <2>. QED
    BY <2>1, PhasesApart, PassStateKept
<1>9. CASE \E k \in Keys : Yielded(k)
  BY <1>9, YieldedInPass
<1>10. CASE Dropped
  BY <1>10, PhasesApart DEF Dropped, PassState
<1>11. CASE Stopped
  BY <1>11, StoppedInPass
<1>. QED
  BY <1>1, <1>2, <1>3, <1>4, <1>5, <1>6, <1>7, <1>8, <1>9, <1>10, <1>11 DEF Steps

\* A pass lists a channel as stalled just if keys of it stay invalidated, for
\* any rules and any order of channels, repeated ones among them
\* (DrainedChannels::stalled).
THEOREM AlwaysStalledListed == Spec => []StalledListed
<1>1. Init => PassState
  BY PhasesApart DEF Init, PassState
<1>2. Progress /\ PassState /\ [Next]_vars => PassState'
  BY StepKeepsPassState
<1>3. ASSUME Progress, PassState PROVE StalledListed
  <2>. SUFFICES ASSUME pass.open,
                       NEW c \in pass.done \ (IF Open THEN {drain.channel} ELSE {})
                PROVE  c \in pass.stalled <=> invalidated \cap In(c, Keys) # {}
    BY DEF StalledListed
  <2>1. pass \in Passes /\ (Open <=> drain # NoDrain)
    BY <1>3, PhaseTells DEF Progress
  <2>2. c \in pass.stalled <=> MarkedIn(c) # {}
    BY <1>3, <2>1 DEF PassState
  <2>3. \A k \in Keys : k \in MarkedIn(c) <=> <<k, c>> \in invalidated \cap In(c, Keys)
    BY DEF MarkedIn, In
  <2>4. \A p \in In(c, Keys) : p[1] \in Keys /\ p = <<p[1], c>>
    BY DEF In
  <2>5. MarkedIn(c) \subseteq Keys
    BY DEF MarkedIn
  <2>6. MarkedIn(c) # {} <=> invalidated \cap In(c, Keys) # {}
    BY <2>3, <2>4, <2>5
  <2>. QED
    BY <2>2, <2>6
<1>. QED
  BY <1>1, <1>2, <1>3, AlwaysProgress, PTL DEF Spec

-----------------------------------------------------------------------------
(***************************************************************************)
(* Drains create no work and lose none.  A careful drain knows that what   *)
(* its keys lead to is marked, or among its keys: when it hands one out,   *)
(* what was owed because of that key is still owed, or was handed out too. *)
(***************************************************************************)
Coverage ==
  /\ drain \in Selecting /\ drain.phase = "collect" =>
       \A k \in drain.keys \ drain.stack :
         Dependents(k, drain.channel) \cap drain.within \subseteq drain.keys
  /\ drain \in Selecting /\ drain.phase = "follow" /\ CarefulBuilder(drain) =>
       \A k \in drain.keys : In(drain.channel, Dependents(k, drain.channel)) \subseteq InFlight
  /\ drain \in Iterating /\ drain.careful =>
       \A k \in drain.keys :
         Flow[<<k, drain.channel>>] \subseteq invalidated \cup In(drain.channel, drain.keys)

\* The roots are all to be expanded (DrainBuilder::take_roots).
LEMMA TakenCovers ==
  ASSUME Types, NEW c \in Channels, NEW b, Taken(b, c)
  PROVE  Coverage'
<1>1. /\ drain' \in Selecting /\ drain'.affected = b.affected
      /\ drain'.phase = (IF b.affected THEN "collect" ELSE "follow")
      /\ drain'.stack = (IF b.affected THEN drain'.keys ELSE {})
  BY DEF Taken
<1>2. drain'.phase = "collect" => drain'.keys \ drain'.stack = {}
  BY <1>1
<1>3. ~(drain'.phase = "follow" /\ CarefulBuilder(drain)')
  BY <1>1 DEF CarefulBuilder
<1>. QED
  BY <1>1, <1>2, <1>3, PhasesApart DEF Coverage

\* A key expanded has its dependents in the scope among the keys
\* (collect_affected).
LEMMA CollectedCovers ==
  ASSUME Progress, Coverage, NEW k \in Keys, Collected(k)
  PROVE  Coverage'
<1>1. /\ drain \in Selecting /\ drain' \in Selecting
      /\ drain.phase = "collect" /\ drain'.phase = "collect"
      /\ drain'.channel = drain.channel /\ drain'.within = drain.within
      /\ drain'.keys = drain.keys \cup Found(k)
      /\ drain'.stack = (drain.stack \ {k}) \cup Found(k)
      /\ \A j, c : Dependents(j, c)' = Dependents(j, c)
  BY DEF Collected, SameRequest, SameRules
<1>. PICK c \in Channels : c = drain.channel
  BY <1>1 DEF Selecting
<1>2. ASSUME NEW j \in drain'.keys \ drain'.stack
      PROVE  Dependents(j, c)' \cap drain'.within \subseteq drain'.keys
  <2>1. Dependents(j, c)' = Dependents(j, c)
    BY <1>1
  <2>2. CASE j = k
    BY <1>1, <2>1, <2>2 DEF Found
  <2>3. CASE j # k
    <3>1. j \in drain.keys \ drain.stack
      BY <1>1, <1>2, <2>3
    <3>2. Dependents(j, c) \cap drain.within \subseteq drain.keys
      BY <1>1, <3>1 DEF Coverage
    <3>. QED
      BY <1>1, <2>1, <3>2
  <2>. QED
    BY <2>2, <2>3
<1>3. ASSUME NEW j \in drain'.keys \ drain'.stack
      PROVE  Dependents(j, drain.channel)' \cap drain'.within \subseteq drain'.keys
  BY <1>1, <1>2
<1>. QED
  BY <1>1, <1>3, PhasesApart DEF Coverage

\* With all keys expanded and what lies outside retained, the dependents of every
\* key are held or marked (retain_out_of_scope_dependents).
LEMMA RetainedCovers ==
  ASSUME Progress, Coverage, Retained
  PROVE  Coverage'
<1>1. /\ drain \in Selecting /\ drain' \in Selecting
      /\ drain.phase = "collect" /\ drain'.phase = "follow" /\ drain.stack = {}
      /\ drain'.keys = drain.keys /\ drain'.channel = drain.channel
      /\ drain'.within = drain.within /\ drain'.retain = drain.retain
      /\ \A j, c : Dependents(j, c)' = Dependents(j, c)
  BY DEF Retained, SameRequest, SameRules
<1>2. /\ Types /\ Held = In(drain.channel, drain.keys) /\ InFlight' = InFlight \cup Beyond
      /\ drain.channel \in Channels /\ drain.keys \in SUBSET Keys
  BY RetainedHolds DEF Progress
<1>. PICK c \in Channels : c = drain.channel
  BY <1>2
<1>3. ASSUME CarefulBuilder(drain)', NEW k \in drain.keys, NEW p \in In(c, Dependents(k, c))
      PROVE  p \in InFlight'
  <2>1. PICK d \in Dependents(k, c) : p = <<d, c>>
    BY <1>3 DEF In
  <2>2. d \in Keys
    BY <2>1 DEF Dependents
  <2>3. CASE d \in drain.within
    <3>1. d \in drain.keys
      BY <1>1, <2>1, <2>3 DEF Coverage
    <3>2. p \in Held
      BY <1>2, <2>1, <3>1 DEF In
    <3>. QED
      BY <1>2, <3>2 DEF InFlight
  <2>4. CASE d \notin drain.within
    <3>1. drain.retain
      BY <1>1, <1>3, <2>2, <2>4 DEF CarefulBuilder
    <3>2. d \in OutOfScopeDependents
      BY <2>1, <2>4 DEF OutOfScopeDependents
    <3>3. p \in Beyond
      BY <2>1, <3>1, <3>2 DEF Beyond, In
    <3>. QED
      BY <1>2, <3>3
  <2>. QED
    BY <2>3, <2>4
<1>4. ASSUME CarefulBuilder(drain)', NEW k \in drain'.keys
      PROVE  In(drain.channel, Dependents(k, drain.channel))' \subseteq InFlight'
  <2>1. Dependents(k, c)' = Dependents(k, c)
    BY <1>1
  <2>2. In(drain.channel, Dependents(k, drain.channel))' = In(c, Dependents(k, c))
    BY <1>1, <2>1 DEF In
  <2>3. k \in drain.keys
    BY <1>1, <1>4
  <2>. QED
    BY <1>3, <1>4, <2>2, <2>3
<1>. QED
  BY <1>1, <1>4, PhasesApart DEF Coverage

\* Following takes no mark away (CrossRules::follow).
LEMMA FollowedCovers ==
  ASSUME Progress, Coverage, NEW item \in Pairs \X Pairs, Followed(item)
  PROVE  Coverage'
<1>1. /\ drain \in Selecting /\ drain' \in Selecting
      /\ drain.phase = "follow" /\ drain'.phase = "follow"
      /\ drain'.keys = drain.keys /\ drain'.channel = drain.channel
      /\ drain'.affected = drain.affected
      /\ drain'.within = drain.within /\ drain'.retain = drain.retain
      /\ \A j, c : Dependents(j, c)' = Dependents(j, c)
  BY DEF Followed, SameRequest, SameRules
<1>2. InFlight \subseteq InFlight' /\ drain.channel \in Channels
  BY FollowedHolds DEF Progress
<1>. PICK c \in Channels : c = drain.channel
  BY <1>2
<1>3. CarefulBuilder(drain)' => CarefulBuilder(drain)
  BY <1>1 DEF CarefulBuilder
<1>4. ASSUME CarefulBuilder(drain)', NEW k \in drain'.keys
      PROVE  In(drain.channel, Dependents(k, drain.channel))' \subseteq InFlight'
  <2>1. Dependents(k, c)' = Dependents(k, c)
    BY <1>1
  <2>2. In(drain.channel, Dependents(k, drain.channel))' = In(c, Dependents(k, c))
    BY <1>1, <2>1 DEF In
  <2>3. In(c, Dependents(k, c)) \subseteq InFlight
    BY <1>1, <1>3, <1>4 DEF Coverage
  <2>. QED
    BY <1>2, <2>2, <2>3
<1>. QED
  BY <1>1, <1>4, PhasesApart DEF Coverage

\* With all followed, what a key of a careful drain leads to, in any channel, is
\* marked or a key of the drain (DrainBuilder::run).
LEMMA RanCovers ==
  ASSUME Progress, Delivery, Coverage, Ran
  PROVE  Coverage'
<1>1. /\ drain \in Selecting /\ drain' \in Iterating
      /\ drain.phase = "follow" /\ drain.work = {}
      /\ drain'.keys = drain.keys /\ drain'.channel = drain.channel
      /\ drain'.careful = CarefulBuilder(drain)
      /\ invalidated' = invalidated /\ Flow' = Flow
  BY DEF Ran, SameRules
<1>2. Held = In(drain.channel, drain.keys) /\ drain.channel \in Channels
      /\ drain.keys \in SUBSET Keys
  BY RanHolds DEF Progress
<1>. PICK c \in Channels : c = drain.channel
  BY <1>2
<1>3. ASSUME CarefulBuilder(drain), NEW k \in drain.keys
      PROVE  Flow[<<k, c>>] \subseteq InFlight
  <2>1. <<k, c>> \in Pairs /\ <<k, c>> \in Held /\ <<k, c>>[1] = k /\ <<k, c>>[2] = c
    BY <1>2 DEF In, Pairs
  <2>2. Flow[<<k, c>>] = In(c, Dependents(k, c)) \cup CrossSuccessors(<<k, c>>)
    BY <2>1, FlowIs DEF Progress, Types
  <2>3. In(c, Dependents(k, c)) \subseteq InFlight
    BY <1>1, <1>3 DEF Coverage
  <2>4. drain.affected
    BY <1>3 DEF CarefulBuilder
  <2>5. CrossSuccessors(<<k, c>>) \subseteq Held \cup drain.seen
    BY <1>1, <2>1, <2>4 DEF Delivery, Met
  <2>6. Held \cup drain.seen \subseteq InFlight
    BY <1>1 DEF Progress, Selection, InFlight
  <2>. QED
    BY <2>2, <2>3, <2>5, <2>6
<1>4. ASSUME drain'.careful, NEW k \in drain'.keys
      PROVE  Flow'[<<k, drain'.channel>>] \subseteq invalidated' \cup In(drain.channel, drain.keys)'
  <2>1. k \in drain.keys /\ CarefulBuilder(drain)
    BY <1>1, <1>4
  <2>2. In(drain.channel, drain.keys)' = Held
    BY <1>1, <1>2 DEF In
  <2>3. Flow[<<k, c>>] \subseteq InFlight
    BY <1>3, <2>1
  <2>. QED
    BY <1>1, <2>2, <2>3 DEF InFlight
<1>. QED
  BY <1>1, <1>4, PhasesApart DEF Coverage

\* Handing out a key does not change what the keys lead to (DrainSorted::next).
LEMMA YieldedCovers ==
  ASSUME Progress, Coverage, NEW k \in Keys, Yielded(k)
  PROVE  Coverage'
<1>1. /\ drain \in Iterating /\ drain' \in Iterating
      /\ drain'.keys = drain.keys /\ drain'.channel = drain.channel
      /\ drain'.careful = drain.careful
      /\ invalidated' = invalidated /\ Flow' = Flow
  BY DEF Yielded, SameRules
<1>2. In(drain.channel, drain.keys)' = In(drain.channel, drain.keys)
  BY <1>1 DEF In
<1>3. ASSUME drain'.careful, NEW j \in drain'.keys
      PROVE  Flow'[<<j, drain'.channel>>] \subseteq invalidated' \cup In(drain.channel, drain.keys)'
  BY <1>1, <1>2, <1>3 DEF Coverage
<1>. QED
  BY <1>1, <1>3, PhasesApart DEF Coverage

\* Coverage is kept by every step (DrainBuilder::affected,
\* retain_out_of_scope).
LEMMA StepCovers ==
  ASSUME Progress, Delivery, Coverage, [Next]_vars
  PROVE  Coverage'
<1>1. Types /\ Steps
  BY StepIs DEF Progress
<1>2. CASE UNCHANGED vars
  <2>1. /\ drain' = drain /\ invalidated' = invalidated /\ InFlight' = InFlight /\ Flow' = Flow
        /\ UNCHANGED rules
    BY <1>2, StutterHolds DEF SameRules
  <2>2. dependencies' = dependencies
    BY <2>1 DEF rules
  <2>3. \A k : Dependents(k, drain.channel)' = Dependents(k, drain.channel)
    BY <2>1, <2>2 DEF Dependents
  <2>4. \A k : In(drain.channel, Dependents(k, drain.channel))'
                 = In(drain.channel, Dependents(k, drain.channel))
    BY <2>1, <2>3 DEF In
  <2>5. In(drain.channel, drain.keys)' = In(drain.channel, drain.keys)
    BY <2>1 DEF In
  <2>6. CarefulBuilder(drain)' <=> CarefulBuilder(drain)
    BY <2>1 DEF CarefulBuilder
  <2>. QED
    BY <2>1, <2>3, <2>4, <2>5, <2>6 DEF Coverage
<1>3. CASE Quiet
  BY <1>3, PhasesApart DEF Quiet, Coverage
<1>4. CASE Opened
  BY <1>1, <1>4, TakenCovers DEF Opened
<1>5. CASE \E k \in Keys : Collected(k)
  BY <1>5, CollectedCovers
<1>6. CASE Retained
  BY <1>6, RetainedCovers
<1>7. CASE \E item \in Pairs \X Pairs : Followed(item)
  BY <1>7, FollowedCovers
<1>8. CASE Ran
  BY <1>8, RanCovers
<1>9. CASE \E k \in Keys : Yielded(k)
  BY <1>9, YieldedCovers
<1>10. CASE Dropped \/ Stopped
  BY <1>10, PhasesApart DEF Dropped, Stopped, Coverage
<1>. QED
  BY <1>1, <1>2, <1>3, <1>4, <1>5, <1>6, <1>7, <1>8, <1>9, <1>10 DEF Steps

\* What some marks come to.
OwedBy(F, S) == UNION {{p} \cup (Closure(F, {p}) \ {p}) : p \in S}

\* What some marks come to is what they reach (transitive_dependents_cross).
LEMMA OwedByReaches ==
  ASSUME NEW F \in [Pairs -> SUBSET Pairs], NEW S \in SUBSET Pairs
  PROVE  OwedBy(F, S) = ReachableFrom(F, S)
<1>1. ASSUME NEW p \in S
      PROVE  {p} \cup (Closure(F, {p}) \ {p}) = ReachableFrom(F, {p})
  <2>1. {p} \in SUBSET Pairs
    OBVIOUS
  <2>2. Closure(F, {p}) = ReachableFrom(F, {p})
    BY <2>1, PairsFinite, ClosureReaches
  <2>3. {p} \subseteq ReachableFrom(F, {p})
    BY <2>1, ReachableClosed
  <2>. QED
    BY <2>2, <2>3
<1>2. OwedBy(F, S) = UNION {ReachableFrom(F, {p}) : p \in S}
  BY <1>1 DEF OwedBy
<1>3. ReachableFrom(F, S) = UNION {ReachableFrom(F, {p}) : p \in S}
  BY DEF ReachableFrom
<1>. QED
  BY <1>2, <1>3

\* Work is owed before and after a step for what is reached from the marks and the
\* keys held, by the same rules (transitive_dependents_cross).
LEMMA OwedIs ==
  ASSUME Types, Types', SameRules
  PROVE  /\ Flow \in [Pairs -> SUBSET Pairs]
         /\ InFlight \in SUBSET Pairs /\ Owed = ReachableFrom(Flow, InFlight)
         /\ InFlight' \in SUBSET Pairs /\ Owed' = ReachableFrom(Flow, InFlight')
<1>1. Flow \in [Pairs -> SUBSET Pairs]
  BY FlowIs DEF Types
<1>2. InFlight \in SUBSET Pairs
  <2>1. Held \in SUBSET Pairs
    <3>1. drain \in Selecting \/ drain \in Iterating =>
            drain.channel \in Channels /\ (drain \in Selecting => drain.keys \in SUBSET Keys)
              /\ (drain \in Iterating => drain.held \in SUBSET Keys)
      BY DEF Selecting, Iterating
    <3>. QED
      BY <3>1, HeldIs, InMembers DEF Types
  <2>. QED
    BY <2>1 DEF Types, InFlight
<1>3. InFlight' \in SUBSET Pairs
  <2>1. Held' \in SUBSET Pairs
    <3>1. drain' \in Selecting \/ drain' \in Iterating =>
            drain'.channel \in Channels /\ (drain' \in Selecting => drain'.keys \in SUBSET Keys)
              /\ (drain' \in Iterating => drain'.held \in SUBSET Keys)
      BY DEF Selecting, Iterating
    <3>. QED
      BY <3>1, HeldIsThen, InMembers DEF Types
  <2>. QED
    BY <2>1 DEF Types, InFlight
<1>4. Owed = OwedBy(Flow, InFlight)
  BY DEF Owed, OwedBy, TransitiveDependentsCross
<1>5. Owed' = OwedBy(Flow', InFlight')
  BY DEF Owed, OwedBy, TransitiveDependentsCross
<1>6. Flow' = Flow
  BY DEF SameRules
<1>. QED
  BY <1>1, <1>2, <1>3, <1>4, <1>5, <1>6, OwedByReaches

\* What KeepsWork says of a step.
WorkKept ==
  Open =>
    /\ Owed' \subseteq Owed
    /\ \E gone \in SUBSET Held :
         /\ Cardinality(gone) <= 1
         /\ InFlight \ InFlight' \subseteq gone
         /\ \A p \in gone : In(p[2], dependencies[p[2]][p[1]]) \cap Held = {}
         /\ Careful => Owed \ Owed' \subseteq HandedOut \cup gone

\* Steps that take nothing out, and add only what was owed.
LEMMA AddingKeeps ==
  ASSUME Types, Types', SameRules, InFlight \subseteq InFlight', InFlight' \subseteq Owed
  PROVE  WorkKept
<1>1. /\ Flow \in [Pairs -> SUBSET Pairs]
      /\ InFlight \in SUBSET Pairs /\ Owed = ReachableFrom(Flow, InFlight)
      /\ InFlight' \in SUBSET Pairs /\ Owed' = ReachableFrom(Flow, InFlight')
  BY OwedIs
<1>2. Owed' = Owed
  <2>. DEFINE F == Flow
              S == InFlight
              T == InFlight'
  <2>1. F \in [Pairs -> SUBSET Pairs] /\ S \in SUBSET Pairs /\ T \in SUBSET Pairs
        /\ S \subseteq T /\ T \subseteq ReachableFrom(F, S)
    BY <1>1
  <2>. HIDE DEF F, S, T
  <2>2. ReachableFrom(F, T) = ReachableFrom(F, S)
    BY <2>1, ReachableMonotone
  <2>. QED
    BY <1>1, <2>2 DEF F, S, T
<1>3. Cardinality({}) = 0
  BY FS_EmptySet
<1>4. {} \in SUBSET Held /\ InFlight \ InFlight' = {} /\ Owed \ Owed' = {}
  BY <1>2
<1>. QED
  BY <1>2, <1>3, <1>4 DEF WorkKept

\* What one step along the flow leads to is owed.
LEMMA OwedCloses ==
  ASSUME Types, Types', SameRules
  PROVE  /\ InFlight \subseteq Owed
         /\ \A p \in InFlight : Flow[p] \subseteq Owed
<1>1. /\ Flow \in [Pairs -> SUBSET Pairs]
      /\ InFlight \in SUBSET Pairs /\ Owed = ReachableFrom(Flow, InFlight)
  BY OwedIs
<1>. DEFINE F == Flow
            S == InFlight
<1>2. F \in [Pairs -> SUBSET Pairs] /\ S \in SUBSET Pairs
  BY <1>1
<1>. HIDE DEF F, S
<1>3. S \subseteq ReachableFrom(F, S) /\ ClosedUnder(F, ReachableFrom(F, S))
  BY <1>2, ReachableClosed
<1>4. S \subseteq ReachableFrom(F, S) /\ \A p \in S : F[p] \subseteq ReachableFrom(F, S)
  BY <1>3 DEF ClosedUnder
<1>. QED
  BY <1>1, <1>4 DEF F, S

\* Collecting adds dependents of keys held, which were owed (collect_affected).
LEMMA CollectedKeeps ==
  ASSUME Progress, Types', NEW k \in Keys, Collected(k)
  PROVE  WorkKept
<1>1. Types /\ SameRules /\ drain \in Selecting /\ k \in drain.stack
  BY DEF Progress, Collected
<1>2. /\ InFlight' = InFlight \cup In(drain.channel, Found(k))
      /\ Held = In(drain.channel, drain.keys) /\ drain.channel \in Channels
  BY <1>1, CollectedHolds
<1>. PICK c \in Channels : c = drain.channel
  BY <1>2
<1>3. <<k, c>> \in Held
  BY <1>1, <1>2 DEF Progress, Selection, In
<1>4. <<k, c>> \in Pairs /\ <<k, c>>[1] = k /\ <<k, c>>[2] = c
  BY DEF Pairs
<1>5. In(c, Dependents(k, c)) \subseteq Flow[<<k, c>>]
  BY <1>1, <1>4, FlowIs DEF Types
<1>6. In(c, Found(k)) \subseteq In(c, Dependents(k, c))
  BY DEF Found, In
<1>7. InFlight \subseteq Owed /\ Flow[<<k, c>>] \subseteq Owed
  BY <1>1, <1>3, OwedCloses DEF InFlight
<1>. QED
  BY <1>1, <1>2, <1>5, <1>6, <1>7, AddingKeeps

\* Retaining marks dependents of keys held, which were owed
\* (retain_out_of_scope_dependents).
LEMMA RetainedKeeps ==
  ASSUME Progress, Types', Retained
  PROVE  WorkKept
<1>1. Types /\ SameRules /\ drain \in Selecting
  BY DEF Progress, Retained
<1>2. /\ InFlight' = InFlight \cup Beyond
      /\ Held = In(drain.channel, drain.keys) /\ drain.channel \in Channels
      /\ drain.keys \in SUBSET Keys
  BY <1>1, RetainedHolds
<1>. PICK c \in Channels : c = drain.channel
  BY <1>2
<1>3. ASSUME NEW p \in Beyond PROVE p \in Owed
  <2>1. PICK d \in OutOfScopeDependents : p = <<d, c>>
    BY <1>3 DEF Beyond, In
  <2>2. PICK k \in drain.keys : d \in Dependents(k, c)
    BY <2>1 DEF OutOfScopeDependents
  <2>3. <<k, c>> \in Held /\ <<k, c>> \in Pairs /\ <<k, c>>[1] = k /\ <<k, c>>[2] = c
    BY <1>2, <2>2 DEF In, Pairs
  <2>4. p \in Flow[<<k, c>>]
    <3>1. p \in In(c, Dependents(k, c))
      BY <2>1, <2>2 DEF In
    <3>. QED
      BY <1>1, <2>3, <3>1, FlowIs DEF Types
  <2>5. Flow[<<k, c>>] \subseteq Owed
    BY <1>1, <2>3, OwedCloses DEF InFlight
  <2>. QED
    BY <2>4, <2>5
<1>4. InFlight \subseteq Owed
  BY <1>1, OwedCloses
<1>. QED
  BY <1>1, <1>2, <1>3, <1>4, AddingKeeps

\* Following marks a successor of a pair met, which was owed
\* (CrossRules::follow).
LEMMA FollowedKeeps ==
  ASSUME Progress, Types', NEW item \in Pairs \X Pairs, Followed(item)
  PROVE  WorkKept
<1>1. Types /\ SameRules /\ drain \in Selecting /\ item \in drain.work
  BY DEF Progress, Followed
<1>2. InFlight' = (IF Fresh(item[1]) THEN InFlight \cup {item[1]} ELSE InFlight)
  BY <1>1, FollowedHolds
<1>3. item[2] \in InFlight /\ item[1] \in CrossSuccessors(item[2]) /\ item[2] \in Pairs
  BY <1>1 DEF Progress, Selection, Met, InFlight
<1>4. item[1] \in Flow[item[2]]
  BY <1>1, <1>3, FlowIs DEF Types
<1>5. InFlight \subseteq Owed /\ Flow[item[2]] \subseteq Owed
  BY <1>1, <1>3, OwedCloses
<1>. QED
  BY <1>1, <1>2, <1>4, <1>5, AddingKeeps

\* The marks and the keys held stay together as they were.
LEMMA StayingKeeps ==
  ASSUME Types, Types', SameRules, InFlight' = InFlight
  PROVE  WorkKept
<1>1. InFlight \subseteq Owed
  BY OwedCloses
<1>. QED
  BY <1>1, AddingKeeps

\* A key is handed out: what is owed no longer was owed because of it, or because
\* of keys that were handed out before it.
LEMMA YieldedKeeps ==
  ASSUME Progress, Coverage, Types', NEW k \in Keys, Yielded(k)
  PROVE  WorkKept
<1>1. /\ Types /\ SameRules /\ drain \in Iterating /\ k \in Ready /\ k \in drain.held
  BY DEF Progress, Yielded
<1>2. /\ Held = In(drain.channel, drain.held) /\ <<k, drain.channel>> \in Held
      /\ Held' = Held \ {<<k, drain.channel>>} /\ invalidated' = invalidated
      /\ drain.channel \in Channels /\ drain.keys \in SUBSET Keys
      /\ drain.held \in SUBSET Keys
  BY <1>1, YieldedHolds
<1>. PICK c \in Channels : c = drain.channel
  BY <1>2
<1>. DEFINE gone == {<<k, c>>}
            F == Flow
            S == InFlight
            T == InFlight'
<1>3. /\ F \in [Pairs -> SUBSET Pairs]
      /\ S \in SUBSET Pairs /\ Owed = ReachableFrom(F, S)
      /\ T \in SUBSET Pairs /\ Owed' = ReachableFrom(F, T)
  BY <1>1, OwedIs
<1>4. T \subseteq S /\ S \subseteq T \cup gone /\ gone \subseteq Pairs
  BY <1>2 DEF InFlight, Pairs
<1>5. invalidated \subseteq T /\ In(c, drain.held) \subseteq T \cup gone
  BY <1>2 DEF InFlight
<1>6. drain.phase = "yield"
  BY <1>1 DEF Iterating
<1>7. HandedOut = In(c, drain.keys \ drain.held) /\ Careful = drain.careful
  BY <1>6 DEF HandedOut, Careful
<1>8. In(c, drain.keys) \subseteq In(c, drain.keys \ drain.held) \cup In(c, drain.held)
  BY DEF In
<1>9. drain.careful => \A j \in drain.keys : F[<<j, c>>] \subseteq invalidated \cup In(c, drain.keys)
  BY <1>1 DEF Coverage
<1>10. gone \subseteq In(c, drain.keys) /\ HandedOut \subseteq In(c, drain.keys)
  <2>1. drain.held \subseteq drain.keys
    BY <1>1 DEF Progress, Iteration
  <2>. QED
    BY <1>1, <1>7, <2>1 DEF In
<1>11. In(c, drain.keys) \in SUBSET Pairs
  BY <1>2, InMembers
<1>. HIDE DEF F, S, T, gone
<1>12. Owed' \subseteq Owed
  BY <1>3, <1>4, ReachableMonotone
<1>13. ASSUME drain.careful PROVE Owed \subseteq Owed' \cup HandedOut \cup gone
  <2>. DEFINE X == ReachableFrom(F, T) \cup In(c, drain.keys)
              Y == ReachableFrom(F, T) \cup HandedOut \cup gone
  <2>1. /\ ReachableFrom(F, T) \in SUBSET Pairs /\ T \subseteq ReachableFrom(F, T)
        /\ \A p \in ReachableFrom(F, T) : F[p] \subseteq ReachableFrom(F, T)
    BY <1>3, ReachableClosed DEF ClosedUnder
  <2>2. X \in SUBSET Pairs
    BY <1>11, <2>1
  <2>3. S \subseteq X
    BY <1>4, <1>10, <2>1
  <2>4. ASSUME NEW p \in X PROVE F[p] \subseteq X
    <3>1. CASE p \in ReachableFrom(F, T)
      BY <2>1, <3>1
    <3>2. CASE p \in In(c, drain.keys)
      <4>1. PICK j \in drain.keys : p = <<j, c>>
        BY <3>2 DEF In
      <4>2. F[p] \subseteq invalidated \cup In(c, drain.keys)
        BY <1>9, <1>13, <4>1
      <4>. QED
        BY <1>5, <2>1, <4>2
    <3>. QED
      BY <2>4, <3>1, <3>2
  <2>5. X \subseteq Y
    BY <1>5, <1>7, <1>8, <2>1
  <2>. HIDE DEF X, Y
  <2>6. ReachableFrom(F, S) \subseteq X
    <3>1. ClosedUnder(F, X)
      BY <2>4 DEF ClosedUnder
    <3>. QED
      BY <1>3, <2>2, <2>3, <3>1, ReachableLeast
  <2>7. Owed \subseteq Y
    BY <1>3, <2>5, <2>6
  <2>. QED
    BY <1>3, <2>7 DEF Y
<1>14. Cardinality(gone) <= 1
  <2>1. Cardinality({<<k, c>>}) = 1
    BY ONLY FS_Singleton, Zenon
  <2>2. Cardinality(gone) = 1
    BY ONLY <2>1, Zenon DEF gone
  <2>. QED
    BY ONLY <2>2, SMT
<1>15. gone \in SUBSET Held /\ InFlight \ InFlight' \subseteq gone
  BY <1>2, <1>4 DEF gone, S, T
<1>16. ASSUME NEW p \in gone PROVE In(p[2], dependencies[p[2]][p[1]]) \cap Held = {}
  <2>1. p[1] = k /\ p[2] = c
    BY <1>16 DEF gone
  <2>2. dependencies[c][k] \cap drain.held = {}
    BY <1>1 DEF Ready
  <2>3. In(c, dependencies[c][k]) \cap In(c, drain.held) = {}
    BY <2>2 DEF In
  <2>. QED
    BY <1>2, <2>1, <2>3
<1>17. Careful => Owed \ Owed' \subseteq HandedOut \cup gone
  BY <1>7, <1>13
<1>. QED
  BY <1>12, <1>14, <1>15, <1>16, <1>17 DEF WorkKept

\* No step makes work or loses any (DrainBuilder::affected, Drop for
\* DrainSorted).
LEMMA StepKeepsWork ==
  ASSUME Progress, Delivery, Coverage, [Next]_vars
  PROVE  [WorkKept]_vars
<1>1. Types /\ Types' /\ Steps
  BY StepIs, StepTypes DEF Progress
<1>2. ASSUME drain = NoDrain PROVE WorkKept
  BY <1>1, <1>2, PhaseTells DEF WorkKept
<1>3. CASE UNCHANGED vars
  BY <1>3
<1>4. CASE Quiet
  BY <1>2, <1>4 DEF Quiet
<1>5. CASE Opened
  BY <1>2, <1>5 DEF Opened, Taken
<1>6. CASE \E k \in Keys : Collected(k)
  BY <1>1, <1>6, CollectedKeeps
<1>7. CASE Retained
  BY <1>1, <1>7, RetainedKeeps
<1>8. CASE \E item \in Pairs \X Pairs : Followed(item)
  BY <1>1, <1>8, FollowedKeeps
<1>9. CASE Ran
  <2>1. SameRules /\ InFlight' = InFlight
    BY <1>1, <1>9, RanHolds DEF Ran
  <2>. QED
    BY <1>1, <2>1, StayingKeeps
<1>10. CASE \E k \in Keys : Yielded(k)
  BY <1>1, <1>10, YieldedKeeps
<1>11. CASE Dropped \/ Stopped
  <2>1. SameRules /\ InFlight' = InFlight
    BY <1>1, <1>11, OverHolds DEF Over
  <2>. QED
    BY <1>1, <2>1, StayingKeeps
<1>. QED
  BY <1>1, <1>3, <1>4, <1>5, <1>6, <1>7, <1>8, <1>9, <1>10, <1>11 DEF Steps

\* No drain creates work, and none loses any: a mark is given back or handed out
\* once nothing it depends on is held, and with a careful drain the only work that
\* ends is that on keys it handed out, for any rules (drain_builder.rs).
THEOREM AlwaysKeepsWork == Spec => KeepsWork
<1>1. Init => Coverage
  BY PhasesApart DEF Init, Coverage
<1>2. Progress /\ Delivery /\ Coverage /\ [Next]_vars => Coverage'
  BY StepCovers
<1>3. Progress /\ Delivery /\ Coverage /\ [Next]_vars => [WorkKept]_vars
  BY StepKeepsWork
<1>. QED
  BY <1>1, <1>2, <1>3, AlwaysDelivery, PTL DEF Spec, KeepsWork, WorkKept

=============================================================================
