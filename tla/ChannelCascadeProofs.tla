------------------------ MODULE ChannelCascadeProofs ------------------------
(***************************************************************************)
(* Proofs about ChannelCascade, for every finite set of channels.          *)
(*                                                                         *)
(* The rules never form a cycle because each is checked when it is added.  *)
(* The table is the closure of the rules because the frontiers of          *)
(* recompute_transitive are disjoint, so there are at most as many as      *)
(* there are channels.  An error's chain ends at its goal because, by the  *)
(* table, the goal is always ahead, and because without a cycle the walk   *)
(* cannot meet a channel twice.                                            *)
(***************************************************************************)
EXTENDS ChannelCascade, ReachabilityTheorems

\* What an insertion needs to know: rules without a cycle.
RulesInv == direct \in Rules /\ RulesAcyclic

\* No rules, no cycle.
LEMMA NoRulesAcyclic == NoRules \in Rules /\ Acyclic(NoRules)
BY DEF NoRules, Rules, Acyclic

\* Insert keeps the rules acyclic, whether it adds or is refused.
LEMMA InsertKeepsRules ==
  ASSUME RulesInv, NEW from \in Channels, NEW to \in Channels,
         NEW refused \in Rules, NEW table, Acyclic(refused),
         Insert(from, to, refused, table)
  PROVE  RulesInv'
<1>. direct \in [Channels -> SUBSET Channels] /\ Acyclic(direct)
  BY DEF RulesInv, RulesAcyclic, Rules
<1>1. CASE outcome'.tag = "Added"
  <2>1. outcome' = AddVerdict(direct, transitive, from, to)
    BY DEF Insert
  <2>2. ~Reaches(direct, to, from)
    BY <1>1, <2>1 DEF AddVerdict, CycleError, Plain, ClosesCycle
  <2>3. direct' = [direct EXCEPT ![from] = @ \cup {to}]
    BY <1>1 DEF Insert, WithRule
  <2>4. Acyclic(direct')
    BY <2>2, <2>3, InsertAcyclic, Zenon
  <2>5. direct' \in [Channels -> SUBSET Channels]
    BY <2>3
  <2>. QED
    BY <2>4, <2>5 DEF RulesInv, RulesAcyclic, Rules
<1>2. CASE outcome'.tag = "AlreadyPresent"
  BY <1>2 DEF Insert, RulesInv, RulesAcyclic
<1>3. CASE outcome'.tag = "CascadeCycleError"
  BY <1>3 DEF Insert, RulesInv, RulesAcyclic
<1>. QED
  BY <1>1, <1>2, <1>3 DEF Insert

\* Fewer rules close no cycle.
LEMMA RemovalKeepsRules ==
  ASSUME RulesInv, NEW from \in Channels, NEW to \in Channels, RemoveCascade(from, to)
  PROVE  RulesInv'
<1>. direct \in [Channels -> SUBSET Channels] /\ Acyclic(direct)
  BY DEF RulesInv, RulesAcyclic, Rules
<1>1. CASE UNCHANGED direct
  BY <1>1 DEF RulesInv, RulesAcyclic
<1>2. CASE direct' = [direct EXCEPT ![from] = @ \ {to}]
  <2>1. direct' \in [Channels -> SUBSET Channels]
    BY <1>2
  <2>2. \A c \in Channels : direct'[c] \subseteq direct[c]
    BY <1>2
  <2>3. Acyclic(direct')
    BY <2>1, <2>2, SubrelationAcyclic
  <2>. QED
    BY <2>1, <2>3 DEF RulesInv, RulesAcyclic, Rules
<1>. QED
  BY <1>1, <1>2 DEF RemoveCascade

\* However a cascade is built, extended and thinned out, its rules never form
\* a cycle (cascade.rs, add_cascade, remove_cascade and from_edges).
THEOREM CascadeAcyclic == Spec => []RulesAcyclic
<1>1. Init => RulesInv
  BY NoRulesAcyclic DEF Init, RulesInv, RulesAcyclic
<1>2. RulesInv /\ [Next]_vars => RulesInv'
  <2>. SUFFICES ASSUME RulesInv, [Next]_vars
                PROVE  RulesInv'
    OBVIOUS
  <2>1. ASSUME NEW from \in Channels, NEW to \in Channels, ApplyEdge(from, to)
        PROVE  RulesInv'
    BY <2>1, NoRulesAcyclic, InsertKeepsRules DEF ApplyEdge
  <2>2. ASSUME NEW from \in Channels, NEW to \in Channels, AddCascade(from, to)
        PROVE  RulesInv'
    BY <2>2, InsertKeepsRules DEF AddCascade, RulesInv, RulesAcyclic
  <2>3. ASSUME NEW from \in Channels, NEW to \in Channels, RemoveCascade(from, to)
        PROVE  RulesInv'
    BY <2>3, RemovalKeepsRules
  <2>4. CASE UNCHANGED direct
    BY <2>4 DEF RulesInv, RulesAcyclic
  <2>. QED
    BY <2>1, <2>2, <2>3, <2>4 DEF Next, vars, FinishBuild
<1>3. RulesInv => RulesAcyclic
  BY DEF RulesInv
<1>. QED
  BY <1>1, <1>2, <1>3, PTL DEF Spec

-----------------------------------------------------------------------------
(***************************************************************************)
(* The loop of recompute_transitive.                                       *)
(***************************************************************************)
LoopStates == [reachable : SUBSET Channels, frontier : SUBSET Channels]

\* A turn leads from one state of the loop to another (recompute_transitive).
LEMMA TurnType ==
  ASSUME NEW rules \in Rules, NEW s \in LoopStates
  PROVE  FollowFrontier(rules, s) \in LoopStates
BY DEF FollowFrontier, LoopStates, Rules

\* The loop starts with the direct targets of the channel as its frontier, and
\* goes from turn to turn (recompute_transitive).
LEMMA TurnByTurn ==
  ASSUME NEW rules \in Rules, NEW c \in Channels
  PROVE  /\ Turns(rules, c) \in [Nat -> LoopStates]
         /\ Turns(rules, c)[0] = [reachable |-> {}, frontier |-> rules[c]]
         /\ \A n \in Nat : Turns(rules, c)[n + 1] = FollowFrontier(rules, Turns(rules, c)[n])
<1>. DEFINE first == [reachable |-> {}, frontier |-> rules[c]]
            Loop(f) == f = [n \in Nat |-> IF n = 0 THEN first ELSE FollowFrontier(rules, f[n - 1])]
            step == [s \in LoopStates |-> FollowFrontier(rules, s)]
<1>1. first \in LoopStates
  BY DEF LoopStates, Rules
<1>2. step \in [LoopStates -> LoopStates]
  BY TurnType
<1>3. Turns(rules, c) = CHOOSE f : Loop(f)
  BY DEF Turns
<1>. HIDE DEF first
<1>4. \E f : Loop(f)
  <2>. HIDE DEF step
  <2>1. PICK f \in [Nat -> LoopStates] : f[0] = first /\ \A n \in Nat : f[n + 1] = step[f[n]]
    BY <1>1, <1>2, LoopRuns
  <2>2. \A n \in Nat : f[n + 1] = FollowFrontier(rules, f[n])
    BY <2>1 DEF step
  <2>3. \A n \in Nat : n # 0 => f[n] = FollowFrontier(rules, f[n - 1])
    <3>1. \A n \in Nat : n # 0 => n - 1 \in Nat /\ n - 1 + 1 = n
      OBVIOUS
    <3>. QED
      BY <2>2, <3>1
  <2>4. Loop(f)
    BY <2>1, <2>3
  <2>. QED
    BY <2>4
<1>. DEFINE turns == Turns(rules, c)
<1>5. Loop(turns)
  BY <1>3, <1>4
<1>. HIDE DEF turns
<1>6. turns[0] = first /\ \A n \in Nat : turns[n + 1] = FollowFrontier(rules, turns[n])
  <2>1. \A n \in Nat : n + 1 \in Nat /\ n + 1 # 0 /\ n + 1 - 1 = n
    OBVIOUS
  <2>. QED
    BY <1>5, <2>1
<1>7. {n \in Nat : turns[n] \in LoopStates} = Nat
  <2>. DEFINE T == {n \in Nat : turns[n] \in LoopStates}
  <2>1. 0 \in T /\ \A n \in T : n + 1 \in T
    BY <1>1, <1>6, TurnType
  <2>2. T \in SUBSET Nat
    OBVIOUS
  <2>. HIDE DEF T
  <2>3. T = Nat
    BY <2>1, <2>2, EveryTurn
  <2>. QED
    BY <2>3 DEF T
<1>8. turns \in [Nat -> LoopStates]
  BY <1>5, <1>7
<1>. QED
  BY <1>6, <1>8 DEF turns, first

\* After n turns the loop has reached only what can be reached, has followed
\* everything but the frontier, and has reached n channels if the frontier is
\* not empty (recompute_transitive).
LEMMA LoopInvariant ==
  ASSUME NEW rules \in Rules, NEW c \in Channels, NEW n \in Nat
  PROVE  LET s == Turns(rules, c)[n]
         IN  /\ s.reachable \cup s.frontier \subseteq ReachableFrom(rules, rules[c])
             /\ rules[c] \subseteq s.reachable \cup s.frontier
             /\ \A x \in s.reachable : rules[x] \subseteq s.reachable \cup s.frontier
             /\ s.reachable \cap s.frontier = {}
             /\ s.frontier # {} => Cardinality(s.reachable) >= n
<1>. DEFINE all == ReachableFrom(rules, rules[c])
            Good(s, m) ==
              /\ s.reachable \cup s.frontier \subseteq all
              /\ rules[c] \subseteq s.reachable \cup s.frontier
              /\ \A x \in s.reachable : rules[x] \subseteq s.reachable \cup s.frontier
              /\ s.reachable \cap s.frontier = {}
              /\ s.frontier # {} => Cardinality(s.reachable) >= m
            turns == Turns(rules, c)
            T == {m \in Nat : Good(turns[m], m)}
<1>0. rules \in [Channels -> SUBSET Channels] /\ rules[c] \in SUBSET Channels
  BY DEF Rules
<1>1. all \in SUBSET Channels /\ rules[c] \subseteq all /\ \A x \in all : rules[x] \subseteq all
  BY <1>0, ReachableClosed DEF ClosedUnder
<1>2. /\ turns \in [Nat -> LoopStates]
      /\ turns[0] = [reachable |-> {}, frontier |-> rules[c]]
      /\ \A m \in Nat : turns[m + 1] = FollowFrontier(rules, turns[m])
  BY TurnByTurn
<1>. HIDE DEF all, turns
<1>3. 0 \in T
  BY <1>1, <1>2, FS_EmptySet
<1>4. ASSUME NEW m \in T PROVE m + 1 \in T
  <2>. DEFINE s == turns[m]
              t == turns[m + 1]
  <2>1. /\ s \in LoopStates /\ t \in LoopStates /\ Good(s, m)
        /\ s.reachable \in SUBSET Channels /\ s.frontier \in SUBSET Channels
    BY <1>2 DEF LoopStates
  <2>2. /\ t.reachable = s.reachable \cup s.frontier
        /\ t.frontier = (UNION {rules[d] : d \in s.frontier}) \ (s.reachable \cup s.frontier)
    <3>1. t = FollowFrontier(rules, s)
      BY <1>2
    <3>. HIDE DEF s, t
    <3>. QED
      BY <3>1 DEF FollowFrontier
  <2>. HIDE DEF s, t
  <2>3. UNION {rules[d] : d \in s.frontier} \subseteq all
    BY <1>1, <2>1
  <2>4. t.reachable \cup t.frontier \subseteq all
    BY <2>1, <2>2, <2>3
  <2>5. rules[c] \subseteq t.reachable \cup t.frontier
    BY <2>1, <2>2
  <2>6. \A x \in t.reachable : rules[x] \subseteq t.reachable \cup t.frontier
    <3>1. ASSUME NEW x \in s.frontier PROVE rules[x] \subseteq t.reachable \cup t.frontier
      BY <2>2
    <3>. QED
      BY <2>1, <2>2, <3>1
  <2>7. t.reachable \cap t.frontier = {}
    BY <2>2
  <2>8. ASSUME t.frontier # {} PROVE Cardinality(t.reachable) >= m + 1
    <3>1. PICK d \in s.frontier : TRUE
      BY <2>2, <2>8
    <3>2. IsFiniteSet(s.reachable) /\ IsFiniteSet(t.reachable)
      BY <2>1, <2>2, FS_Subset, FS_Union, CascadeAssumption
    <3>3. IsFiniteSet(s.reachable \cup {d})
          /\ Cardinality(s.reachable \cup {d}) = Cardinality(s.reachable) + 1
      BY <2>1, <3>1, <3>2, FS_AddElement
    <3>4. Cardinality(s.reachable \cup {d}) <= Cardinality(t.reachable)
      <4>1. (s.reachable \cup {d}) \in SUBSET t.reachable
        BY <2>2, <3>1
      <4>. QED
        BY <3>2, <4>1, FS_Subset
    <3>5. Cardinality(s.reachable) >= m
      BY <2>1, <3>1
    <3>6. Cardinality(s.reachable) \in Nat /\ Cardinality(t.reachable) \in Nat
      BY <3>2, FS_CardinalityType
    <3>. QED
      BY <3>3, <3>4, <3>5, <3>6
  <2>9. Good(t, m + 1)
    BY <2>4, <2>5, <2>6, <2>7, <2>8
  <2>. QED
    BY <2>9 DEF t
<1>5. n \in T
  <2>1. T \in SUBSET Nat
    OBVIOUS
  <2>. HIDE DEF T
  <2>. QED
    BY <1>3, <1>4, <2>1, EveryTurn
<1>. QED
  BY <1>5 DEF all, turns

\* The table is the closure of the rules it is computed from, whatever they
\* are: as many turns as there are channels, and one more, empty the frontier
\* (recompute_transitive).
LEMMA ClosureExact ==
  ASSUME NEW rules \in Rules
  PROVE  /\ Closure(rules) \in Rules
         /\ \A c \in Channels : Closure(rules)[c] = ReachableFrom(rules, rules[c])
<1>. DEFINE N == Cardinality(Channels)
<1>0. N \in Nat /\ rules \in [Channels -> SUBSET Channels]
  BY FS_CardinalityType, CascadeAssumption DEF Rules
<1>1. ASSUME NEW c \in Channels
      PROVE  /\ Turns(rules, c)[N + 1].reachable = ReachableFrom(rules, rules[c])
             /\ Turns(rules, c)[N + 1].reachable \in SUBSET Channels
  <2>. DEFINE s == Turns(rules, c)[N + 1]
              all == ReachableFrom(rules, rules[c])
  <2>1. s \in LoopStates
    <3>1. N + 1 \in Nat
      BY <1>0
    <3>2. Turns(rules, c) \in [Nat -> LoopStates]
      BY TurnByTurn, Zenon
    <3>. HIDE DEF N
    <3>. QED
      BY <3>1, <3>2
  <2>2. /\ s.reachable \cup s.frontier \subseteq all
        /\ rules[c] \subseteq s.reachable \cup s.frontier
        /\ \A x \in s.reachable : rules[x] \subseteq s.reachable \cup s.frontier
        /\ s.frontier # {} => Cardinality(s.reachable) >= N + 1
    BY <1>0, LoopInvariant
  <2>. HIDE DEF s
  <2>3. s.reachable \in SUBSET Channels /\ Cardinality(s.reachable) <= N
        /\ Cardinality(s.reachable) \in Nat
    BY <2>1, FS_Subset, FS_CardinalityType, CascadeAssumption DEF LoopStates
  <2>4. s.frontier = {}
    BY <1>0, <2>2, <2>3
  <2>5. ClosedUnder(rules, s.reachable) /\ rules[c] \subseteq s.reachable
    BY <2>2, <2>4 DEF ClosedUnder
  <2>6. all \subseteq s.reachable
    BY <1>0, <2>3, <2>5, ReachableLeast
  <2>. QED
    BY <2>2, <2>3, <2>6 DEF s
<1>. QED
  BY <1>1 DEF Closure, Rules

-----------------------------------------------------------------------------
(***************************************************************************)
(* The walk of cascade_path.                                               *)
(***************************************************************************)
\* The channel a set yields first is one of the set (ChannelSet::iter).
LEMMA FirstIsOne ==
  ASSUME NEW S \in SUBSET Channels, S # {}
  PROVE  First(S) \in S
<1>1. S \in SUBSET Nat
  BY CascadeAssumption
<1>2. \E c \in S : \A d \in S : c <= d
  BY <1>1, LeastNumber
<1>. QED
  BY <1>2 DEF First

WalkStates == Seq(Channels \cup {Panicked}) \ {<<>>}

\* A step makes a longer walk of a walk, or leaves it as it is (cascade_path).
LEMMA StepType ==
  ASSUME NEW rules \in Rules, NEW table, NEW goal, NEW path \in WalkStates
  PROVE  Stepped(rules, table, goal, path) \in WalkStates
<1>. DEFINE last == path[Len(path)]
            steps == StepsTowards(rules, table, goal, last)
<1>1. path \in Seq(Channels \cup {Panicked}) /\ Len(path) \in Nat /\ Len(path) >= 1
  BY DEF WalkStates
<1>2. last \in Channels \cup {Panicked}
  BY <1>1
<1>. HIDE DEF last
<1>3. CASE last \in {goal, Panicked}
  BY <1>3 DEF Stepped, last
<1>4. CASE last \notin {goal, Panicked}
  <2>1. steps \in SUBSET Channels
    BY <1>2, <1>4 DEF StepsTowards, Rules
  <2>. DEFINE next == IF steps = {} THEN Panicked ELSE First(steps)
  <2>2. next \in Channels \cup {Panicked}
    <3>. HIDE DEF steps
    <3>. QED
      BY <2>1, FirstIsOne
  <2>3. Stepped(rules, table, goal, path) = Append(path, next)
    BY <1>4 DEF Stepped, last
  <2>. HIDE DEF next
  <2>. QED
    BY <1>1, <2>2, <2>3 DEF WalkStates
<1>. QED
  BY <1>3, <1>4

\* walk starts at its first channel and goes step by step.
WalksOn(walk, rules, table, start, goal) ==
  /\ walk[0] = <<start>>
  /\ \A n \in Nat : walk[n + 1] = Stepped(rules, table, goal, walk[n])

\* That is how the path of an error is found (cascade_path).
LEMMA StepByStep ==
  ASSUME NEW rules \in Rules, NEW table, NEW start \in Channels, NEW goal
  PROVE  WalksOn(Walk(rules, table, start, goal), rules, table, start, goal)
<1>. DEFINE first == <<start>>
            Loop(f) == f = [n \in Nat |-> IF n = 0 THEN first
                                                   ELSE Stepped(rules, table, goal, f[n - 1])]
            step == [p \in WalkStates |-> Stepped(rules, table, goal, p)]
<1>1. first \in WalkStates
  BY DEF WalkStates
<1>2. step \in [WalkStates -> WalkStates]
  BY StepType
<1>. DEFINE walk == Walk(rules, table, start, goal)
<1>3. walk = CHOOSE f : Loop(f)
  BY DEF Walk
<1>. HIDE DEF first
<1>4. \E f : Loop(f)
  <2>. HIDE DEF step
  <2>1. PICK f \in [Nat -> WalkStates] : f[0] = first /\ \A n \in Nat : f[n + 1] = step[f[n]]
    BY <1>1, <1>2, LoopRuns
  <2>2. \A n \in Nat : f[n + 1] = Stepped(rules, table, goal, f[n])
    BY <2>1 DEF step
  <2>3. \A n \in Nat : n # 0 => f[n] = Stepped(rules, table, goal, f[n - 1])
    <3>1. \A n \in Nat : n # 0 => n - 1 \in Nat /\ n - 1 + 1 = n
      OBVIOUS
    <3>. QED
      BY <2>2, <3>1
  <2>4. Loop(f)
    BY <2>1, <2>3
  <2>. QED
    BY <2>4
<1>5. Loop(walk)
  BY <1>3, <1>4
<1>. HIDE DEF walk
<1>6. walk[0] = first /\ \A n \in Nat : walk[n + 1] = Stepped(rules, table, goal, walk[n])
  <2>1. \A n \in Nat : n + 1 \in Nat /\ n + 1 # 0 /\ n + 1 - 1 = n
    OBVIOUS
  <2>. QED
    BY <1>5, <2>1
<1>. QED
  BY <1>6 DEF walk, first, WalksOn

\* In a chain of rules each channel leads to all the later ones.
LEMMA ChainReaches ==
  ASSUME NEW rules \in Rules, NEW path \in Seq(Channels),
         \A i \in 1 .. Len(path) - 1 : path[i + 1] \in rules[path[i]],
         NEW i \in 1 .. Len(path), NEW j \in 1 .. Len(path), i <= j
  PROVE  Reaches(rules, path[i], path[j])
<1>. DEFINE T == {n \in Nat : i + n <= Len(path) => Reaches(rules, path[i], path[i + n])}
<1>0. Len(path) \in Nat /\ i \in Nat /\ j \in Nat /\ DOMAIN rules = Channels
  BY DEF Rules
<1>1. 0 \in T
  BY <1>0, ReachesSelf
<1>2. ASSUME NEW n \in T PROVE n + 1 \in T
  <2>. SUFFICES ASSUME i + (n + 1) <= Len(path)
                PROVE  Reaches(rules, path[i], path[i + (n + 1)])
    BY <1>2
  <2>1. n \in Nat /\ Reaches(rules, path[i], path[i + n])
    BY <1>0, <1>2
  <2>2. path[i + n] \in Channels /\ path[i + (n + 1)] \in rules[path[i + n]]
    <3>1. i + n \in 1 .. Len(path) - 1 /\ i + n + 1 = i + (n + 1) /\ i + n \in 1 .. Len(path)
      BY <1>0, <2>1
    <3>. QED
      BY <3>1
  <2>3. path[i] \in Channels /\ rules \in [Channels -> SUBSET Channels]
    BY <1>0 DEF Rules
  <2>. HIDE DEF T
  <2>. QED
    BY <2>1, <2>2, <2>3, ReachesStep
<1>3. T = Nat
  <2>1. T \in SUBSET Nat
    OBVIOUS
  <2>. HIDE DEF T
  <2>. QED
    BY <1>1, <1>2, <2>1, EveryTurn
<1>4. j - i \in T /\ i + (j - i) = j
  <2>1. j - i \in Nat /\ i + (j - i) = j
    BY <1>0
  <2>. HIDE DEF T
  <2>. QED
    BY <1>3, <2>1
<1>5. Reaches(rules, path[i], path[i + (j - i)])
  BY <1>0, <1>4
<1>. QED
  BY <1>4, <1>5

\* Without a cycle it meets no channel twice, so it is not longer than there
\* are channels.
LEMMA ChainIsSimple ==
  ASSUME NEW rules \in Rules, Acyclic(rules), NEW path \in Seq(Channels),
         \A i \in 1 .. Len(path) - 1 : path[i + 1] \in rules[path[i]]
  PROVE  /\ \A i, j \in 1 .. Len(path) : path[i] = path[j] => i = j
         /\ Len(path) <= Cardinality(Channels)
<1>0. Len(path) \in Nat /\ DOMAIN rules = Channels
  BY DEF Rules
<1>1. ASSUME NEW i \in 1 .. Len(path), NEW j \in 1 .. Len(path), i < j, path[i] = path[j]
      PROVE  FALSE
  <2>1. /\ i \in 1 .. Len(path) - 1 /\ i + 1 \in 1 .. Len(path) /\ i + 1 <= j
    BY <1>0, <1>1
  <2>2. path[i] \in Channels /\ path[i + 1] \in rules[path[i]]
    BY <2>1
  <2>3. Reaches(rules, path[i + 1], path[j])
    BY <2>1, ChainReaches
  <2>. QED
    BY <1>0, <1>1, <2>2, <2>3 DEF Acyclic
<1>2. \A i, j \in 1 .. Len(path) : path[i] = path[j] => i = j
  <2>. SUFFICES ASSUME NEW i \in 1 .. Len(path), NEW j \in 1 .. Len(path), path[i] = path[j], i # j
                PROVE  FALSE
    OBVIOUS
  <2>1. i < j \/ j < i
    OBVIOUS
  <2>. QED
    BY <1>1, <2>1
<1>3. Len(path) <= Cardinality(Channels)
  <2>. SUFFICES ASSUME ~(Len(path) <= Cardinality(Channels)) PROVE FALSE
    OBVIOUS
  <2>1. /\ IsFiniteSet(1 .. Len(path)) /\ Cardinality(1 .. Len(path)) = Len(path)
        /\ Cardinality(Channels) \in Nat
    BY <1>0, FS_Interval, FS_CardinalityType, CascadeAssumption
  <2>2. path \in [1 .. Len(path) -> Channels]
    OBVIOUS
  <2>3. Cardinality(Channels) < Cardinality(1 .. Len(path))
    BY <1>0, <2>1
  <2>4. \E x, y \in 1 .. Len(path) : x # y /\ path[x] = path[y]
    BY <2>1, <2>2, <2>3, CascadeAssumption, FS_PigeonHole
  <2>. QED
    BY <1>2, <2>4
<1>. QED
  BY <1>2, <1>3

TableOf(table, rules) ==
  table \in Rules /\ \A c \in Channels : table[c] = ReachableFrom(rules, rules[c])

\* With the table of the rules, a channel that reaches another one has a step
\* towards it, and the other one can be reached from every such step.
LEMMA AlwaysAStep ==
  ASSUME NEW rules \in Rules, NEW table, TableOf(table, rules),
         NEW c \in Channels, NEW goal \in Channels, c # goal, Reaches(rules, c, goal)
  PROVE  LET steps == StepsTowards(rules, table, goal, c)
         IN  /\ steps \in SUBSET Channels /\ steps # {}
             /\ \A d \in steps : d \in rules[c] /\ Reaches(rules, d, goal)
<1>. DEFINE steps == StepsTowards(rules, table, goal, c)
<1>0. rules \in [Channels -> SUBSET Channels] /\ DOMAIN rules = Channels
  BY DEF Rules
<1>1. PICK y \in rules[c] : Reaches(rules, y, goal)
  BY <1>0, ReachesBeyond
<1>2. y \in Channels
  BY <1>0
<1>3. ASSUME y # goal PROVE goal \in table[y]
  <2>1. PICK z \in rules[y] : Reaches(rules, z, goal)
    BY <1>0, <1>1, <1>2, <1>3, ReachesBeyond
  <2>2. goal \in ReachableFrom(rules, rules[y])
    BY <1>0, <2>1 DEF ReachableFrom
  <2>. QED
    BY <1>2, <2>2 DEF TableOf
<1>4. y \in steps
  BY <1>1, <1>3 DEF StepsTowards
<1>5. ASSUME NEW d \in steps PROVE d \in rules[c] /\ Reaches(rules, d, goal)
  <2>1. d \in rules[c] /\ d \in Channels /\ (d = goal \/ goal \in table[d])
    BY <1>0, <1>5 DEF StepsTowards
  <2>2. CASE d = goal
    BY <2>1, <2>2, ReachesSelf
  <2>3. CASE goal \in table[d]
    <3>1. PICK a \in rules[d] : Reaches(rules, a, goal)
      BY <2>1, <2>3 DEF TableOf, ReachableFrom
    <3>. QED
      BY <1>0, <2>1, <3>1, ReachesFirst
  <2>. QED
    BY <2>1, <2>2, <2>3
<1>6. steps \in SUBSET Channels
  BY <1>0 DEF StepsTowards
<1>. QED
  BY <1>4, <1>5, <1>6

\* A chain of rules from a channel, from whose end the goal can be reached.
Towards(path, rules, start, goal) ==
  /\ path \in Seq(Channels) /\ path # <<>> /\ path[1] = start
  /\ \A i \in 1 .. Len(path) - 1 : path[i + 1] \in rules[path[i]]
  /\ Reaches(rules, path[Len(path)], goal)

\* A step of the walk adds a channel to the chain, or the goal was reached.
LEMMA StepTowards ==
  ASSUME NEW rules \in Rules, NEW table, TableOf(table, rules),
         NEW start \in Channels, NEW goal \in Channels,
         NEW path, Towards(path, rules, start, goal)
  PROVE  LET longer == Stepped(rules, table, goal, path)
         IN  IF path[Len(path)] = goal
             THEN longer = path
             ELSE Towards(longer, rules, start, goal) /\ Len(longer) = Len(path) + 1
<1>. DEFINE last == path[Len(path)]
            steps == StepsTowards(rules, table, goal, last)
            next == First(steps)
            longer == Append(path, next)
<1>1. /\ path \in Seq(Channels) /\ Len(path) \in Nat /\ Len(path) >= 1 /\ path[1] = start
      /\ last \in Channels /\ Reaches(rules, last, goal)
      /\ \A i \in 1 .. Len(path) - 1 : path[i + 1] \in rules[path[i]]
  BY DEF Towards
<1>2. CASE last = goal
  BY <1>2 DEF Stepped
<1>3. CASE last # goal
  <2>. HIDE DEF last
  <2>1. last # Panicked
    BY <1>1, CascadeAssumption DEF Panicked
  <2>2. /\ steps \in SUBSET Channels /\ steps # {}
        /\ \A d \in steps : d \in rules[last] /\ Reaches(rules, d, goal)
    BY <1>1, <1>3, AlwaysAStep
  <2>. HIDE DEF steps
  <2>3. next \in steps
    BY <2>2, FirstIsOne
  <2>4. Stepped(rules, table, goal, path) = longer
    BY <1>3, <2>1, <2>2 DEF Stepped, last, steps
  <2>. HIDE DEF next
  <2>5. next \in Channels /\ next \in rules[last] /\ Reaches(rules, next, goal)
    BY <2>2, <2>3
  <2>6. /\ longer \in Seq(Channels) /\ Len(longer) = Len(path) + 1
        /\ longer[Len(longer)] = next
        /\ \A i \in 1 .. Len(path) : longer[i] = path[i]
    BY <1>1, <2>5
  <2>. HIDE DEF longer
  <2>7. ASSUME NEW i \in 1 .. Len(longer) - 1
        PROVE  longer[i + 1] \in rules[longer[i]]
    <3>1. CASE i = Len(path)
      BY <1>1, <2>5, <2>6, <3>1 DEF last
    <3>2. CASE i # Len(path)
      <4>1. i \in 1 .. Len(path) - 1 /\ i \in 1 .. Len(path) /\ i + 1 \in 1 .. Len(path)
        BY <1>1, <2>6, <3>2
      <4>. QED
        BY <1>1, <2>6, <4>1
    <3>. QED
      BY <3>1, <3>2
  <2>8. longer # <<>> /\ longer[1] = start
    BY <1>1, <2>6
  <2>. QED
    BY <1>3, <2>4, <2>5, <2>6, <2>7, <2>8 DEF Towards, last
<1>. QED
  BY <1>2, <1>3

\* The walk ends at its goal, with a chain of rules that meets no channel
\* twice: it takes no more steps than there are channels, and one more that
\* changes nothing (cascade_path).
LEMMA PathIsChain ==
  ASSUME NEW rules \in Rules, Acyclic(rules), NEW table, TableOf(table, rules),
         NEW start \in Channels, NEW goal \in Channels, Reaches(rules, start, goal)
  PROVE  /\ CascadePath(rules, table, start, goal) \in Seq(Channels)
         /\ IsChain(CascadePath(rules, table, start, goal), rules, start, goal)
<1>. DEFINE walk == Walk(rules, table, start, goal)
            N == Cardinality(Channels)
            T == {n \in Nat : /\ Towards(walk[n], rules, start, goal)
                              /\ walk[n][Len(walk[n])] = goal \/ Len(walk[n]) = n + 1}
<1>0. N \in Nat
  BY FS_CardinalityType, CascadeAssumption
<1>1. walk[0] = <<start>> /\ \A n \in Nat : walk[n + 1] = Stepped(rules, table, goal, walk[n])
  <2>1. WalksOn(walk, rules, table, start, goal)
    BY StepByStep
  <2>. HIDE DEF walk
  <2>. QED
    BY <2>1 DEF WalksOn
<1>. HIDE DEF walk
<1>2. 0 \in T
  <2>1. /\ <<start>> \in Seq(Channels) /\ <<start>> # <<>> /\ Len(<<start>>) = 1
        /\ <<start>>[1] = start
    OBVIOUS
  <2>2. Towards(<<start>>, rules, start, goal)
    BY <2>1 DEF Towards
  <2>. QED
    BY <1>1, <2>1, <2>2
<1>3. ASSUME NEW n \in T PROVE n + 1 \in T
  <2>. DEFINE path == walk[n]
              longer == walk[n + 1]
  <2>1. n \in Nat /\ Towards(path, rules, start, goal)
        /\ (path[Len(path)] = goal \/ Len(path) = n + 1)
    OBVIOUS
  <2>2. longer = Stepped(rules, table, goal, path)
    BY <1>1, <2>1
  <2>. HIDE DEF path, longer
  <2>3. IF path[Len(path)] = goal
        THEN longer = path
        ELSE Towards(longer, rules, start, goal) /\ Len(longer) = Len(path) + 1
    BY <2>1, <2>2, StepTowards
  <2>4. /\ Towards(longer, rules, start, goal)
        /\ longer[Len(longer)] = goal \/ Len(longer) = n + 1 + 1
    BY <2>1, <2>3
  <2>. QED
    BY <2>1, <2>4 DEF longer
<1>4. N + 1 \in T
  <2>1. T \in SUBSET Nat
    OBVIOUS
  <2>. HIDE DEF T
  <2>. QED
    BY <1>0, <1>2, <1>3, <2>1, EveryTurn
<1>. DEFINE path == walk[N + 1]
<1>5. /\ Towards(path, rules, start, goal)
      /\ path[Len(path)] = goal \/ Len(path) = N + 1 + 1
  BY <1>4
<1>6. path = CascadePath(rules, table, start, goal)
  BY DEF CascadePath, walk
<1>. HIDE DEF path
<1>7. /\ path \in Seq(Channels) /\ path # <<>> /\ path[1] = start
      /\ \A i \in 1 .. Len(path) - 1 : path[i + 1] \in rules[path[i]]
  BY <1>5 DEF Towards
<1>8. /\ \A i, j \in 1 .. Len(path) : path[i] = path[j] => i = j
      /\ Len(path) <= N
  BY <1>7, ChainIsSimple
<1>9. path[Len(path)] = goal
  BY <1>0, <1>5, <1>8
<1>. QED
  BY <1>6, <1>7, <1>8, <1>9 DEF IsChain

-----------------------------------------------------------------------------
(***************************************************************************)
(* The cascade's tables and its errors.                                    *)
(***************************************************************************)
CascadeInv == TypeOK /\ RulesAcyclic /\ TransitiveExact

\* What add_cascade answers is well typed, and the chain an error carries is
\* one of rules in force that leads back to where the new one starts.
LEMMA VerdictMeaning ==
  ASSUME CascadeInv, NEW from \in Channels, NEW to \in Channels
  PROVE  LET verdict == AddVerdict(direct, transitive, from, to)
         IN  /\ verdict.tag \in {"Added", "AlreadyPresent", "CascadeCycleError"}
             /\ verdict.path \in Seq(Channels)
             /\ verdict.tag = "CascadeCycleError" => IsChain(verdict.path, direct, to, from)
<1>. DEFINE verdict == AddVerdict(direct, transitive, from, to)
            path == CascadePath(direct, transitive, to, from)
<1>1. CASE from = to
  <2>1. verdict = CycleError(<<from>>)
    BY <1>1 DEF AddVerdict
  <2>2. <<from>> \in Seq(Channels) /\ IsChain(<<from>>, direct, to, from)
    BY <1>1 DEF IsChain
  <2>. QED
    BY <2>1, <2>2 DEF CycleError
<1>2. CASE from # to /\ to \in direct[from]
  <2>1. verdict = Plain("AlreadyPresent")
    BY <1>2 DEF AddVerdict
  <2>. QED
    BY <2>1 DEF Plain
<1>3. CASE from # to /\ to \notin direct[from] /\ ClosesCycle(direct, from, to)
  <2>1. verdict = CycleError(path)
    BY <1>3 DEF AddVerdict
  <2>2. direct \in Rules /\ Acyclic(direct) /\ TableOf(transitive, direct)
        /\ Reaches(direct, to, from)
    BY <1>3 DEF CascadeInv, TypeOK, RulesAcyclic, TransitiveExact, TableOf, ClosesCycle
  <2>3. path \in Seq(Channels) /\ IsChain(path, direct, to, from)
    BY <2>2, PathIsChain
  <2>. QED
    BY <2>1, <2>3 DEF CycleError
<1>4. CASE from # to /\ to \notin direct[from] /\ ~ClosesCycle(direct, from, to)
  <2>1. verdict = Plain("Added")
    BY <1>4 DEF AddVerdict
  <2>. QED
    BY <2>1 DEF Plain
<1>. QED
  BY <1>1, <1>2, <1>3, <1>4

\* The table of no rules is the empty one (ChannelCascade::new).
LEMMA NoRulesTable ==
  TableOf(NoRules, NoRules)
<1>1. NoRules \in [Channels -> SUBSET Channels] /\ \A c \in Channels : NoRules[c] = {}
  BY DEF NoRules
<1>2. ReachableFrom(NoRules, {}) = {}
  BY DEF ReachableFrom
<1>. QED
  BY <1>1, <1>2 DEF TableOf, Rules

\* Adding a rule leaves the table exact, whether it is accepted or refused.
LEMMA InsertKeepsTable ==
  ASSUME CascadeInv, NEW from \in Channels, NEW to \in Channels,
         NEW refused \in Rules, NEW table, TableOf(table, refused), Acyclic(refused),
         Insert(from, to, refused, table), building' \in BOOLEAN
  PROVE  CascadeInv'
<1>0. direct \in Rules /\ TableOf(transitive, direct) /\ RulesInv
  BY DEF CascadeInv, TypeOK, TransitiveExact, TableOf, RulesInv
<1>1. RulesInv'
  BY <1>0, InsertKeepsRules
<1>2. /\ outcome'.tag \in {"Added", "AlreadyPresent", "CascadeCycleError"}
      /\ outcome'.path \in Seq(Channels)
  BY VerdictMeaning DEF Insert
<1>3. TableOf(transitive, direct)'
  <2>1. CASE direct' \in Rules /\ transitive' = Closure(direct')
    BY <2>1, ClosureExact DEF TableOf
  <2>2. CASE UNCHANGED <<direct, transitive>>
    BY <1>0, <2>2 DEF TableOf
  <2>3. CASE direct' = refused /\ transitive' = table
    BY <2>3 DEF TableOf
  <2>. QED
    BY <1>1, <2>1, <2>2, <2>3 DEF Insert, RulesInv
<1>. QED
  BY <1>1, <1>2, <1>3 DEF CascadeInv, TypeOK, TransitiveExact, TableOf, RulesInv

\* Types, rules without a cycle and an exact table, together.
THEOREM CascadeInvariant == Spec => []CascadeInv
<1>1. Init => CascadeInv
  BY NoRulesAcyclic, NoRulesTable
     DEF Init, CascadeInv, TypeOK, RulesAcyclic, TransitiveExact, TableOf, NotCalled, Plain
<1>2. CascadeInv /\ [Next]_vars => CascadeInv'
  <2>. SUFFICES ASSUME CascadeInv, [Next]_vars
                PROVE  CascadeInv'
    OBVIOUS
  <2>0. /\ direct \in Rules /\ Acyclic(direct) /\ TableOf(transitive, direct) /\ RulesInv
        /\ building \in BOOLEAN
    BY DEF CascadeInv, TypeOK, TransitiveExact, TableOf, RulesInv, RulesAcyclic
  <2>1. ASSUME NEW from \in Channels, NEW to \in Channels, ApplyEdge(from, to)
        PROVE  CascadeInv'
    <3>1. Insert(from, to, NoRules, NoRules) /\ building' \in BOOLEAN
      BY <2>1 DEF ApplyEdge
    <3>. QED
      BY <3>1, NoRulesAcyclic, NoRulesTable, InsertKeepsTable
  <2>2. ASSUME NEW from \in Channels, NEW to \in Channels, AddCascade(from, to)
        PROVE  CascadeInv'
    <3>1. Insert(from, to, direct, transitive) /\ building' \in BOOLEAN
      BY <2>0, <2>2 DEF AddCascade
    <3>. QED
      BY <2>0, <3>1, InsertKeepsTable
  <2>3. ASSUME NEW from \in Channels, NEW to \in Channels, RemoveCascade(from, to)
        PROVE  CascadeInv'
    <3>1. RulesInv'
      BY <2>0, <2>3, RemovalKeepsRules
    <3>2. /\ outcome'.tag \in {"Removed", "NotFound"} /\ outcome'.path = <<>>
          /\ building' \in BOOLEAN
      BY <2>0, <2>3 DEF RemoveCascade, Plain
    <3>3. TableOf(transitive, direct)'
      <4>1. CASE direct' \in Rules /\ transitive' = Closure(direct')
        BY <4>1, ClosureExact DEF TableOf
      <4>2. CASE UNCHANGED <<direct, transitive>>
        BY <2>0, <4>2 DEF TableOf
      <4>. QED
        BY <2>3, <3>1, <4>1, <4>2 DEF RemoveCascade, RulesInv
    <3>. QED
      BY <3>1, <3>2, <3>3 DEF CascadeInv, TypeOK, TransitiveExact, TableOf, RulesInv
  <2>4. CASE FinishBuild
    <3>1. /\ outcome'.tag = "Built" /\ outcome'.path = <<>> /\ building' \in BOOLEAN
          /\ UNCHANGED <<direct, transitive>>
      BY <2>4 DEF FinishBuild, Plain
    <3>2. <<>> \in Seq(Channels)
      OBVIOUS
    <3>. QED
      BY <3>1, <3>2 DEF CascadeInv, TypeOK, RulesAcyclic, TransitiveExact
  <2>5. CASE UNCHANGED vars
    BY <2>5 DEF vars, CascadeInv, TypeOK, RulesAcyclic, TransitiveExact
  <2>. QED
    BY <2>1, <2>2, <2>3, <2>4, <2>5 DEF Next
<1>. QED
  BY <1>1, <1>2, PTL DEF Spec

\* Both tables keep their types, and the second is the transitive closure of
\* the first after every call, removals and failed builds included (cascade.rs,
\* cascades_from answers from it alone).
THEOREM TablesAreExact == Spec => []TablesExact
<1>1. CascadeInv => TablesExact
  BY DEF CascadeInv, TablesExact
<1>. QED
  BY <1>1, CascadeInvariant, PTL

\* An error carries the cycle the refused rule would have closed
\* (CascadeCycleError::path).
THEOREM ErrorsNameCycles == Spec => ErrorNamesACycle
<1>. DEFINE Named ==
       \A from, to \in Channels :
         (ApplyEdge(from, to) \/ AddCascade(from, to)) /\ outcome'.tag = "CascadeCycleError"
           => IsChain(outcome'.path, direct, to, from)
<1>1. CascadeInv => Named
  <2>. SUFFICES ASSUME CascadeInv, NEW from \in Channels, NEW to \in Channels,
                       ApplyEdge(from, to) \/ AddCascade(from, to),
                       outcome'.tag = "CascadeCycleError"
                PROVE  IsChain(outcome'.path, direct, to, from)
    OBVIOUS
  <2>. DEFINE verdict == AddVerdict(direct, transitive, from, to)
  <2>1. verdict.tag = "CascadeCycleError" => IsChain(verdict.path, direct, to, from)
    BY VerdictMeaning
  <2>2. outcome' = verdict
    BY DEF ApplyEdge, AddCascade, Insert
  <2>. HIDE DEF verdict
  <2>. QED
    BY <2>1, <2>2
<1>2. CascadeInv /\ [Next]_vars => [Named]_vars
  <2>. HIDE DEF Named
  <2>. QED
    BY <1>1
<1>. QED
  BY <1>2, CascadeInvariant, PTL DEF Spec, ErrorNamesACycle

=============================================================================
