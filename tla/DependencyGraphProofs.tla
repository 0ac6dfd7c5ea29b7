----------------------- MODULE DependencyGraphProofs ------------------------
(***************************************************************************)
(* Proofs about DependencyGraph, for every finite set of keys, every set   *)
(* of channels and cycle handlings and both kinds of build.                *)
(*                                                                         *)
(* The argument is in three layers.  First the types and the shape of a    *)
(* replacement in progress (TypeOK, JobShape).  Then the agreement of the  *)
(* four tables (Consistent), which is inductive given the types.  Then     *)
(* acyclicity, which needs both: the cycle check skips its search on the   *)
(* strength of the reverse lists, and the roll-back re-adds edges without  *)
(* a check, so the relation being restored must itself be known acyclic.   *)
(***************************************************************************)
EXTENDS DependencyGraph, ReachabilityTheorems

(***************************************************************************)
(* The types of the operators the actions are built from.                  *)
(***************************************************************************)
LEMMA ListedType ==
  ASSUME NEW list PROVE Listed(list) \in SUBSET Keys
  BY DEF Listed

\* Taking an entry out of a list leaves a list (remove_dependency).
LEMMA WithoutType ==
  ASSUME NEW list \in [Keys -> Nat], NEW k \in Keys
  PROVE  Without(list, k) \in [Keys -> Nat]
  BY DEF Without

\* add_dependency answers with one of its five verdicts.
LEMMA VerdictType ==
  ASSUME NEW from, NEW to, NEW c, NEW h
  PROVE  /\ AddVerdict(from, to, c, h)
              \in {"AlreadyPresent", "Panicked", "CycleIgnored", "CycleError", "Added"}
         /\ Plain(AddVerdict(from, to, c, h)) \in Outcomes
  BY DEF AddVerdict, CycleVerdict, Plain, Returned, Outcomes, Tags

\* A result without lists is a result.
LEMMA PlainType ==
  ASSUME NEW tag \in Tags PROVE Plain(tag) \in Outcomes
  BY DEF Plain, Returned, Outcomes

EdgeTypes ==
  /\ forward \in [Channels -> [Keys -> [Keys -> Nat]]]
  /\ reverse \in [Channels -> [Keys -> [Keys -> Nat]]]
  /\ forwardChannels \in [Keys -> SUBSET Channels]
  /\ reverseChannels \in [Keys -> SUBSET Channels]

\* Adding an edge keeps the types of the four tables (add_dependency).
LEMMA InsertEdgeTypes ==
  ASSUME EdgeTypes, NEW from \in Keys, NEW to \in Keys, NEW c \in Channels,
         InsertEdge(from, to, c)
  PROVE  EdgeTypes'
<1>1. forward' \in [Channels -> [Keys -> [Keys -> Nat]]]
  BY DEF EdgeTypes, InsertEdge
<1>2. reverse' \in [Channels -> [Keys -> [Keys -> Nat]]]
  BY DEF EdgeTypes, InsertEdge
<1>. QED
  BY <1>1, <1>2 DEF EdgeTypes, InsertEdge

\* Removing an edge keeps the types of the four tables (remove_dependency).
LEMMA RemoveEdgeTypes ==
  ASSUME EdgeTypes, NEW from \in Keys, NEW to \in Keys, NEW c \in Channels,
         RemoveEdge(from, to, c)
  PROVE  EdgeTypes'
<1>1. CASE DeleteEdge(from, to, c)
  <2>1. /\ Without(forward[c][from], to) \in [Keys -> Nat]
        /\ Without(reverse[c][to], from) \in [Keys -> Nat]
    <3>1. forward[c][from] \in [Keys -> Nat] /\ reverse[c][to] \in [Keys -> Nat]
      BY DEF EdgeTypes
    <3>. QED
      BY <3>1, WithoutType
  <2>. QED
    BY <1>1, <2>1 DEF EdgeTypes, DeleteEdge, DropIfEmpty
<1>2. CASE UNCHANGED edgeVars
  BY <1>2 DEF EdgeTypes, edgeVars
<1>. QED
  BY <1>1, <1>2 DEF RemoveEdge

\* Removing a key keeps the types of the four tables (remove_key).
LEMMA RemoveKeyTypes ==
  ASSUME EdgeTypes, NEW key \in Keys, RemoveKey(key)
  PROVE  EdgeTypes'
<1>1. ASSUME NEW theirs \in [Channels -> [Keys -> [Keys -> Nat]]],
             NEW mine \in [Channels -> [Keys -> [Keys -> Nat]]], NEW channels
      PROVE  Unlinked(theirs, mine, key, channels) \in [Channels -> [Keys -> [Keys -> Nat]]]
  BY <1>1 DEF Unlinked
<1>2. ASSUME NEW mine \in [Channels -> [Keys -> [Keys -> Nat]]], NEW channels
      PROVE  Emptied(mine, key, channels) \in [Channels -> [Keys -> [Keys -> Nat]]]
  BY <1>2 DEF Emptied
<1>3. ASSUME NEW cached \in [Keys -> SUBSET Channels], NEW unlinked, NEW mine, NEW channels
      PROVE  Unlisted(cached, unlinked, mine, key, channels) \in [Keys -> SUBSET Channels]
  BY <1>3 DEF Unlisted
<1>. QED
  BY <1>1, <1>2, <1>3 DEF EdgeTypes, RemoveKey

(***************************************************************************)
(* Type correctness of the graph.                                          *)
(***************************************************************************)
THEOREM TypeCorrect == Spec => []TypeOK
<1>1. Init => TypeOK
  BY PlainType DEF Init, TypeOK, NoReplace, NotCalled, Tags
<1>2. TypeOK /\ [Next]_vars => TypeOK'
  <2>. SUFFICES ASSUME TypeOK, [Next]_vars PROVE TypeOK'
    OBVIOUS
  <2>0. EdgeTypes
    BY DEF TypeOK, EdgeTypes
  <2>. SUFFICES EdgeTypes' /\ (job \in Jobs \cup {NoReplace})' /\ (outcome \in Outcomes)'
    BY DEF TypeOK, EdgeTypes
  <2>1. CASE ReadOutcome
    BY <2>1, <2>0, PlainType DEF ReadOutcome, TypeOK, EdgeTypes, edgeVars, NotCalled, Tags
  <2>2. ASSUME NEW from \in Keys, NEW to \in Keys, NEW c \in Channels, NEW h \in Handlings,
               AddDependency(from, to, c, h)
        PROVE  EdgeTypes' /\ (job \in Jobs \cup {NoReplace})' /\ (outcome \in Outcomes)'
    BY <2>2, <2>0, InsertEdgeTypes, VerdictType DEF AddDependency, TypeOK, EdgeTypes, edgeVars
  <2>3. ASSUME NEW from \in Keys, NEW to \in Keys, NEW c \in Channels,
               RemoveDependency(from, to, c)
        PROVE  EdgeTypes' /\ (job \in Jobs \cup {NoReplace})' /\ (outcome \in Outcomes)'
    BY <2>3, <2>0, RemoveEdgeTypes, PlainType DEF RemoveDependency, TypeOK, Tags
  <2>4. ASSUME NEW from \in Keys, NEW c \in Channels, NEW to \in SUBSET Keys, NEW h \in Handlings,
               BeginReplace(from, c, to, h)
        PROVE  EdgeTypes' /\ (job \in Jobs \cup {NoReplace})' /\ (outcome \in Outcomes)'
    BY <2>4, <2>0, PlainType
       DEF BeginReplace, TypeOK, EdgeTypes, edgeVars, Tags, Jobs, Dependencies, Listed
  <2>5. CASE ReplaceStep
    <3>0. job \in Jobs
      <4>1. job.phase = "apply" \/ job.phase = "undo"
        BY <2>5, Zenon DEF ReplaceStep, RemoveStale, Adding, AddNew, IgnoreCyclic, FailReplace,
                           PanicReplace, FinishReplace, UndoAddition, UndoRemoval, FinishUndo
      <4>. QED
        BY <4>1 DEF TypeOK, NoReplace
    <3>1. CASE RemoveStale
      <4>1. PICK dep \in job.toRemove :
              /\ job' = [job EXCEPT !.toRemove = @ \ {dep},
                                    !.removed = @ \cup ({dep} \cap
                                                        Dependencies(job.channel)[job.from])]
              /\ RemoveEdge(job.from, dep, job.channel)
              /\ UNCHANGED outcome
        BY <3>1 DEF RemoveStale
      <4>2. dep \in Keys /\ job.from \in Keys /\ job.channel \in Channels
        BY <3>0, <4>1 DEF Jobs
      <4>3. job' \in Jobs
        BY <3>0, <4>1, <4>2 DEF Jobs
      <4>. QED
        BY <4>1, <4>2, <4>3, <2>0, RemoveEdgeTypes DEF TypeOK
    <3>2. ASSUME NEW dep \in Keys, AddNew(dep)
          PROVE  EdgeTypes' /\ (job \in Jobs \cup {NoReplace})' /\ (outcome \in Outcomes)'
      <4>1. job' \in Jobs
        BY <3>0, <3>2 DEF AddNew, Jobs
      <4>2. job.from \in Keys /\ job.channel \in Channels
        BY <3>0 DEF Jobs
      <4>. QED
        BY <4>1, <4>2, <3>2, <2>0, InsertEdgeTypes DEF AddNew, TypeOK
    <3>3. ASSUME NEW dep \in Keys, IgnoreCyclic(dep)
          PROVE  EdgeTypes' /\ (job \in Jobs \cup {NoReplace})' /\ (outcome \in Outcomes)'
      BY <3>0, <3>3, <2>0 DEF IgnoreCyclic, Adding, TypeOK, Jobs, EdgeTypes, edgeVars
    <3>4. ASSUME NEW dep \in Keys, FailReplace(dep)
          PROVE  EdgeTypes' /\ (job \in Jobs \cup {NoReplace})' /\ (outcome \in Outcomes)'
      BY <3>0, <3>4, <2>0 DEF FailReplace, TypeOK, Jobs, EdgeTypes, edgeVars
    <3>5. ASSUME NEW dep \in Keys, PanicReplace(dep)
          PROVE  EdgeTypes' /\ (job \in Jobs \cup {NoReplace})' /\ (outcome \in Outcomes)'
      BY <3>5, <2>0, PlainType DEF PanicReplace, TypeOK, EdgeTypes, edgeVars, Tags
    <3>6. CASE FinishReplace
      BY <3>0, <3>6, <2>0 DEF FinishReplace, TypeOK, Jobs, EdgeTypes, edgeVars, Outcomes, Tags,
                              Returned
    <3>7. CASE UndoAddition
      BY <3>0, <3>7, <2>0, RemoveEdgeTypes DEF UndoAddition, TypeOK, Jobs
    <3>8. CASE UndoRemoval
      BY <3>0, <3>8, <2>0, InsertEdgeTypes DEF UndoRemoval, TypeOK, Jobs, EdgeTypes, edgeVars
    <3>9. CASE FinishUndo
      BY <3>0, <3>9, <2>0, PlainType DEF FinishUndo, TypeOK, EdgeTypes, edgeVars, Tags
    <3>. QED
      BY <2>5, <3>1, <3>2, <3>3, <3>4, <3>5, <3>6, <3>7, <3>8, <3>9 DEF ReplaceStep
  <2>6. ASSUME NEW key \in Keys, RemoveKey(key)
        PROVE  EdgeTypes' /\ (job \in Jobs \cup {NoReplace})' /\ (outcome \in Outcomes)'
    <3>1. EdgeTypes'
      BY <2>6, <2>0, RemoveKeyTypes
    <3>2. job' = job /\ outcome' = Plain("KeyRemoved")
      BY <2>6 DEF RemoveKey
    <3>. QED
      BY <3>1, <3>2, PlainType DEF TypeOK, Tags
  <2>7. CASE UNCHANGED vars
    BY <2>7, <2>0 DEF vars, TypeOK, EdgeTypes
  <2>. QED
    BY <2>1, <2>2, <2>3, <2>4, <2>5, <2>6, <2>7 DEF Next
<1>. QED
  BY <1>1, <1>2, PTL DEF Spec

-----------------------------------------------------------------------------
(***************************************************************************)
(* The four tables describe one set of edges.                              *)
(***************************************************************************)
Consistent == DirectionsAgree /\ NoDuplicateEntries /\ CachesExact

\* The caches without the abbreviations: a channel is cached for a key
\* exactly when some entry of the key's list is positive.
LEMMA CachesByEntry ==
  ASSUME EdgeTypes
  PROVE  CachesExact <=>
           \A k \in Keys : \A c \in Channels :
             /\ c \in forwardChannels[k] <=> \E b \in Keys : forward[c][k][b] > 0
             /\ c \in reverseChannels[k] <=> \E b \in Keys : reverse[c][k][b] > 0
<1>1. \A k \in Keys : /\ forwardChannels[k] \subseteq Channels
                      /\ reverseChannels[k] \subseteq Channels
  BY DEF EdgeTypes
<1>2. \A k \in Keys : \A c \in Channels :
        /\ Dependencies(c)[k] # {} <=> \E b \in Keys : forward[c][k][b] > 0
        /\ Dependents(c)[k] # {} <=> \E b \in Keys : reverse[c][k][b] > 0
  BY DEF Dependencies, Dependents, Listed
<1>. QED
  BY <1>1, <1>2 DEF CachesExact

\* The same of the state after a step.
LEMMA CachesByEntryNext ==
  ASSUME EdgeTypes'
  PROVE  CachesExact' <=>
           \A k \in Keys : \A c \in Channels :
             /\ c \in forwardChannels'[k] <=> \E b \in Keys : forward'[c][k][b] > 0
             /\ c \in reverseChannels'[k] <=> \E b \in Keys : reverse'[c][k][b] > 0
<1>1. \A k \in Keys : /\ forwardChannels'[k] \subseteq Channels
                      /\ reverseChannels'[k] \subseteq Channels
  BY DEF EdgeTypes
<1>2. \A k \in Keys : \A c \in Channels :
        /\ Dependencies(c)'[k] # {} <=> \E b \in Keys : forward'[c][k][b] > 0
        /\ Dependents(c)'[k] # {} <=> \E b \in Keys : reverse'[c][k][b] > 0
  BY DEF Dependencies, Dependents, Listed
<1>. QED
  BY <1>1, <1>2 DEF CachesExact

\* Adding an edge that is not there keeps the four tables in agreement
\* (add_dependency pushes to both lists and caches the channel at both ends).
LEMMA InsertEdgeConsistent ==
  ASSUME EdgeTypes, Consistent, NEW from \in Keys, NEW to \in Keys, NEW c \in Channels,
         InsertEdge(from, to, c), to \notin Dependencies(c)[from]
  PROVE  Consistent'
<1>0. EdgeTypes'
  BY InsertEdgeTypes
<1>1. forward[c][from][to] = 0 /\ reverse[c][to][from] = 0
  BY DEF Consistent, DirectionsAgree, Dependencies, Listed, EdgeTypes
<1>2. \A d \in Channels, a, b \in Keys :
        /\ forward'[d][a][b] = IF d = c /\ a = from /\ b = to THEN 1 ELSE forward[d][a][b]
        /\ reverse'[d][b][a] = IF d = c /\ a = from /\ b = to THEN 1 ELSE reverse[d][b][a]
  BY <1>1 DEF InsertEdge, EdgeTypes
<1>3. DirectionsAgree' /\ NoDuplicateEntries'
  BY <1>2 DEF Consistent, DirectionsAgree, NoDuplicateEntries
<1>4. \A k \in Keys : \A d \in Channels :
        /\ d \in forwardChannels'[k] <=> d \in forwardChannels[k] \/ (k = from /\ d = c)
        /\ d \in reverseChannels'[k] <=> d \in reverseChannels[k] \/ (k = to /\ d = c)
  BY DEF InsertEdge, EdgeTypes
<1>5. CachesExact'
  <2>1. ASSUME NEW k \in Keys, NEW d \in Channels
        PROVE  /\ d \in forwardChannels'[k] <=> \E b \in Keys : forward'[d][k][b] > 0
               /\ d \in reverseChannels'[k] <=> \E b \in Keys : reverse'[d][k][b] > 0
    <3>1. /\ d \in forwardChannels[k] <=> \E b \in Keys : forward[d][k][b] > 0
          /\ d \in reverseChannels[k] <=> \E b \in Keys : reverse[d][k][b] > 0
      BY CachesByEntry DEF Consistent
    <3>. QED
      BY <3>1, <1>1, <1>2, <1>4
  <2>. QED
    BY <2>1, <1>0, CachesByEntryNext
<1>. QED
  BY <1>3, <1>5 DEF Consistent

\* A step that changes none of the tables keeps them in agreement.
LEMMA UnchangedConsistent ==
  ASSUME Consistent, UNCHANGED edgeVars
  PROVE  Consistent'
<1>1. /\ forward' = forward /\ reverse' = reverse
      /\ forwardChannels' = forwardChannels /\ reverseChannels' = reverseChannels
  BY DEF edgeVars
<1>2. DirectionsAgree' /\ NoDuplicateEntries'
  BY <1>1 DEF Consistent, DirectionsAgree, NoDuplicateEntries
<1>3. CachesExact'
  BY <1>1 DEF Consistent, CachesExact, Dependencies, Dependents
<1>. QED
  BY <1>2, <1>3 DEF Consistent

\* Removing an edge keeps the four tables in agreement (remove_dependency
\* takes the entry out at both ends, and drops a cache whose list is empty).
LEMMA RemoveEdgeConsistent ==
  ASSUME EdgeTypes, Consistent, NEW from \in Keys, NEW to \in Keys, NEW c \in Channels,
         RemoveEdge(from, to, c)
  PROVE  Consistent'
<1>1. CASE UNCHANGED edgeVars
  BY <1>1, UnchangedConsistent
<1>2. CASE DeleteEdge(from, to, c)
  <2>0. EdgeTypes'
    BY RemoveEdgeTypes
  <2>1. \A d \in Channels, a, b \in Keys :
          /\ forward[d][a][b] \in {0, 1} /\ reverse[d][b][a] = forward[d][a][b]
    <3>1. \A d \in Channels, a, b \in Keys : forward[d][a][b] \in Nat /\ forward[d][a][b] <= 1
      BY DEF Consistent, NoDuplicateEntries, EdgeTypes
    <3>. QED
      BY <3>1 DEF Consistent, DirectionsAgree
  <2>2. \A d \in Channels, a, b \in Keys :
          /\ forward'[d][a][b] = IF d = c /\ a = from /\ b = to THEN 0 ELSE forward[d][a][b]
          /\ reverse'[d][b][a] = IF d = c /\ a = from /\ b = to THEN 0 ELSE reverse[d][b][a]
    BY <1>2, <2>1 DEF DeleteEdge, Without, EdgeTypes
  <2>3. DirectionsAgree' /\ NoDuplicateEntries'
    BY <2>1, <2>2 DEF Consistent, DirectionsAgree, NoDuplicateEntries
  <2>4. \A k \in Keys : \A d \in Channels :
          /\ (k # from \/ d # c) => (d \in forwardChannels'[k] <=> d \in forwardChannels[k])
          /\ (k # to \/ d # c) => (d \in reverseChannels'[k] <=> d \in reverseChannels[k])
    BY <1>2 DEF DeleteEdge, DropIfEmpty, EdgeTypes
  <2>5. /\ forward'[c][from] = Without(forward[c][from], to)
        /\ reverse'[c][to] = Without(reverse[c][to], from)
        /\ forwardChannels'[from] =
              DropIfEmpty(forwardChannels[from], c, forward'[c][from])
        /\ reverseChannels'[to] =
              DropIfEmpty(reverseChannels[to], c, reverse'[c][to])
    BY <1>2 DEF DeleteEdge, EdgeTypes
  <2>6. /\ c \in forwardChannels'[from] <=>
             c \in forwardChannels[from] /\ \E b \in Keys : forward'[c][from][b] > 0
        /\ c \in reverseChannels'[to] <=>
             c \in reverseChannels[to] /\ \E b \in Keys : reverse'[c][to][b] > 0
    BY <2>5 DEF DropIfEmpty, Listed
  <2>7. /\ (\E b \in Keys : forward'[c][from][b] > 0) => \E b \in Keys : forward[c][from][b] > 0
        /\ (\E b \in Keys : reverse'[c][to][b] > 0) => \E b \in Keys : reverse[c][to][b] > 0
    BY <2>2
  <2>8. CachesExact'
    <3>1. ASSUME NEW k \in Keys, NEW d \in Channels
          PROVE  /\ d \in forwardChannels'[k] <=> \E b \in Keys : forward'[d][k][b] > 0
                 /\ d \in reverseChannels'[k] <=> \E b \in Keys : reverse'[d][k][b] > 0
      <4>1. /\ d \in forwardChannels[k] <=> \E b \in Keys : forward[d][k][b] > 0
            /\ d \in reverseChannels[k] <=> \E b \in Keys : reverse[d][k][b] > 0
        BY CachesByEntry DEF Consistent
      <4>2. d \in forwardChannels'[k] <=> \E b \in Keys : forward'[d][k][b] > 0
        BY <4>1, <2>2, <2>4, <2>6, <2>7
      <4>3. d \in reverseChannels'[k] <=> \E b \in Keys : reverse'[d][k][b] > 0
        BY <4>1, <2>2, <2>4, <2>6, <2>7
      <4>. QED
        BY <4>2, <4>3
    <3>. QED
      BY <3>1, <2>0, CachesByEntryNext
  <2>. QED
    BY <2>3, <2>8 DEF Consistent
<1>. QED
  BY <1>1, <1>2 DEF RemoveEdge

-----------------------------------------------------------------------------
(***************************************************************************)
(* One pass of remove_key, in either direction.  If the key's entries are  *)
(* mirrored and the caches exact, the pass zeroes the key's own lists,     *)
(* takes the key out of every list at the other end, and leaves the other  *)
(* ends' caches exact.                                                     *)
(***************************************************************************)
Tables == [Channels -> [Keys -> [Keys -> Nat]]]
Caches == [Keys -> SUBSET Channels]

\* What a pass starts from: `mine` is the key's own side of the edges.
PassReady(mine, theirs, cachedMine, cachedTheirs, key) ==
  /\ mine \in Tables /\ theirs \in Tables
  /\ cachedMine \in Caches /\ cachedTheirs \in Caches /\ key \in Keys
  /\ \A c \in Channels, k \in Keys : theirs[c][k][key] = mine[c][key][k]
  /\ \A c \in Channels : c \in cachedMine[key] <=> \E b \in Keys : mine[c][key][b] > 0
  /\ \A c \in Channels, k \in Keys :
       c \in cachedTheirs[k] <=> \E b \in Keys : theirs[c][k][b] > 0

\* What it ends with: U the other side unlinked, E the key's side emptied, T
\* the other side's caches.
PassDone(U, E, T, mine, theirs, key) ==
  /\ U \in Tables /\ E \in Tables /\ T \in Caches
  /\ \A c \in Channels, a, b \in Keys : E[c][a][b] = IF a = key THEN 0 ELSE mine[c][a][b]
  /\ \A c \in Channels, a, b \in Keys : U[c][a][b] = IF b = key THEN 0 ELSE theirs[c][a][b]
  /\ \A c \in Channels, k \in Keys : c \in T[k] <=> \E b \in Keys : U[c][k][b] > 0

\* One pass of remove_key: the key is gone from the other ends' lists, and
\* their caches describe what is left.
LEMMA RemovePass ==
  ASSUME NEW mine, NEW theirs, NEW cachedMine, NEW cachedTheirs, NEW key,
         PassReady(mine, theirs, cachedMine, cachedTheirs, key)
  PROVE  LET U == Unlinked(theirs, mine, key, cachedMine[key])
             E == Emptied(mine, key, cachedMine[key])
             T == Unlisted(cachedTheirs, U, mine, key, cachedMine[key])
         IN  PassDone(U, E, T, mine, theirs, key)
<1>. DEFINE U == Unlinked(theirs, mine, key, cachedMine[key])
            E == Emptied(mine, key, cachedMine[key])
            T == Unlisted(cachedTheirs, U, mine, key, cachedMine[key])
<1>. USE DEF PassReady
<1>1. U \in Tables /\ E \in Tables /\ T \in Caches
  BY DEF Tables, Caches, Unlinked, Emptied, Unlisted
<1>2. \A c \in Channels, b \in Keys : c \notin cachedMine[key] => mine[c][key][b] = 0
  BY DEF Tables
<1>3. ASSUME NEW c \in Channels, NEW a \in Keys, NEW b \in Keys
      PROVE  E[c][a][b] = IF a = key THEN 0 ELSE mine[c][a][b]
  BY <1>2 DEF Emptied, Tables
<1>4. ASSUME NEW c \in Channels, NEW a \in Keys, NEW b \in Keys
      PROVE  U[c][a][b] = IF b = key THEN 0 ELSE theirs[c][a][b]
  <2>1. theirs[c][a] \in [Keys -> Nat] /\ mine[c][key][a] \in Nat
    BY DEF Tables
  <2>2. CASE c \in cachedMine[key]
    BY <2>1, <2>2 DEF Unlinked
  <2>3. CASE c \notin cachedMine[key]
    BY <2>1, <2>3, <1>2 DEF Unlinked
  <2>. QED
    BY <2>2, <2>3
<1>5. ASSUME NEW c \in Channels, NEW k \in Keys
      PROVE  c \in T[k] <=> \E b \in Keys : U[c][k][b] > 0
  <2>1. c \in T[k] <=> /\ c \in cachedTheirs[k]
                      /\ ~(/\ c \in cachedMine[key]
                           /\ mine[c][key][k] > 0
                           /\ ~\E b \in Keys : U[c][k][b] > 0)
    BY DEF Unlisted, Listed, Caches
  <2>2. CASE \E b \in Keys : U[c][k][b] > 0
    BY <2>1, <2>2, <1>4
  <2>3. CASE ~\E b \in Keys : U[c][k][b] > 0
    \* Then the key was the only entry the list had, if it had any.
    <3>1. \A b \in Keys : b # key => ~(theirs[c][k][b] > 0)
      BY <2>3, <1>4
    <3>. QED
      BY <2>1, <2>3, <3>1
  <2>. QED
    BY <2>2, <2>3
<1>. HIDE DEF U, E, T
<1>6. PassDone(U, E, T, mine, theirs, key)
  BY <1>1, <1>3, <1>4, <1>5 DEF PassDone
<1>. QED
  BY <1>6 DEF U, E, T

\* Both passes of remove_key together keep the four tables in agreement; the
\* second finds every remaining edge because the caches were exact before.
LEMMA RemoveKeyConsistent ==
  ASSUME EdgeTypes, Consistent, NEW key \in Keys, RemoveKey(key)
  PROVE  /\ Consistent'
         /\ \A c \in Channels, a, b \in Keys :
              forward'[c][a][b] = IF a = key \/ b = key THEN 0 ELSE forward[c][a][b]
<1>. DEFINE rev1 == Unlinked(reverse, forward, key, forwardChannels[key])
            fwd1 == Emptied(forward, key, forwardChannels[key])
            cachedRev1 == Unlisted(reverseChannels, rev1, forward, key, forwardChannels[key])
            cachedFwd1 == [forwardChannels EXCEPT ![key] = {}]
<1>0. EdgeTypes' /\ forward \in Tables /\ reverse \in Tables
      /\ forwardChannels \in Caches /\ reverseChannels \in Caches
  BY RemoveKeyTypes DEF EdgeTypes, Tables, Caches
<1>1. /\ \A c \in Channels, a, b \in Keys : forward[c][a][b] = reverse[c][b][a]
      /\ \A k \in Keys : \A c \in Channels :
            /\ c \in forwardChannels[k] <=> \E b \in Keys : forward[c][k][b] > 0
            /\ c \in reverseChannels[k] <=> \E b \in Keys : reverse[c][k][b] > 0
  BY CachesByEntry DEF Consistent, DirectionsAgree
<1>2. PassDone(rev1, fwd1, cachedRev1, forward, reverse, key)
  <2>1. \A c \in Channels, k \in Keys : reverse[c][k][key] = forward[c][key][k]
    BY <1>1
  <2>2. PassReady(forward, reverse, forwardChannels, reverseChannels, key)
    BY <1>0, <1>1, <2>1 DEF PassReady
  <2>. QED
    BY <2>2, RemovePass
<1>3. /\ forward' = Unlinked(fwd1, rev1, key, cachedRev1[key])
      /\ reverse' = Emptied(rev1, key, cachedRev1[key])
      /\ forwardChannels' = Unlisted(cachedFwd1, forward', rev1, key, cachedRev1[key])
      /\ reverseChannels' = [cachedRev1 EXCEPT ![key] = {}]
  BY DEF RemoveKey
<1>. HIDE DEF rev1, fwd1, cachedRev1
<1>4. /\ cachedFwd1 \in Caches
      /\ \A c \in Channels, k \in Keys :
           c \in cachedFwd1[k] <=> \E b \in Keys : fwd1[c][k][b] > 0
  <2>1. cachedFwd1 \in Caches
    BY <1>0 DEF Caches
  <2>2. \A c \in Channels, k \in Keys :
          c \in cachedFwd1[k] <=> k # key /\ c \in forwardChannels[k]
    BY <1>0 DEF Caches
  <2>. QED
    BY <2>1, <2>2, <1>1, <1>2 DEF PassDone
<1>5. \A c \in Channels, k \in Keys : fwd1[c][k][key] = rev1[c][key][k]
  BY <1>1, <1>2 DEF PassDone
<1>. HIDE DEF cachedFwd1
<1>6. PassDone(forward', reverse', forwardChannels', rev1, fwd1, key)
  <2>1. \A c \in Channels : c \in cachedRev1[key] <=> \E b \in Keys : rev1[c][key][b] > 0
    BY <1>2 DEF PassDone
  <2>2. PassReady(rev1, fwd1, cachedRev1, cachedFwd1, key)
    BY <1>2, <1>4, <1>5, <2>1 DEF PassReady, PassDone
  <2>. QED
    BY <1>3, <2>2, RemovePass
<1>7. \A c \in Channels, a, b \in Keys :
        /\ forward'[c][a][b] = IF a = key \/ b = key THEN 0 ELSE forward[c][a][b]
        /\ reverse'[c][a][b] = IF a = key \/ b = key THEN 0 ELSE reverse[c][a][b]
  BY <1>2, <1>6 DEF PassDone
<1>8. DirectionsAgree' /\ NoDuplicateEntries'
  BY <1>7 DEF Consistent, DirectionsAgree, NoDuplicateEntries
<1>9. CachesExact'
  <2>1. ASSUME NEW k \in Keys, NEW c \in Channels
        PROVE  c \in reverseChannels'[k] <=> \E b \in Keys : reverse'[c][k][b] > 0
    <3>1. c \in reverseChannels'[k] <=> k # key /\ c \in cachedRev1[k]
      BY <1>2, <1>3 DEF Caches, PassDone
    <3>. QED
      BY <3>1, <1>2, <1>6 DEF PassDone
  <2>. QED
    BY <2>1, <1>0, <1>6, CachesByEntryNext DEF PassDone
<1>. QED
  BY <1>7, <1>8, <1>9 DEF Consistent

-----------------------------------------------------------------------------
(***************************************************************************)
(* The effect of each change on the direct dependencies.                   *)
(***************************************************************************)
LEMMA DependenciesType ==
  ASSUME NEW c PROVE Dependencies(c) \in [Keys -> SUBSET Keys]
  BY DEF Dependencies, Listed

\* Two relations with the same pairs are equal.
LEMMA SameRelation ==
  ASSUME NEW C \in [Keys -> SUBSET Keys], NEW D \in [Keys -> SUBSET Keys],
         \A a, b \in Keys : b \in C[a] <=> b \in D[a]
  PROVE  C = D
<1>1. \A a \in Keys : C[a] = D[a]
  OBVIOUS
<1>. QED
  BY <1>1

\* What add_dependency does to the dependencies: one more for one key.
LEMMA InsertEdgeEffect ==
  ASSUME EdgeTypes, NEW from \in Keys, NEW to \in Keys, NEW c \in Channels,
         InsertEdge(from, to, c), NEW d \in Channels
  PROVE  Dependencies(d)' = IF d = c THEN [Dependencies(d) EXCEPT ![from] = @ \cup {to}]
                                     ELSE Dependencies(d)
<1>1. \A a, b \in Keys :
        forward'[d][a][b] = IF d = c /\ a = from /\ b = to THEN forward[d][a][b] + 1
                                                          ELSE forward[d][a][b]
  BY DEF InsertEdge, EdgeTypes
<1>2. \A a, b \in Keys : forward[d][a][b] \in Nat
  BY DEF EdgeTypes
<1>. DEFINE D == IF d = c THEN [Dependencies(d) EXCEPT ![from] = @ \cup {to}]
                          ELSE Dependencies(d)
<1>3. Dependencies(d)' \in [Keys -> SUBSET Keys] /\ D \in [Keys -> SUBSET Keys]
  BY DEF Dependencies, Listed
<1>4. ASSUME NEW a \in Keys, NEW b \in Keys
      PROVE  b \in Dependencies(d)'[a] <=> b \in D[a]
  <2>1. b \in Dependencies(d)'[a] <=> forward'[d][a][b] > 0
    BY DEF Dependencies, Listed
  <2>2. b \in Dependencies(d)[a] <=> forward[d][a][b] > 0
    BY DEF Dependencies, Listed
  <2>3. b \in D[a] <=> b \in Dependencies(d)[a] \/ (d = c /\ a = from /\ b = to)
    BY DependenciesType
  <2>. QED
    BY <1>1, <1>2, <2>1, <2>2, <2>3
<1>5. Dependencies(d)' = D
  <2>. HIDE DEF D
  <2>. QED
    BY <1>3, <1>4, SameRelation
<1>. QED
  BY <1>5

\* What remove_dependency does to the dependencies: one fewer for one key.
LEMMA RemoveEdgeEffect ==
  ASSUME EdgeTypes, Consistent, NEW from \in Keys, NEW to \in Keys, NEW c \in Channels,
         RemoveEdge(from, to, c), NEW d \in Channels
  PROVE  Dependencies(d)' = IF d = c THEN [Dependencies(d) EXCEPT ![from] = @ \ {to}]
                                     ELSE Dependencies(d)
<1>1. CASE to \in Dependencies(c)[from]
  <2>1. \A a, b \in Keys : forward[d][a][b] \in Nat /\ forward[d][a][b] <= 1
    BY DEF EdgeTypes, Consistent, NoDuplicateEntries
  <2>2. \A a, b \in Keys :
          forward'[d][a][b] = IF d = c /\ a = from /\ b = to THEN 0 ELSE forward[d][a][b]
    BY <1>1, <2>1 DEF RemoveEdge, DeleteEdge, Without, EdgeTypes
  <2>. DEFINE D == IF d = c THEN [Dependencies(d) EXCEPT ![from] = @ \ {to}]
                            ELSE Dependencies(d)
  <2>3. Dependencies(d)' \in [Keys -> SUBSET Keys] /\ D \in [Keys -> SUBSET Keys]
    BY DEF Dependencies, Listed
  <2>4. ASSUME NEW a \in Keys, NEW b \in Keys
        PROVE  b \in Dependencies(d)'[a] <=> b \in D[a]
    BY <2>1, <2>2 DEF Dependencies, Listed
  <2>. QED
    BY <2>3, <2>4, SameRelation
<1>2. CASE to \notin Dependencies(c)[from]
  <2>1. forward' = forward
    BY <1>2 DEF RemoveEdge, edgeVars
  <2>. QED
    BY <1>2, <2>1 DEF Dependencies, Listed
<1>. QED
  BY <1>1, <1>2

\* What remove_key does to the dependencies: none are left to or from it.
LEMMA RemoveKeyEffect ==
  ASSUME EdgeTypes, Consistent, NEW key \in Keys, RemoveKey(key), NEW d \in Channels
  PROVE  Dependencies(d)' =
           [k \in Keys |-> IF k = key THEN {} ELSE Dependencies(d)[k] \ {key}]
<1>1. \A a, b \in Keys :
        forward'[d][a][b] = IF a = key \/ b = key THEN 0 ELSE forward[d][a][b]
  BY RemoveKeyConsistent
<1>. QED
  BY <1>1 DEF Dependencies, Listed

(***************************************************************************)
(* What the verdicts of add_dependency mean.  The shortcut that skips the  *)
(* search reads the reverse lists, so this needs the lists to agree.       *)
(***************************************************************************)
LEMMA ShortcutSound ==
  ASSUME EdgeTypes, Consistent, NEW from \in Keys, NEW to \in Keys, NEW c \in Channels,
         from # to
  PROVE  WouldCreateCycle(from, to, c) <=> Reaches(Dependencies(c), to, from)
<1>1. CASE Dependents(c)[from] = {}
  <2>1. \A x \in Keys : from \notin Dependencies(c)[x]
    BY <1>1 DEF Consistent, DirectionsAgree, Dependencies, Dependents, Listed
  <2>. QED
    BY <1>1, <2>1, NoArrowInNotReached, DependenciesType DEF WouldCreateCycle
<1>. QED
  BY <1>1 DEF WouldCreateCycle

\* In a graph whose tables agree, "Added" means that the edge is new and, unless
\* Allow was asked for, that its target does not reach its source.
LEMMA VerdictMeaning ==
  ASSUME EdgeTypes, Consistent, NEW from \in Keys, NEW to \in Keys, NEW c \in Channels,
         NEW h
  PROVE  LET verdict == AddVerdict(from, to, c, h)
             refused == from = to \/ (h # "Allow" /\ Reaches(Dependencies(c), to, from))
         IN  /\ verdict = "AlreadyPresent" <=> to \in Dependencies(c)[from]
             /\ verdict = "Added" <=> to \notin Dependencies(c)[from] /\ ~refused
             /\ verdict \notin {"AlreadyPresent", "Added"} =>
                   refused /\ verdict = CycleVerdict(h)
<1>1. CycleVerdict(h) \in {"Panicked", "CycleIgnored", "CycleError"}
  BY DEF CycleVerdict
<1>. QED
  BY <1>1, ShortcutSound DEF AddVerdict

(***************************************************************************)
(* The four tables agree in every reachable state.                         *)
(***************************************************************************)
THEOREM GraphConsistent == Spec => []Consistent
<1>1. Init => Consistent
  BY DEF Init, Consistent, DirectionsAgree, NoDuplicateEntries, CachesExact, Dependencies,
         Dependents, Listed
<1>2. TypeOK /\ Consistent /\ [Next]_vars => Consistent'
  <2>. SUFFICES ASSUME TypeOK, Consistent, [Next]_vars PROVE Consistent'
    OBVIOUS
  <2>0. EdgeTypes
    BY DEF TypeOK, EdgeTypes
  <2>1. CASE UNCHANGED edgeVars
    BY <2>1, UnchangedConsistent
  <2>2. ASSUME NEW from \in Keys, NEW to \in Keys, NEW c \in Channels, NEW h \in Handlings,
               AddDependency(from, to, c, h)
        PROVE  Consistent'
    BY <2>0, <2>1, <2>2, VerdictMeaning, InsertEdgeConsistent DEF AddDependency
  <2>3. ASSUME NEW from \in Keys, NEW to \in Keys, NEW c \in Channels,
               RemoveDependency(from, to, c)
        PROVE  Consistent'
    BY <2>0, <2>3, RemoveEdgeConsistent DEF RemoveDependency
  <2>4. CASE ReplaceStep
    <3>1. CASE UNCHANGED edgeVars
      BY <3>1, <2>1
    <3>2. CASE job \in Jobs
      <4>0. /\ job.from \in Keys /\ job.channel \in Channels
            /\ job.toRemove \subseteq Keys /\ job.added \subseteq Keys
            /\ job.removed \subseteq Keys
        BY <3>2 DEF Jobs
      <4>1. CASE RemoveStale
        BY <4>0, <4>1, <2>0, RemoveEdgeConsistent DEF RemoveStale
      <4>2. ASSUME NEW dep \in Keys, AddNew(dep) PROVE Consistent'
        BY <4>0, <4>2, <2>0, VerdictMeaning, InsertEdgeConsistent DEF AddNew, Adding
      <4>3. CASE UndoAddition
        BY <4>0, <4>3, <2>0, RemoveEdgeConsistent DEF UndoAddition
      <4>4. CASE UndoRemoval
        BY <4>0, <4>4, <2>0, <2>1, VerdictMeaning, InsertEdgeConsistent DEF UndoRemoval
      <4>. QED
        BY <2>4, <2>1, <4>1, <4>2, <4>3, <4>4
           DEF ReplaceStep, IgnoreCyclic, FailReplace, PanicReplace, FinishReplace, FinishUndo
    <3>3. CASE job = NoReplace
      <4>1. job.phase = "idle"
        BY <3>3 DEF NoReplace
      <4>. QED
        BY <4>1, <2>4 DEF ReplaceStep, RemoveStale, Adding, AddNew, IgnoreCyclic,
             FailReplace, PanicReplace, FinishReplace, UndoAddition, UndoRemoval, FinishUndo
    <3>. QED
      BY <3>2, <3>3 DEF TypeOK
  <2>5. ASSUME NEW key \in Keys, RemoveKey(key)
        PROVE  Consistent'
    BY <2>0, <2>5, RemoveKeyConsistent
  <2>. QED
    BY <2>1, <2>2, <2>3, <2>4, <2>5 DEF Next, ReadOutcome, BeginReplace, vars, edgeVars
<1>. QED
  BY <1>1, <1>2, TypeCorrect, PTL DEF Spec

\* The same, in the terms of the properties: the drain may count in-degrees on
\* one side and decrement them along the other, and remove_key may trust the
\* caches to name every edge of the key.
THEOREM TablesAgree == Spec => []TablesConsistent
<1>1. TypeOK /\ Consistent => TablesConsistent
  BY DEF Consistent, TablesConsistent
<1>. QED
  BY <1>1, TypeCorrect, GraphConsistent, PTL

-----------------------------------------------------------------------------
(***************************************************************************)
(* The shape of a replacement in progress.                                 *)
(***************************************************************************)
Refuses(D, from, to, h) == from = to \/ (h # "Allow" /\ Reaches(D, to, from))

\* The current dependencies of the key being changed.
Row == Dependencies(job.channel)[job.from]

Judged(dep) == Refuses(Dependencies(job.channel), job.from, dep, job.handling)

JobShape ==
  job # NoReplace =>
    /\ job.added \subseteq Row
    /\ job.removed \cap Row = {}
    /\ job.toAdd \cap (Row \cup job.removed) = {}
    /\ job.phase = "apply" =>
         /\ job.toRemove \subseteq Row
         /\ job.toRemove # {} => job.added = {}
         /\ job.ignored \cap (Row \cup job.removed) = {}
         /\ \A dep \in job.added : ~Judged(dep)
         /\ \A dep \in job.ignored :
              Judged(dep) /\ CycleVerdict(job.handling) = "CycleIgnored"
    /\ job.phase = "undo" =>
         \E dep \in job.toAdd : Judged(dep) /\ CycleVerdict(job.handling) = "CycleError"

\* No key depends on itself, under any handling, and none did before the
\* replacement in progress.
Irreflexive == \A c \in Channels : \A k \in Keys : k \notin Dependencies(c)[k]
NoSelfDependency ==
  /\ Irreflexive
  /\ job # NoReplace => job.from \notin job.removed

JobInv == JobShape /\ NoSelfDependency

\* All edges a replacement adds or removes start at the key it changes, so no
\* step of it alters which of its additions close a cycle.
LEMMA RefusesStable ==
  ASSUME NEW D \in [Keys -> SUBSET Keys], NEW from \in Keys, NEW row \in SUBSET Keys,
         NEW d \in Keys, NEW h
  PROVE  Refuses([D EXCEPT ![from] = row], from, d, h) <=> Refuses(D, from, d, h)
  BY InsertKeepsReachingSource DEF Refuses

\* A step from one stage of a replacement to the next: what it does to the
\* row, the judgements and the visible dependencies.
SameCall == job'.from = job.from /\ job'.channel = job.channel /\ job'.handling = job.handling

\* An inner step that rewrites only the row of the key being changed leaves the
\* judgement of every addition alone, and the visible dependencies too if what
\* would be rolled back to stays the same (replace_dependencies).
LEMMA JobStep ==
  ASSUME job \in Jobs, job' \in Jobs, SameCall, NEW row \in SUBSET Keys,
         \A d \in Channels :
            Dependencies(d)' = IF d = job.channel
                               THEN [Dependencies(d) EXCEPT ![job.from] = row]
                               ELSE Dependencies(d)
  PROVE  /\ Row' = row
         /\ \A dep \in Keys : Judged(dep)' <=> Judged(dep)
         /\ (row \ job'.added) \cup job'.removed = (Row \ job.added) \cup job.removed
              => Visible' = Visible
         /\ Irreflexive /\ job.from \notin row => Irreflexive'
<1>1. job.from \in Keys /\ job.channel \in Channels
  BY DEF Jobs
<1>3. [k \in Keys |-> Listed(forward'[job'.channel][k])]
        = [Dependencies(job.channel) EXCEPT ![job.from] = row]
  <2>1. \A d \in Channels :
          [k \in Keys |-> Listed(forward'[d][k])]
            = IF d = job.channel THEN [Dependencies(d) EXCEPT ![job.from] = row]
                                 ELSE Dependencies(d)
    BY DEF Dependencies
  <2>. QED
    BY <1>1, <2>1 DEF SameCall
<1>4. Row' = row
  <2>1. Row' = [k \in Keys |-> Listed(forward'[job'.channel][k])][job.from]
    BY DEF Row, SameCall, Dependencies
  <2>. QED
    BY <1>1, <1>3, <2>1, DependenciesType
<1>5. ASSUME NEW dep \in Keys
      PROVE  Judged(dep)' <=> Judged(dep)
  <2>1. Judged(dep)' <=> Refuses([Dependencies(job.channel) EXCEPT ![job.from] = row],
                                 job.from, dep, job.handling)
    BY <1>3 DEF Judged, SameCall, Refuses, Dependencies
  <2>. QED
    BY <2>1, <1>1, RefusesStable, DependenciesType DEF Judged
<1>6. ASSUME (row \ job'.added) \cup job'.removed = (Row \ job.added) \cup job.removed
      PROVE  Visible' = Visible
  <2>0. job # NoReplace /\ job' # NoReplace
    <3>1. job.phase # "idle" /\ job'.phase # "idle"
      BY DEF Jobs
    <3>. QED
      BY <3>1 DEF NoReplace
  <2>1. ASSUME NEW c \in Channels, NEW k \in Keys
        PROVE  Visible'[c][k] = Visible[c][k]
    <3>1. CASE c = job.channel /\ k = job.from
      <4>1. Visible[c][k] = (Row \ job.added) \cup job.removed
        BY <2>0, <3>1 DEF Visible, Row
      <4>2. Visible'[c][k] = (Row' \ job'.added) \cup job'.removed
        BY <2>0, <3>1 DEF Visible, Row, SameCall
      <4>. QED
        BY <4>1, <4>2, <1>4, <1>6
    <3>2. CASE ~(c = job.channel /\ k = job.from)
      <4>1. Visible[c][k] = Dependencies(c)[k]
        BY <3>2 DEF Visible
      <4>2. Visible'[c][k] = Dependencies(c)'[k]
        BY <3>2 DEF Visible, SameCall
      <4>. QED
        BY <4>1, <4>2, <3>2, <1>1, DependenciesType
    <3>. QED
      BY <3>1, <3>2
  <2>. QED
    BY <2>1 DEF Visible
<1>7. ASSUME Irreflexive, job.from \notin row
      PROVE  Irreflexive'
  <2>1. ASSUME NEW c \in Channels, NEW k \in Keys
        PROVE  k \notin Dependencies(c)'[k]
    BY <2>1, <1>7, <1>1, DependenciesType DEF Irreflexive
  <2>. QED
    BY <2>1 DEF Irreflexive
<1>. QED
  BY <1>4, <1>5, <1>6, <1>7

\* The typed parts of a replacement in progress.
LEMMA JobTypes ==
  ASSUME job \in Jobs
  PROVE  /\ job.from \in Keys /\ job.channel \in Channels /\ job.handling \in Handlings
         /\ job.toRemove \subseteq Keys /\ job.toAdd \subseteq Keys
         /\ job.added \subseteq Keys /\ job.removed \subseteq Keys
         /\ job.ignored \subseteq Keys
         /\ job.phase \in {"apply", "undo"} /\ job # NoReplace
         /\ Row \in SUBSET Keys
<1>1. job # NoReplace
  <2>1. job.phase # "idle"
    BY DEF Jobs
  <2>. QED
    BY <2>1 DEF NoReplace
<1>2. Row \in SUBSET Keys
  BY DependenciesType DEF Row, Jobs
<1>. QED
  BY <1>1, <1>2 DEF Jobs

\* The removal of a stale dependency keeps the shape of the replacement.
LEMMA RemoveStaleStep ==
  ASSUME TypeOK, Consistent, JobInv, job \in Jobs, job' \in Jobs, RemoveStale
  PROVE  JobInv' /\ Visible' = Visible
<1>1. PICK dep \in job.toRemove :
        /\ job' = [job EXCEPT !.toRemove = @ \ {dep},
                              !.removed = @ \cup ({dep} \cap
                                                  Dependencies(job.channel)[job.from])]
        /\ RemoveEdge(job.from, dep, job.channel)
  BY DEF RemoveStale
<1>2. job.phase = "apply" /\ dep \in Row /\ job.added = {} /\ dep \in Keys
  BY JobTypes DEF RemoveStale, JobInv, JobShape
<1>3. /\ job'.toRemove = job.toRemove \ {dep} /\ job'.removed = job.removed \cup {dep}
      /\ job'.added = job.added /\ job'.toAdd = job.toAdd /\ job'.ignored = job.ignored
      /\ job'.phase = job.phase /\ SameCall
  BY <1>1, <1>2 DEF Jobs, SameCall, Row
<1>4. \A d \in Channels :
        Dependencies(d)' = IF d = job.channel
                           THEN [Dependencies(d) EXCEPT ![job.from] = Row \ {dep}]
                           ELSE Dependencies(d)
  BY <1>1, <1>2, JobTypes, RemoveEdgeEffect DEF Row, TypeOK, EdgeTypes
<1>5. /\ Row' = Row \ {dep}
      /\ \A k \in Keys : Judged(k)' <=> Judged(k)
      /\ Visible' = Visible
      /\ Irreflexive'
  <2>1. ((Row \ {dep}) \ job'.added) \cup job'.removed = (Row \ job.added) \cup job.removed
    BY <1>2, <1>3
  <2>2. Irreflexive /\ job.from \notin Row
    BY JobTypes DEF JobInv, NoSelfDependency, Irreflexive, Row
  <2>. QED
    BY <1>3, <1>4, <2>1, <2>2, JobStep, JobTypes
<1>6. JobShape'
  <2>0. job # NoReplace /\ job.phase = "apply" /\ job'.phase = "apply"
    BY <1>2, <1>3, JobTypes
  <2>1. /\ job'.added \subseteq Row'
        /\ job'.removed \cap Row' = {}
        /\ job'.toAdd \cap (Row' \cup job'.removed) = {}
        /\ job'.toRemove \subseteq Row'
        /\ job'.toRemove # {} => job'.added = {}
        /\ job'.ignored \cap (Row' \cup job'.removed) = {}
    BY <2>0, <1>2, <1>3, <1>5 DEF JobInv, JobShape
  <2>2. /\ \A k \in job'.added : ~Judged(k)'
        /\ \A k \in job'.ignored : Judged(k)' /\ CycleVerdict(job'.handling) = "CycleIgnored"
    BY <2>0, <1>2, <1>3, <1>5, JobTypes DEF JobInv, JobShape, SameCall
  <2>. QED
    BY <2>0, <2>1, <2>2 DEF JobShape
<1>7. job'.from \notin job'.removed
  BY <1>2, <1>3, JobTypes DEF SameCall, JobInv, NoSelfDependency, Irreflexive, Row
<1>. QED
  BY <1>5, <1>6, <1>7 DEF JobInv, NoSelfDependency

\* The addition of a new dependency keeps the shape of the replacement.
LEMMA AddNewStep ==
  ASSUME TypeOK, Consistent, JobInv, job \in Jobs, job' \in Jobs,
         NEW dep \in Keys, AddNew(dep)
  PROVE  /\ JobInv' /\ Visible' = Visible
         /\ dep \notin Row /\ ~Judged(dep) /\ job'.added = job.added \cup {dep}
<1>1. /\ job.phase = "apply" /\ dep \in job.toAdd /\ job.toRemove = {}
      /\ AddVerdict(job.from, dep, job.channel, job.handling) = "Added"
      /\ InsertEdge(job.from, dep, job.channel)
  BY DEF AddNew, Adding
<1>2. dep \notin Row /\ ~Judged(dep)
  BY <1>1, JobTypes, VerdictMeaning DEF TypeOK, EdgeTypes, Row, Judged, Refuses
<1>3. /\ job'.toAdd = job.toAdd \ {dep} /\ job'.added = job.added \cup {dep}
      /\ job'.removed = job.removed /\ job'.toRemove = {} /\ job'.ignored = job.ignored
      /\ job'.phase = "apply" /\ SameCall
  BY <1>1 DEF AddNew, Jobs, SameCall
<1>4. \A d \in Channels :
        Dependencies(d)' = IF d = job.channel
                           THEN [Dependencies(d) EXCEPT ![job.from] = Row \cup {dep}]
                           ELSE Dependencies(d)
  BY <1>1, JobTypes, InsertEdgeEffect DEF Row, TypeOK, EdgeTypes
<1>5. /\ Row' = Row \cup {dep}
      /\ \A k \in Keys : Judged(k)' <=> Judged(k)
      /\ Visible' = Visible
      /\ Irreflexive'
  <2>1. ((Row \cup {dep}) \ job'.added) \cup job'.removed = (Row \ job.added) \cup job.removed
    BY <1>2, <1>3
  <2>2. Irreflexive /\ job.from \notin Row \cup {dep}
    BY <1>2, JobTypes DEF JobInv, NoSelfDependency, Irreflexive, Row, Judged, Refuses
  <2>. QED
    BY <1>3, <1>4, <2>1, <2>2, JobStep, JobTypes
<1>6. JobShape'
  <2>0. job # NoReplace
    BY JobTypes
  <2>1. /\ job'.added \subseteq Row'
        /\ job'.removed \cap Row' = {}
        /\ job'.toAdd \cap (Row' \cup job'.removed) = {}
        /\ job'.toRemove \subseteq Row'
        /\ job'.toRemove # {} => job'.added = {}
    BY <2>0, <1>1, <1>3, <1>5 DEF JobInv, JobShape
  <2>2. job'.ignored \cap (Row' \cup job'.removed) = {}
    \* An ignored addition was judged cyclic, and dep was not.
    BY <2>0, <1>1, <1>2, <1>3, <1>5 DEF JobInv, JobShape
  <2>3. /\ \A k \in job'.added : ~Judged(k)'
        /\ \A k \in job'.ignored : Judged(k)' /\ CycleVerdict(job'.handling) = "CycleIgnored"
    BY <2>0, <1>1, <1>2, <1>3, <1>5, JobTypes DEF JobInv, JobShape, SameCall
  <2>. QED
    BY <1>3, <2>1, <2>2, <2>3 DEF JobShape
<1>7. job'.from \notin job'.removed
  BY <1>3, JobTypes DEF SameCall, JobInv, NoSelfDependency
<1>. QED
  BY <1>2, <1>3, <1>5, <1>6, <1>7 DEF JobInv, NoSelfDependency

\* A step that leaves the lists alone leaves the row alone.
LEMMA QuietStep ==
  ASSUME job \in Jobs, UNCHANGED edgeVars
  PROVE  \A d \in Channels :
           Dependencies(d)' = IF d = job.channel
                              THEN [Dependencies(d) EXCEPT ![job.from] = Row]
                              ELSE Dependencies(d)
<1>1. \A d \in Channels : Dependencies(d)' = Dependencies(d)
  BY DEF Dependencies, edgeVars
<1>2. [Dependencies(job.channel) EXCEPT ![job.from] = Row] = Dependencies(job.channel)
  BY DependenciesType DEF Row
<1>. QED
  BY <1>1, <1>2

\* An addition that is ignored keeps the shape of the replacement.
LEMMA IgnoreCyclicStep ==
  ASSUME TypeOK, Consistent, JobInv, job \in Jobs, job' \in Jobs,
         NEW dep \in Keys, IgnoreCyclic(dep)
  PROVE  JobInv' /\ Visible' = Visible
<1>1. /\ job.phase = "apply" /\ dep \in job.toAdd /\ job.toRemove = {}
      /\ AddVerdict(job.from, dep, job.channel, job.handling) = "CycleIgnored"
      /\ UNCHANGED edgeVars
  BY DEF IgnoreCyclic, Adding
<1>2. Judged(dep) /\ CycleVerdict(job.handling) = "CycleIgnored"
  BY <1>1, JobTypes, VerdictMeaning DEF TypeOK, EdgeTypes, Judged, Refuses
<1>3. /\ job'.toAdd = job.toAdd \ {dep} /\ job'.ignored = job.ignored \cup {dep}
      /\ job'.added = job.added /\ job'.removed = job.removed /\ job'.toRemove = {}
      /\ job'.phase = "apply" /\ SameCall
  BY <1>1 DEF IgnoreCyclic, Jobs, SameCall
<1>5. /\ Row' = Row
      /\ \A k \in Keys : Judged(k)' <=> Judged(k)
      /\ Visible' = Visible
      /\ Irreflexive'
  <2>1. Irreflexive /\ job.from \notin Row
    BY JobTypes DEF JobInv, NoSelfDependency, Irreflexive, Row
  <2>. QED
    BY <1>1, <1>3, <2>1, QuietStep, JobStep, JobTypes
<1>6. JobShape'
  <2>0. job # NoReplace
    BY JobTypes
  <2>1. /\ job'.added \subseteq Row'
        /\ job'.removed \cap Row' = {}
        /\ job'.toAdd \cap (Row' \cup job'.removed) = {}
        /\ job'.toRemove \subseteq Row'
        /\ job'.toRemove # {} => job'.added = {}
        /\ job'.ignored \cap (Row' \cup job'.removed) = {}
    BY <2>0, <1>1, <1>3, <1>5 DEF JobInv, JobShape
  <2>2. /\ \A k \in job'.added : ~Judged(k)'
        /\ \A k \in job'.ignored : Judged(k)' /\ CycleVerdict(job'.handling) = "CycleIgnored"
    BY <2>0, <1>1, <1>2, <1>3, <1>5, JobTypes DEF JobInv, JobShape, SameCall
  <2>. QED
    BY <1>3, <2>1, <2>2 DEF JobShape
<1>7. job'.from \notin job'.removed
  BY <1>3, JobTypes DEF SameCall, JobInv, NoSelfDependency
<1>. QED
  BY <1>5, <1>6, <1>7 DEF JobInv, NoSelfDependency

\* A refused addition starts a roll-back of the right shape.
LEMMA FailReplaceStep ==
  ASSUME TypeOK, Consistent, JobInv, job \in Jobs, job' \in Jobs,
         NEW dep \in Keys, FailReplace(dep)
  PROVE  JobInv' /\ Visible' = Visible
<1>1. /\ job.phase = "apply" /\ dep \in job.toAdd
      /\ AddVerdict(job.from, dep, job.channel, job.handling) = "CycleError"
      /\ UNCHANGED edgeVars
  BY DEF FailReplace, Adding
<1>2. Judged(dep) /\ CycleVerdict(job.handling) = "CycleError"
  BY <1>1, JobTypes, VerdictMeaning DEF TypeOK, EdgeTypes, Judged, Refuses
<1>3. /\ job'.toAdd = job.toAdd /\ job'.added = job.added /\ job'.removed = job.removed
      /\ job'.phase = "undo" /\ SameCall
  BY <1>1 DEF FailReplace, Jobs, SameCall
<1>5. /\ Row' = Row
      /\ \A k \in Keys : Judged(k)' <=> Judged(k)
      /\ Visible' = Visible
      /\ Irreflexive'
  <2>1. Irreflexive /\ job.from \notin Row
    BY JobTypes DEF JobInv, NoSelfDependency, Irreflexive, Row
  <2>. QED
    BY <1>1, <1>3, <2>1, QuietStep, JobStep, JobTypes
<1>6. JobShape'
  <2>1. /\ job'.added \subseteq Row'
        /\ job'.removed \cap Row' = {}
        /\ job'.toAdd \cap (Row' \cup job'.removed) = {}
    BY <1>3, <1>5, JobTypes DEF JobInv, JobShape
  <2>2. dep \in job'.toAdd /\ Judged(dep)' /\ CycleVerdict(job'.handling) = "CycleError"
    BY <1>1, <1>2, <1>3, <1>5 DEF SameCall
  <2>. QED
    BY <1>3, <2>1, <2>2 DEF JobShape
<1>7. job'.from \notin job'.removed
  BY <1>3, JobTypes DEF SameCall, JobInv, NoSelfDependency
<1>. QED
  BY <1>5, <1>6, <1>7 DEF JobInv, NoSelfDependency

\* Undoing an addition keeps the shape of the roll-back.
LEMMA UndoAdditionStep ==
  ASSUME TypeOK, Consistent, JobInv, job \in Jobs, job' \in Jobs, UndoAddition
  PROVE  JobInv' /\ Visible' = Visible
<1>1. PICK dep \in job.added : /\ job' = [job EXCEPT !.added = @ \ {dep}]
                               /\ RemoveEdge(job.from, dep, job.channel)
  BY DEF UndoAddition
<1>2. job.phase = "undo" /\ dep \in Keys
  BY <1>1, JobTypes DEF UndoAddition
<1>3. /\ job'.added = job.added \ {dep} /\ job'.removed = job.removed
      /\ job'.toAdd = job.toAdd /\ job'.phase = "undo" /\ SameCall
  BY <1>1, <1>2 DEF Jobs, SameCall
<1>4. \A d \in Channels :
        Dependencies(d)' = IF d = job.channel
                           THEN [Dependencies(d) EXCEPT ![job.from] = Row \ {dep}]
                           ELSE Dependencies(d)
  BY <1>1, <1>2, JobTypes, RemoveEdgeEffect DEF Row, TypeOK, EdgeTypes
<1>5. /\ Row' = Row \ {dep}
      /\ \A k \in Keys : Judged(k)' <=> Judged(k)
      /\ Visible' = Visible
      /\ Irreflexive'
  <2>1. ((Row \ {dep}) \ job'.added) \cup job'.removed = (Row \ job.added) \cup job.removed
    BY <1>1, <1>3
  <2>2. Irreflexive /\ job.from \notin Row
    BY JobTypes DEF JobInv, NoSelfDependency, Irreflexive, Row
  <2>. QED
    BY <1>3, <1>4, <2>1, <2>2, JobStep, JobTypes
<1>6. JobShape'
  <2>1. /\ job'.added \subseteq Row'
        /\ job'.removed \cap Row' = {}
        /\ job'.toAdd \cap (Row' \cup job'.removed) = {}
    BY <1>3, <1>5, JobTypes DEF JobInv, JobShape
  <2>2. \E k \in job'.toAdd : Judged(k)' /\ CycleVerdict(job'.handling) = "CycleError"
    BY <1>2, <1>3, <1>5, JobTypes DEF SameCall, JobInv, JobShape
  <2>. QED
    BY <1>3, <2>1, <2>2 DEF JobShape
<1>7. job'.from \notin job'.removed
  BY <1>3, JobTypes DEF SameCall, JobInv, NoSelfDependency
<1>. QED
  BY <1>5, <1>6, <1>7 DEF JobInv, NoSelfDependency

\* Undoing a removal keeps the shape of the roll-back.
LEMMA UndoRemovalStep ==
  ASSUME TypeOK, Consistent, JobInv, job \in Jobs, job' \in Jobs, UndoRemoval
  PROVE  /\ JobInv' /\ Visible' = Visible /\ job'.added = {}
<1>1. PICK dep \in job.removed :
        /\ job' = [job EXCEPT !.removed = @ \ {dep}]
        /\ IF AddVerdict(job.from, dep, job.channel, "Allow") = "Added"
           THEN InsertEdge(job.from, dep, job.channel)
           ELSE UNCHANGED edgeVars
  BY DEF UndoRemoval
<1>2. job.phase = "undo" /\ job.added = {} /\ dep \in Keys
  BY <1>1, JobTypes DEF UndoRemoval
\* It was a dependency before, so it is neither listed now nor the key itself.
<1>3. InsertEdge(job.from, dep, job.channel) /\ dep # job.from
  <2>1. dep \notin Row /\ dep # job.from
    BY <1>1, JobTypes DEF JobInv, JobShape, NoSelfDependency
  <2>2. AddVerdict(job.from, dep, job.channel, "Allow") = "Added"
    BY <1>2, <2>1, JobTypes, VerdictMeaning DEF TypeOK, EdgeTypes, Row
  <2>. QED
    BY <1>1, <2>1, <2>2
<1>4. /\ job'.removed = job.removed \ {dep} /\ job'.added = {}
      /\ job'.toAdd = job.toAdd /\ job'.phase = "undo" /\ SameCall
  BY <1>1, <1>2 DEF Jobs, SameCall
<1>5. /\ Row' = Row \cup {dep}
      /\ \A k \in Keys : Judged(k)' <=> Judged(k)
      /\ Visible' = Visible
      /\ Irreflexive'
  <2>1. ((Row \cup {dep}) \ job'.added) \cup job'.removed = (Row \ job.added) \cup job.removed
    BY <1>1, <1>2, <1>4
  <2>2. Irreflexive /\ job.from \notin Row \cup {dep}
    BY <1>3, JobTypes DEF JobInv, NoSelfDependency, Irreflexive, Row
  <2>3. \A d \in Channels :
          Dependencies(d)' = IF d = job.channel
                             THEN [Dependencies(d) EXCEPT ![job.from] = Row \cup {dep}]
                             ELSE Dependencies(d)
    BY <1>2, <1>3, JobTypes, InsertEdgeEffect DEF Row, TypeOK, EdgeTypes
  <2>. QED
    BY <1>2, <1>4, <2>1, <2>2, <2>3, JobStep, JobTypes
<1>6. JobShape'
  <2>1. /\ job'.added \subseteq Row'
        /\ job'.removed \cap Row' = {}
        /\ job'.toAdd \cap (Row' \cup job'.removed) = {}
    BY <1>1, <1>4, <1>5, JobTypes DEF JobInv, JobShape
  <2>2. \E k \in job'.toAdd : Judged(k)' /\ CycleVerdict(job'.handling) = "CycleError"
    BY <1>2, <1>4, <1>5, JobTypes DEF SameCall, JobInv, JobShape
  <2>. QED
    BY <1>4, <2>1, <2>2 DEF JobShape
<1>7. job'.from \notin job'.removed
  BY <1>4, JobTypes DEF SameCall, JobInv, NoSelfDependency
<1>. QED
  BY <1>4, <1>5, <1>6, <1>7 DEF JobInv, NoSelfDependency

-----------------------------------------------------------------------------
(***************************************************************************)
(* Every step, seen at the level of the dependencies: an operation of its  *)
(* own, an inner step of a replacement that the caller cannot see, or its  *)
(* end.                                                                    *)
(***************************************************************************)
LEMMA InnerStep ==
  ASSUME TypeOK, TypeOK', Consistent, JobInv,
         \/ RemoveStale \/ UndoAddition \/ UndoRemoval
         \/ \E dep \in Keys : AddNew(dep) \/ IgnoreCyclic(dep) \/ FailReplace(dep)
  PROVE  JobInv' /\ Visible' = Visible /\ outcome' = outcome
<1>1. job.phase \in {"apply", "undo"}
  BY DEF RemoveStale, UndoAddition, UndoRemoval, AddNew, IgnoreCyclic, FailReplace, Adding
<1>2. job \in Jobs
  BY <1>1 DEF TypeOK, NoReplace
<1>3. job' \in Jobs
  <2>1. job'.phase \in {"apply", "undo"}
    BY <1>2 DEF RemoveStale, UndoAddition, UndoRemoval, AddNew, IgnoreCyclic, FailReplace, Jobs
  <2>. QED
    BY <2>1 DEF TypeOK, NoReplace
<1>4. outcome' = outcome
  BY DEF RemoveStale, UndoAddition, UndoRemoval, AddNew, IgnoreCyclic, FailReplace
<1>. QED
  BY <1>2, <1>3, <1>4, RemoveStaleStep, UndoAdditionStep, UndoRemovalStep, AddNewStep,
     IgnoreCyclicStep, FailReplaceStep

\* Between calls the caller sees the lists as they are.
LEMMA VisibleIdle ==
  ASSUME job = NoReplace
  PROVE  Visible = [c \in Channels |-> Dependencies(c)]
  BY DependenciesType DEF Visible

\* And after the step that ends a call.
LEMMA VisibleIdleNext ==
  ASSUME job' = NoReplace
  PROVE  Visible' = [c \in Channels |-> [k \in Keys |-> Dependencies(c)'[k]]]
  BY DEF Visible

\* A replacement starts in the right shape, and the caller sees no change.
LEMMA BeginReplaceStep ==
  ASSUME TypeOK, JobInv, NEW from \in Keys, NEW c \in Channels, NEW to \in SUBSET Keys,
         NEW h \in Handlings, BeginReplace(from, c, to, h)
  PROVE  /\ JobInv' /\ Visible' = Visible
         /\ \A d \in Channels : Dependencies(d)' = Dependencies(d)
<1>. DEFINE old == Dependencies(c)[from]
            begun == [phase |-> "apply", from |-> from, channel |-> c, handling |-> h,
                      toRemove |-> old \ to, toAdd |-> to \ old,
                      added |-> {}, removed |-> {}, ignored |-> {}]
<1>1. /\ job = NoReplace /\ UNCHANGED edgeVars
      /\ job' = NoReplace \/ job' = begun
  BY DEF BeginReplace, Free
<1>2. \A d \in Channels : Dependencies(d)' = Dependencies(d)
  BY <1>1 DEF edgeVars, Dependencies
<1>3. Irreflexive'
  BY <1>2 DEF JobInv, NoSelfDependency, Irreflexive
<1>4. CASE job' = NoReplace
  <2>1. Visible' = Visible
    BY <1>1, <1>2, <1>4 DEF Visible
  <2>. QED
    BY <1>2, <1>3, <1>4, <2>1 DEF JobInv, JobShape, NoSelfDependency
<1>5. CASE job' = begun
  <2>1. /\ job'.phase = "apply" /\ job'.from = from /\ job'.channel = c
        /\ job'.toRemove = old \ to /\ job'.toAdd = to \ old
        /\ job'.added = {} /\ job'.removed = {} /\ job'.ignored = {}
    BY <1>5
  <2>2. Row' = old
    BY <1>1, <2>1 DEF Row, Dependencies, edgeVars
  <2>3. JobShape' /\ job'.from \notin job'.removed
    BY <2>1, <2>2 DEF JobShape
  <2>4. Visible' = Visible
    <3>1. ASSUME NEW d \in Channels, NEW k \in Keys
          PROVE  Visible'[d][k] = Dependencies(d)'[k]
      BY <2>1, <3>1 DEF Visible
    <3>. QED
      BY <1>1, <1>2, <3>1, VisibleIdle DEF Visible
  <2>. QED
    BY <1>2, <1>3, <2>3, <2>4 DEF JobInv, NoSelfDependency
<1>. QED
  BY <1>1, <1>4, <1>5

(***************************************************************************)
(* A replacement in progress has the shape its steps rely on, and no key   *)
(* ever depends on itself.                                                 *)
(***************************************************************************)
THEOREM JobInvariant == Spec => []JobInv
<1>1. Init => JobInv
  BY DEF Init, JobInv, JobShape, NoSelfDependency, Irreflexive, Dependencies, Listed
<1>2. TypeOK /\ TypeOK' /\ Consistent /\ JobInv /\ [Next]_vars => JobInv'
  <2>. SUFFICES ASSUME TypeOK, TypeOK', Consistent, JobInv, [Next]_vars PROVE JobInv'
    OBVIOUS
  <2>0. EdgeTypes
    BY DEF TypeOK, EdgeTypes
  <2>1. ASSUME job' = NoReplace, UNCHANGED edgeVars PROVE JobInv'
    BY <2>1 DEF edgeVars, JobInv, JobShape, NoSelfDependency, Irreflexive, Dependencies
  <2>2. ASSUME NEW from \in Keys, NEW to \in Keys, NEW c \in Channels, NEW h \in Handlings,
               AddDependency(from, to, c, h)
        PROVE  JobInv'
    <3>1. job' = NoReplace
      BY <2>2 DEF AddDependency, Free
    <3>2. CASE AddVerdict(from, to, c, h) = "Added"
      <4>1. from # to
        BY <2>0, <3>2, VerdictMeaning
      <4>2. \A d \in Channels :
              Dependencies(d)' = IF d = c THEN [Dependencies(d) EXCEPT ![from] = @ \cup {to}]
                                          ELSE Dependencies(d)
        BY <2>0, <2>2, <3>2, InsertEdgeEffect DEF AddDependency
      <4>3. \A d \in Channels : \A k \in Keys : k \notin Dependencies(d)'[k]
        BY <4>1, <4>2, DependenciesType DEF JobInv, NoSelfDependency, Irreflexive
      <4>. QED
        BY <3>1, <4>3 DEF JobInv, JobShape, NoSelfDependency, Irreflexive
    <3>. QED
      BY <2>1, <2>2, <3>1, <3>2 DEF AddDependency
  <2>3. ASSUME NEW from \in Keys, NEW to \in Keys, NEW c \in Channels,
               RemoveDependency(from, to, c)
        PROVE  JobInv'
    <3>1. job' = NoReplace
      BY <2>3 DEF RemoveDependency, Free
    <3>2. \A d \in Channels :
            Dependencies(d)' = IF d = c THEN [Dependencies(d) EXCEPT ![from] = @ \ {to}]
                                        ELSE Dependencies(d)
      BY <2>0, <2>3, RemoveEdgeEffect DEF RemoveDependency
    <3>3. \A d \in Channels : \A k \in Keys : k \notin Dependencies(d)'[k]
      BY <3>2, DependenciesType DEF JobInv, NoSelfDependency, Irreflexive
    <3>. QED
      BY <3>1, <3>3 DEF JobInv, JobShape, NoSelfDependency, Irreflexive
  <2>4. ASSUME NEW from \in Keys, NEW c \in Channels, NEW to \in SUBSET Keys, NEW h \in Handlings,
               BeginReplace(from, c, to, h)
        PROVE  JobInv'
    BY <2>4, BeginReplaceStep
  <2>5. CASE ReplaceStep
    BY <2>1, <2>5, InnerStep DEF ReplaceStep, PanicReplace, FinishReplace, FinishUndo
  <2>6. ASSUME NEW key \in Keys, RemoveKey(key)
        PROVE  JobInv'
    <3>1. job' = NoReplace
      BY <2>6 DEF RemoveKey, Free
    <3>2. \A d \in Channels :
            Dependencies(d)' =
              [k \in Keys |-> IF k = key THEN {} ELSE Dependencies(d)[k] \ {key}]
      BY <2>0, <2>6, RemoveKeyEffect
    <3>3. \A d \in Channels : \A k \in Keys : k \notin Dependencies(d)'[k]
      BY <3>2 DEF JobInv, NoSelfDependency, Irreflexive
    <3>. QED
      BY <3>1, <3>3 DEF JobInv, JobShape, NoSelfDependency, Irreflexive
  <2>7. ASSUME job' = job, UNCHANGED edgeVars PROVE JobInv'
    BY <2>7 DEF edgeVars, JobInv, JobShape, NoSelfDependency, Irreflexive, Dependencies,
                Row, Judged
  <2>. QED
    BY <2>2, <2>3, <2>4, <2>5, <2>6, <2>7 DEF Next, ReadOutcome, vars, edgeVars
<1>. QED
  BY <1>1, <1>2, TypeCorrect, GraphConsistent, PTL DEF Spec

-----------------------------------------------------------------------------
(***************************************************************************)
(* No cycle without Allow.  The inductive form also keeps acyclic what a   *)
(* replacement in progress would be rolled back to: the roll-back re-adds  *)
(* edges with the check switched off.                                      *)
(***************************************************************************)
AcyclicInv ==
  "Allow" \notin Handlings =>
    \A c \in Channels : Acyclic(Dependencies(c)) /\ Acyclic(Visible[c])

\* The visible dependencies are a relation on the keys of each channel.
LEMMA VisibleType ==
  ASSUME job \in Jobs \cup {NoReplace}, NEW c \in Channels
  PROVE  Visible[c] \in [Keys -> SUBSET Keys]
<1>1. ASSUME NEW k \in Keys PROVE Dependencies(c)[k] \in SUBSET Keys
  BY DependenciesType
<1>2. job # NoReplace => job.removed \in SUBSET Keys
  BY JobTypes
<1>3. \A k \in Keys : Visible[c][k] \in SUBSET Keys
  BY <1>1, <1>2 DEF Visible
<1>. QED
  BY <1>3 DEF Visible

\* A step by which every channel keeps a part of what it had, or of what the
\* roll-back returns to, closes no cycle.
LEMMA ShrinkAcyclic ==
  ASSUME NEW c \in Channels, NEW D \in [Keys -> SUBSET Keys], Acyclic(D),
         \A k \in Keys : Dependencies(c)'[k] \subseteq D[k]
  PROVE  Acyclic(Dependencies(c)')
<1>1. Dependencies(c)' \in [Keys -> SUBSET Keys]
  BY DEF Dependencies, Listed
<1>. QED
  BY <1>1, SubrelationAcyclic

\* As long as no caller asks for Allow, no channel holds a cycle, in whatever
\* state a replacement or a panic leaves it (add_dependency and
\* replace_dependencies).
THEOREM GraphAcyclic == Spec => []AcyclicUnlessAllowed
<1>1. Init => AcyclicInv
  <2>. SUFFICES ASSUME Init PROVE \A c \in Channels : Acyclic(Dependencies(c)) /\ Acyclic(Visible[c])
    BY DEF AcyclicInv
  <2>1. \A c \in Channels : Dependencies(c) = [k \in Keys |-> {}] /\ Visible[c] = Dependencies(c)
    BY VisibleIdle DEF Init, Dependencies, Listed
  <2>2. Acyclic([k \in Keys |-> {}])
    BY DEF Acyclic
  <2>. QED
    BY <2>1, <2>2
<1>2. TypeOK /\ TypeOK' /\ Consistent /\ JobInv /\ JobInv' /\ AcyclicInv /\ [Next]_vars
        => AcyclicInv'
  <2>. SUFFICES ASSUME TypeOK, TypeOK', Consistent, JobInv, JobInv', AcyclicInv, [Next]_vars,
                       "Allow" \notin Handlings
                PROVE  \A c \in Channels : Acyclic(Dependencies(c)') /\ Acyclic(Visible'[c])
    BY DEF AcyclicInv
  <2>0. EdgeTypes
    BY DEF TypeOK, EdgeTypes
  <2>a. \A c \in Channels : Acyclic(Dependencies(c)) /\ Acyclic(Visible[c])
    BY DEF AcyclicInv
  \* The visible dependencies follow the real ones except inside a call,
  \* where they stand still.
  <2>b. ASSUME \/ job' = NoReplace
               \/ Visible' = Visible,
               \A c \in Channels : Acyclic(Dependencies(c)')
        PROVE  \A c \in Channels : Acyclic(Dependencies(c)') /\ Acyclic(Visible'[c])
    <3>1. CASE job' = NoReplace
      <4>1. \A c \in Channels : Dependencies(c)' \in [Keys -> SUBSET Keys]
        BY DEF Dependencies, Listed
      <4>2. \A c \in Channels : Visible'[c] = Dependencies(c)'
        BY <3>1, <4>1, VisibleIdleNext
      <4>. QED
        BY <2>b, <4>2
    <3>2. CASE Visible' = Visible
      BY <2>b, <2>a, <3>2
    <3>. QED
      BY <2>b, <3>1, <3>2
  <2>c. ASSUME UNCHANGED edgeVars PROVE \A c \in Channels : Acyclic(Dependencies(c)')
    BY <2>c, <2>a DEF Dependencies, edgeVars
  <2>d. ASSUME NEW from \in Keys, NEW to \in Keys, NEW c \in Channels, NEW h \in Handlings,
               AddVerdict(from, to, c, h) = "Added", InsertEdge(from, to, c)
        PROVE  \A d \in Channels : Acyclic(Dependencies(d)')
    <3>1. ~Reaches(Dependencies(c), to, from)
      BY <2>0, <2>d, VerdictMeaning
    <3>2. Acyclic([Dependencies(c) EXCEPT ![from] = @ \cup {to}])
      BY <2>a, <3>1, InsertAcyclic, DependenciesType
    <3>. QED
      BY <2>0, <2>a, <2>d, <3>2, InsertEdgeEffect
  <2>e. ASSUME NEW from \in Keys, NEW to \in Keys, NEW c \in Channels, RemoveEdge(from, to, c)
        PROVE  \A d \in Channels : Acyclic(Dependencies(d)')
    <3>1. ASSUME NEW d \in Channels PROVE \A k \in Keys : Dependencies(d)'[k] \subseteq Dependencies(d)[k]
      <4>1. Dependencies(d)' = IF d = c THEN [Dependencies(d) EXCEPT ![from] = @ \ {to}]
                                        ELSE Dependencies(d)
        BY <2>0, <2>e, RemoveEdgeEffect
      <4>. QED
        BY <4>1, DependenciesType
    <3>. QED
      BY <2>a, <3>1, ShrinkAcyclic, DependenciesType
  <2>1. ASSUME NEW from \in Keys, NEW to \in Keys, NEW c \in Channels, NEW h \in Handlings,
               AddDependency(from, to, c, h)
        PROVE  \A d \in Channels : Acyclic(Dependencies(d)') /\ Acyclic(Visible'[d])
    BY <2>1, <2>b, <2>c, <2>d DEF AddDependency, Free
  <2>2. ASSUME NEW from \in Keys, NEW to \in Keys, NEW c \in Channels,
               RemoveDependency(from, to, c)
        PROVE  \A d \in Channels : Acyclic(Dependencies(d)') /\ Acyclic(Visible'[d])
    BY <2>2, <2>b, <2>e DEF RemoveDependency, Free
  <2>3. ASSUME NEW from \in Keys, NEW c \in Channels, NEW to \in SUBSET Keys, NEW h \in Handlings,
               BeginReplace(from, c, to, h)
        PROVE  \A d \in Channels : Acyclic(Dependencies(d)') /\ Acyclic(Visible'[d])
    BY <2>3, <2>b, <2>c, BeginReplaceStep DEF BeginReplace
  <2>4. CASE ReplaceStep
    <3>0. ASSUME job.phase \in {"apply", "undo"}
          PROVE  /\ job \in Jobs /\ job.from \in Keys /\ job.channel \in Channels
                 /\ job.toRemove \subseteq Keys /\ job.added \subseteq Keys
                 /\ job.handling \in Handlings
      BY <3>0, JobTypes DEF TypeOK, NoReplace
    <3>1. CASE RemoveStale \/ UndoAddition
      BY <3>0, <3>1, <2>b, <2>e, InnerStep DEF RemoveStale, UndoAddition
    <3>2. ASSUME NEW dep \in Keys, AddNew(dep)
          PROVE  \A d \in Channels : Acyclic(Dependencies(d)') /\ Acyclic(Visible'[d])
      BY <3>0, <3>2, <2>b, <2>d, InnerStep DEF AddNew, Adding
    <3>3. ASSUME NEW dep \in Keys, IgnoreCyclic(dep) \/ FailReplace(dep)
          PROVE  \A d \in Channels : Acyclic(Dependencies(d)') /\ Acyclic(Visible'[d])
      BY <3>3, <2>b, <2>c, InnerStep DEF IgnoreCyclic, FailReplace
    <3>4. CASE UndoRemoval
      \* With no addition left, the current row is part of the old one.
      <4>1. job \in Jobs /\ job' \in Jobs
        <5>1. job.phase = "undo"
          BY <3>4 DEF UndoRemoval
        <5>2. job \in Jobs
          BY <3>0, <5>1
        <5>3. job'.phase = "undo"
          BY <3>4, <5>1, <5>2 DEF UndoRemoval, Jobs
        <5>. QED
          BY <5>2, <5>3 DEF TypeOK, NoReplace
      <4>2. Visible' = Visible /\ job'.added = {}
        BY <3>4, <4>1, UndoRemovalStep
      <4>3. \A c \in Channels : \A k \in Keys : Dependencies(c)'[k] \subseteq Visible'[c][k]
        BY <4>2 DEF Visible
      <4>4. \A c \in Channels : Visible[c] \in [Keys -> SUBSET Keys]
        BY VisibleType DEF TypeOK
      <4>5. \A c \in Channels : Acyclic(Dependencies(c)')
        BY <4>2, <4>3, <4>4, <2>a, ShrinkAcyclic
      <4>. QED
        BY <4>2, <4>5, <2>b
    <3>5. ASSUME job' = NoReplace, UNCHANGED edgeVars
          PROVE  \A d \in Channels : Acyclic(Dependencies(d)') /\ Acyclic(Visible'[d])
      BY <3>5, <2>b, <2>c
    <3>. QED
      BY <2>4, <3>1, <3>2, <3>3, <3>4, <3>5
         DEF ReplaceStep, PanicReplace, FinishReplace, FinishUndo
  <2>5. ASSUME NEW key \in Keys, RemoveKey(key)
        PROVE  \A d \in Channels : Acyclic(Dependencies(d)') /\ Acyclic(Visible'[d])
    <3>1. job' = NoReplace
      BY <2>5 DEF RemoveKey, Free
    <3>2. ASSUME NEW d \in Channels
          PROVE  \A k \in Keys : Dependencies(d)'[k] \subseteq Dependencies(d)[k]
      <4>1. Dependencies(d)' =
              [k \in Keys |-> IF k = key THEN {} ELSE Dependencies(d)[k] \ {key}]
        BY <2>0, <2>5, RemoveKeyEffect
      <4>. QED
        BY <4>1
    <3>3. \A d \in Channels : Acyclic(Dependencies(d)')
      BY <2>a, <3>2, ShrinkAcyclic, DependenciesType
    <3>. QED
      BY <3>1, <3>3, <2>b
  <2>6. ASSUME job' = job, UNCHANGED edgeVars
        PROVE  \A d \in Channels : Acyclic(Dependencies(d)') /\ Acyclic(Visible'[d])
    <3>1. Visible' = Visible
      BY <2>6 DEF Visible, Dependencies, edgeVars
    <3>. QED
      BY <2>6, <2>b, <2>c, <3>1
  <2>. QED
    BY <2>1, <2>2, <2>3, <2>4, <2>5, <2>6 DEF Next, ReadOutcome, vars, edgeVars
<1>3. AcyclicInv => AcyclicUnlessAllowed
  BY DEF AcyclicInv, AcyclicUnlessAllowed
<1>. QED
  BY <1>1, <1>2, <1>3, TypeCorrect, GraphConsistent, JobInvariant, PTL DEF Spec

-----------------------------------------------------------------------------
(***************************************************************************)
(* DependencyGraph implements DependencyContract, for every set of keys,   *)
(* channels and handlings and both kinds of build.                         *)
(*                                                                         *)
(* Single operations map to themselves.  A replacement is invisible while  *)
(* it runs, because the visible dependencies of the key being changed are  *)
(* what the roll-back would restore, and takes effect with its last step.  *)
(* The contract asks which additions must be refused in the graph without  *)
(* the stale edges; the code asks one addition at a time, in graphs that   *)
(* differ in the additions already made.  All these edges start at one     *)
(* key, so the answers agree.                                              *)
(***************************************************************************)

\* The contract's judgements and results are the graph's.
LEMMA SameJudgement ==
  /\ \A D, from, to, h : Contract!Refused(D, from, to, h) <=> Refuses(D, from, to, h)
  /\ \A h : Contract!CycleVerdict(h) = CycleVerdict(h)
  /\ \A tag : Contract!Plain(tag) = Plain(tag)
  /\ \A tag, added, removed, ignored :
       Contract!Returned(tag, added, removed, ignored) = Returned(tag, added, removed, ignored)
  /\ Contract!NotCalled = NotCalled
<1>1. \A D, a, b : Contract!Reaches(D, a, b) <=> Reaches(D, a, b)
  BY Zenon DEF Contract!Reaches, Contract!ClosedUnder, Reaches, ClosedUnder
<1>2. \A D, from, to, h : Contract!Refused(D, from, to, h) <=> Refuses(D, from, to, h)
  BY <1>1 DEF Contract!Refused, Refuses
<1>3. \A h : Contract!CycleVerdict(h) = CycleVerdict(h)
  BY DEF Contract!CycleVerdict, CycleVerdict
<1>. QED
  BY <1>2, <1>3 DEF Contract!Plain, Contract!Returned, Contract!NotCalled, Plain, Returned, NotCalled

\* While a replacement runs no result waits to be read.
BusyInv == job # NoReplace => outcome = NotCalled

\* The visible dependencies differ from the lists in one row at most.
LEMMA VisibleMeaning ==
  ASSUME job \in Jobs, NEW d \in Channels
  PROVE  Visible[d] = IF d = job.channel
                      THEN [Dependencies(d) EXCEPT ![job.from] = (Row \ job.added) \cup job.removed]
                      ELSE Dependencies(d)
<1>. DEFINE D == IF d = job.channel
                 THEN [Dependencies(d) EXCEPT ![job.from] = (Row \ job.added) \cup job.removed]
                 ELSE Dependencies(d)
<1>1. Visible[d] \in [Keys -> SUBSET Keys]
  BY VisibleType
<1>2. Dependencies(d) \in [Keys -> SUBSET Keys]
  BY DependenciesType
<1>3. (Row \ job.added) \cup job.removed \in SUBSET Keys
  BY JobTypes
<1>4. D \in [Keys -> SUBSET Keys]
  BY <1>2, <1>3
<1>5. \A k \in Keys : Visible[d][k] = D[k]
  BY <1>2, JobTypes DEF Visible, Row
<1>. HIDE DEF D
<1>6. Visible[d] = D
  BY <1>1, <1>4, <1>5
<1>. QED
  BY <1>6 DEF D

\* The last step of a replacement leaves the lists alone; what the caller sees
\* change is the row of the key.
LEMMA LastStep ==
  ASSUME job \in Jobs, job' = NoReplace, UNCHANGED edgeVars
  PROVE  Visible' = [Visible EXCEPT ![job.channel][job.from] = Row]
<1>1. \A d \in Channels : Dependencies(d)' = Dependencies(d)
  BY DEF edgeVars, Dependencies, Listed
<1>2. Visible' = [d \in Channels |-> Dependencies(d)]
  BY <1>1, VisibleIdleNext, DependenciesType
<1>3. \A d \in Channels :
        Visible[d] = IF d = job.channel
                     THEN [Dependencies(d) EXCEPT ![job.from] = (Row \ job.added) \cup job.removed]
                     ELSE Dependencies(d)
  BY VisibleMeaning
<1>4. job.channel \in Channels /\ job.from \in Keys
  BY DEF Jobs
<1>5. [Visible[job.channel] EXCEPT ![job.from] = Row] = Dependencies(job.channel)
  BY <1>3, <1>4, DependenciesType DEF Row
<1>6. [Visible EXCEPT ![job.channel][job.from] = Row]
        = [d \in Channels |-> IF d = job.channel
                              THEN [Visible[job.channel] EXCEPT ![job.from] = Row]
                              ELSE Visible[d]]
  BY DEF Visible
<1>. QED
  BY <1>2, <1>3, <1>5, <1>6

\* The additions the contract refuses are those the running replacement would
\* judge cyclic, whatever part of it has been made.
LEMMA RefusedMeaning ==
  ASSUME job \in Jobs, NEW to \in SUBSET Keys
  PROVE  Contract!RefusedAdditions(job.from, job.channel, to, job.handling)
           = {d \in to \ Visible[job.channel][job.from] : Judged(d)}
<1>. DEFINE c == job.channel
            old == (Row \ job.added) \cup job.removed
            kept == [Visible[c] EXCEPT ![job.from] = @ \cap to]
<1>1. c \in Channels /\ job.from \in Keys /\ old \in SUBSET Keys
  BY JobTypes DEF Jobs
<1>2. Dependencies(c) \in [Keys -> SUBSET Keys]
  BY <1>1, DependenciesType
<1>3. Visible[c] = [Dependencies(c) EXCEPT ![job.from] = old]
  BY <1>1, VisibleMeaning
<1>4. kept = [Dependencies(c) EXCEPT ![job.from] = old \cap to]
  <2>. HIDE DEF old
  <2>. QED
    BY <1>1, <1>2, <1>3
<1>. HIDE DEF old
<1>5. ASSUME NEW d \in Keys
      PROVE  Contract!Refused(kept, job.from, d, job.handling) <=> Judged(d)
  BY <1>1, <1>2, <1>4, RefusesStable, SameJudgement DEF Judged
<1>. HIDE DEF kept
<1>6. Contract!RefusedAdditions(job.from, job.channel, to, job.handling)
        = {d \in to \ Visible[c][job.from] :
             Contract!Refused(kept, job.from, d, job.handling)}
  BY DEF Contract!RefusedAdditions, kept
<1>. QED
  BY <1>5, <1>6

-----------------------------------------------------------------------------
(***************************************************************************)
(* The operations.                                                         *)
(***************************************************************************)
\* One row of the visible dependencies is all that a single edge changes.
LEMMA OneRow ==
  ASSUME job = NoReplace, job' = NoReplace, NEW c \in Channels, NEW from \in Keys, NEW row,
         \A d \in Channels :
           Dependencies(d)' = IF d = c THEN [Dependencies(d) EXCEPT ![from] = row]
                                       ELSE Dependencies(d)
  PROVE  Visible' = [Visible EXCEPT ![c][from] = row]
<1>1. \A d \in Channels : [k \in Keys |-> Dependencies(d)'[k]] =
        IF d = c THEN [Dependencies(d) EXCEPT ![from] = row] ELSE Dependencies(d)
  BY DependenciesType
<1>2. Visible = [d \in Channels |-> Dependencies(d)]
  BY VisibleIdle
<1>3. [Visible EXCEPT ![c][from] = row]
        = [d \in Channels |-> IF d = c THEN [Dependencies(d) EXCEPT ![from] = row]
                                       ELSE Dependencies(d)]
  BY <1>2
<1>. QED
  BY <1>1, <1>3, VisibleIdleNext

\* A row written with what it holds.
LEMMA SameRow ==
  ASSUME job \in Jobs \cup {NoReplace}, NEW c \in Channels, NEW from \in Keys
  PROVE  [Visible EXCEPT ![c][from] = Visible[c][from]] = Visible
<1>1. Visible = [d \in Channels |-> Visible[d]]
  BY DEF Visible
<1>2. \A d \in Channels : Visible[d] \in [Keys -> SUBSET Keys]
  BY VisibleType
<1>3. ASSUME NEW F \in [Channels -> [Keys -> SUBSET Keys]]
      PROVE  [F EXCEPT ![c][from] = F[c][from]] = F
  <2>1. [F[c] EXCEPT ![from] = F[c][from]] = F[c]
    OBVIOUS
  <2>. QED
    BY <2>1
<1>4. Visible \in [Channels -> [Keys -> SUBSET Keys]]
  BY <1>1, <1>2
<1>. QED
  BY <1>3, <1>4

\* add_dependency.
LEMMA AddRefines ==
  ASSUME TypeOK, Consistent, NEW from \in Keys, NEW to \in Keys, NEW c \in Channels,
         NEW h \in Handlings, AddDependency(from, to, c, h)
  PROVE  Contract!AddDependency(from, to, c, h)
<1>. DEFINE verdict == AddVerdict(from, to, c, h)
<1>1. /\ job = NoReplace /\ job' = NoReplace /\ outcome = NotCalled
      /\ outcome' = Plain(verdict) /\ EdgeTypes
  BY DEF AddDependency, Free, TypeOK, EdgeTypes
<1>2. Visible[c] = Dependencies(c)
  BY <1>1, VisibleIdle
<1>3. /\ verdict = "AlreadyPresent" <=> to \in Dependencies(c)[from]
      /\ verdict = "Added" <=>
           to \notin Dependencies(c)[from] /\ ~Refuses(Dependencies(c), from, to, h)
      /\ verdict \notin {"AlreadyPresent", "Added"} =>
           Refuses(Dependencies(c), from, to, h) /\ verdict = CycleVerdict(h)
  BY <1>1, VerdictMeaning DEF Refuses
<1>4. CASE verdict = "Added"
  <2>1. \A d \in Channels :
          Dependencies(d)' = IF d = c THEN [Dependencies(d) EXCEPT ![from] = @ \cup {to}]
                                      ELSE Dependencies(d)
    BY <1>1, <1>4, InsertEdgeEffect DEF AddDependency
  <2>2. Visible' = [Visible EXCEPT ![c][from] = Dependencies(c)[from] \cup {to}]
    BY <1>1, <2>1, OneRow
  <2>3. [Visible EXCEPT ![c][from] = Dependencies(c)[from] \cup {to}]
          = [Visible EXCEPT ![c][from] = @ \cup {to}]
    BY <1>2 DEF Visible
  <2>. QED
    BY <1>1, <1>2, <1>3, <1>4, <2>2, <2>3, SameJudgement DEF Contract!AddDependency
<1>5. CASE verdict # "Added"
  <2>1. UNCHANGED <<forward, job>>
    BY <1>5 DEF AddDependency, edgeVars
  <2>2. Visible' = Visible
    BY <2>1 DEF Visible, Dependencies, Listed
  <2>. QED
    BY <1>1, <1>2, <1>3, <1>5, <2>2, SameJudgement DEF Contract!AddDependency
<1>. QED
  BY <1>4, <1>5

\* remove_dependency.
LEMMA RemoveRefines ==
  ASSUME TypeOK, Consistent, NEW from \in Keys, NEW to \in Keys, NEW c \in Channels,
         RemoveDependency(from, to, c)
  PROVE  Contract!RemoveDependency(from, to, c)
<1>1. /\ job = NoReplace /\ job' = NoReplace /\ outcome = NotCalled /\ EdgeTypes
      /\ outcome' = Plain(IF to \in Dependencies(c)[from] THEN "Removed" ELSE "NotFound")
  BY DEF RemoveDependency, Free, TypeOK, EdgeTypes
<1>2. Visible[c] = Dependencies(c)
  BY <1>1, VisibleIdle
<1>3. \A d \in Channels :
        Dependencies(d)' = IF d = c THEN [Dependencies(d) EXCEPT ![from] = @ \ {to}]
                                    ELSE Dependencies(d)
  BY <1>1, RemoveEdgeEffect DEF RemoveDependency
<1>4. Visible' = [Visible EXCEPT ![c][from] = Dependencies(c)[from] \ {to}]
  BY <1>1, <1>3, OneRow
<1>5. [Visible EXCEPT ![c][from] = Dependencies(c)[from] \ {to}]
        = [Visible EXCEPT ![c][from] = @ \ {to}]
  BY <1>2 DEF Visible
<1>. QED
  BY <1>1, <1>2, <1>4, <1>5, SameJudgement DEF Contract!RemoveDependency

\* remove_key.
LEMMA RemoveKeyRefines ==
  ASSUME TypeOK, Consistent, NEW key \in Keys, RemoveKey(key)
  PROVE  Contract!RemoveKey(key)
<1>1. /\ job = NoReplace /\ job' = NoReplace /\ outcome = NotCalled /\ EdgeTypes
      /\ outcome' = Plain("KeyRemoved")
  BY DEF RemoveKey, Free, TypeOK, EdgeTypes
<1>2. \A d \in Channels : \A k \in Keys :
        Dependencies(d)'[k] = IF k = key THEN {} ELSE Visible[d][k] \ {key}
  <2>1. \A d \in Channels : Visible[d] = Dependencies(d)
    BY <1>1, VisibleIdle
  <2>2. \A d \in Channels :
          Dependencies(d)' = [k \in Keys |-> IF k = key THEN {} ELSE Dependencies(d)[k] \ {key}]
    BY <1>1, RemoveKeyEffect
  <2>. QED
    BY <2>1, <2>2
<1>3. Visible' = [c \in Channels |-> [k \in Keys |->
                    IF k = key THEN {} ELSE Visible[c][k] \ {key}]]
  <2>1. Visible' = [c \in Channels |-> [k \in Keys |-> Dependencies(c)'[k]]]
    BY <1>1, VisibleIdleNext
  <2>2. \A d \in Channels :
          [k \in Keys |-> Dependencies(d)'[k]]
            = [k \in Keys |-> IF k = key THEN {} ELSE Visible[d][k] \ {key}]
    BY <1>2
  <2>. QED
    BY <2>1, <2>2
<1>. QED
  BY <1>1, <1>3, SameJudgement DEF Contract!RemoveKey

\* A replacement that has nothing to change returns at once.
LEMMA BeginRefines ==
  ASSUME TypeOK, Consistent, JobInv, NEW from \in Keys, NEW c \in Channels,
         NEW to \in SUBSET Keys, NEW h \in Handlings, BeginReplace(from, c, to, h)
  PROVE  \/ UNCHANGED <<Visible, outcome>>
         \/ Contract!ReplaceDependencies(from, c, to, h)
<1>1. job = NoReplace /\ outcome = NotCalled /\ Visible' = Visible
  BY BeginReplaceStep DEF BeginReplace, Free
<1>2. CASE Dependencies(c)[from] = to
  <2>1. Visible[c][from] = to /\ outcome' = Plain("Replaced")
    BY <1>1, <1>2, VisibleIdle DEF BeginReplace
  <2>2. Contract!RefusedAdditions(from, c, to, h) = {}
    BY <2>1 DEF Contract!RefusedAdditions
  <2>3. Visible' = [Visible EXCEPT ![c][from] = to \ {}]
    <3>1. to \ {} = Visible[c][from]
      BY <2>1
    <3>. QED
      BY <1>1, <3>1, SameRow
  <2>. QED
    BY <1>1, <2>1, <2>2, <2>3, SameJudgement DEF Contract!ReplaceDependencies, Plain
<1>3. CASE Dependencies(c)[from] # to
  BY <1>1, <1>3 DEF BeginReplace
<1>. QED
  BY <1>2, <1>3

\* The replacement succeeded: the additions it ignored are those refused.
LEMMA FinishRefines ==
  ASSUME TypeOK, Consistent, JobInv, BusyInv, job \in Jobs, FinishReplace
  PROVE  /\ Row \cup job.ignored \in SUBSET Keys
         /\ Contract!ReplaceDependencies(job.from, job.channel, Row \cup job.ignored, job.handling)
<1>. DEFINE to == Row \cup job.ignored
            old == Visible[job.channel][job.from]
<1>1. /\ job.phase = "apply" /\ job.toRemove = {} /\ job.toAdd = {}
      /\ outcome' = Returned("Replaced", job.added, job.removed, job.ignored)
      /\ job' = NoReplace /\ UNCHANGED edgeVars
  BY DEF FinishReplace
<1>2. /\ job # NoReplace /\ outcome = NotCalled /\ Row \in SUBSET Keys
      /\ job.from \in Keys /\ job.channel \in Channels
      /\ job.added \in SUBSET Keys /\ job.removed \in SUBSET Keys /\ job.ignored \in SUBSET Keys
  BY JobTypes DEF BusyInv
<1>3. old = (Row \ job.added) \cup job.removed
  BY <1>2, VisibleMeaning, DependenciesType
<1>4. /\ job.added \subseteq Row /\ job.removed \cap Row = {}
      /\ job.ignored \cap (Row \cup job.removed) = {}
      /\ \A dep \in job.added : ~Judged(dep)
      /\ \A dep \in job.ignored : Judged(dep) /\ CycleVerdict(job.handling) = "CycleIgnored"
  BY <1>1, <1>2 DEF JobInv, JobShape
<1>5. to \in SUBSET Keys /\ to \ old = job.added \cup job.ignored /\ old \ to = job.removed
  BY <1>2, <1>3, <1>4
<1>6. Contract!RefusedAdditions(job.from, job.channel, to, job.handling) = job.ignored
  <2>. HIDE DEF to
  <2>1. Contract!RefusedAdditions(job.from, job.channel, to, job.handling)
          = {d \in to \ old : Judged(d)}
    BY <1>5, RefusedMeaning
  <2>. QED
    BY <1>4, <1>5, <2>1
<1>7. Visible' = [Visible EXCEPT ![job.channel][job.from] = to \ job.ignored]
  <2>1. to \ job.ignored = Row
    BY <1>4
  <2>. QED
    BY <1>1, <2>1, LastStep
<1>8. to \ (old \cup job.ignored) = job.added
  BY <1>3, <1>4, <1>5
<1>9. Contract!ReplaceDependencies(job.from, job.channel, to, job.handling)
  <2>1. job.ignored = {} \/ CycleVerdict(job.handling) = "CycleIgnored"
    BY <1>4
  <2>2. outcome' = Contract!Returned("Replaced", to \ (old \cup job.ignored), old \ to, job.ignored)
    BY <1>1, <1>5, <1>8, SameJudgement
  <2>. HIDE DEF to
  <2>. QED
    BY <1>2, <1>6, <1>7, <2>1, <2>2, SameJudgement DEF Contract!ReplaceDependencies
<1>. QED
  BY <1>5, <1>9

\* The replacement failed: when the roll-back ends, nothing has changed.  One
\* refused addition is enough to see that the contract would fail too.
LEMMA FinishUndoRefines ==
  ASSUME TypeOK, Consistent, JobInv, BusyInv, job \in Jobs, FinishUndo
  PROVE  \E to \in SUBSET Keys :
           Contract!ReplaceDependencies(job.from, job.channel, to, job.handling)
<1>1. /\ job.phase = "undo" /\ job.added = {} /\ job.removed = {}
      /\ outcome' = Plain("CycleError") /\ job' = NoReplace /\ UNCHANGED edgeVars
  BY DEF FinishUndo
<1>2. /\ job # NoReplace /\ outcome = NotCalled /\ Row \in SUBSET Keys
      /\ job.from \in Keys /\ job.channel \in Channels /\ job.toAdd \in SUBSET Keys
  BY JobTypes DEF BusyInv
<1>3. PICK dep \in job.toAdd : Judged(dep) /\ CycleVerdict(job.handling) = "CycleError"
  BY <1>1, <1>2 DEF JobInv, JobShape
<1>. DEFINE to == Row \cup {dep}
<1>4. Visible[job.channel][job.from] = Row
  <2>1. (Row \ job.added) \cup job.removed = Row
    BY <1>1
  <2>2. Dependencies(job.channel) \in [Keys -> SUBSET Keys]
    BY <1>2, DependenciesType
  <2>. QED
    BY <1>2, <2>1, <2>2, VisibleMeaning
<1>5. to \in SUBSET Keys /\ to \ Row = {dep}
  BY <1>1, <1>2 DEF JobInv, JobShape
<1>6. Contract!RefusedAdditions(job.from, job.channel, to, job.handling) = {dep}
  BY <1>3, <1>4, <1>5, RefusedMeaning
<1>7. Visible' = Visible
  <2>1. Visible' = [Visible EXCEPT ![job.channel][job.from] = Row]
    BY <1>1, LastStep
  <2>. QED
    BY <1>2, <1>4, <2>1, SameRow
<1>. HIDE DEF to
<1>8. Contract!ReplaceDependencies(job.from, job.channel, to, job.handling)
  BY <1>1, <1>2, <1>3, <1>6, <1>7, SameJudgement DEF Contract!ReplaceDependencies
<1>. QED
  BY <1>5, <1>8

\* The replacement panicked: what was made of it stays.
LEMMA PanicRefines ==
  ASSUME TypeOK, Consistent, JobInv, BusyInv, job \in Jobs, NEW dep \in Keys, PanicReplace(dep)
  PROVE  \E to \in SUBSET Keys :
           Contract!ReplaceDependencies(job.from, job.channel, to, job.handling)
<1>. DEFINE to == Row \cup {dep}
            old == Visible[job.channel][job.from]
<1>1. /\ job.phase = "apply" /\ job.toRemove = {} /\ dep \in job.toAdd
      /\ AddVerdict(job.from, dep, job.channel, job.handling) = "Panicked"
      /\ outcome' = Plain("Panicked") /\ job' = NoReplace /\ UNCHANGED edgeVars
  BY DEF PanicReplace, Adding
<1>2. /\ job # NoReplace /\ outcome = NotCalled /\ Row \in SUBSET Keys
      /\ job.from \in Keys /\ job.channel \in Channels
      /\ job.added \in SUBSET Keys /\ job.removed \in SUBSET Keys
  BY JobTypes DEF BusyInv
<1>3. Judged(dep) /\ CycleVerdict(job.handling) = "Panicked"
  BY <1>1, <1>2, VerdictMeaning DEF TypeOK, EdgeTypes, Judged, Refuses
<1>4. old = (Row \ job.added) \cup job.removed
  BY <1>2, VisibleMeaning, DependenciesType
<1>5. /\ job.added \subseteq Row /\ job.removed \cap Row = {}
      /\ dep \notin Row \cup job.removed
      /\ \A d \in job.added : ~Judged(d)
  BY <1>1, <1>2 DEF JobInv, JobShape
<1>6. /\ to \in SUBSET Keys /\ to \ old = job.added \cup {dep}
      /\ old \cap to = Row \ job.added /\ dep \notin job.added
  BY <1>2, <1>4, <1>5
<1>7. Contract!RefusedAdditions(job.from, job.channel, to, job.handling) = {dep}
  <2>. HIDE DEF to
  <2>1. Contract!RefusedAdditions(job.from, job.channel, to, job.handling)
          = {d \in to \ old : Judged(d)}
    BY <1>6, RefusedMeaning
  <2>. QED
    BY <1>3, <1>5, <1>6, <2>1
<1>8. Visible' = [Visible EXCEPT ![job.channel][job.from] = (old \cap to) \cup job.added]
  <2>1. (old \cap to) \cup job.added = Row
    BY <1>5, <1>6
  <2>. QED
    BY <1>1, <2>1, LastStep
<1>9. job.added \in SUBSET (to \ (old \cup {dep}))
  BY <1>6
<1>. HIDE DEF to
<1>10. Contract!ReplaceDependencies(job.from, job.channel, to, job.handling)
  BY <1>1, <1>2, <1>3, <1>7, <1>8, <1>9, SameJudgement DEF Contract!ReplaceDependencies
<1>. QED
  BY <1>6, <1>10

(***************************************************************************)
(* Every operation of the graph has, for its caller, the atomic effect and *)
(* the result of the contract: a failed replacement changes nothing, a     *)
(* successful one reports exactly its changes.                             *)
(***************************************************************************)
THEOREM GraphImplementsContract == Spec => ImplementsContract
<1>1. Init => Contract!Init /\ BusyInv
  <2>1. Init => Visible = [c \in Channels |-> [k \in Keys |-> {}]]
    BY DEF Init, Visible, Dependencies, Listed
  <2>. QED
    BY <2>1, SameJudgement DEF Init, Contract!Init, BusyInv
<1>2. TypeOK /\ Consistent /\ JobInv /\ BusyInv /\ TypeOK' /\ [Next]_vars
        => [Contract!Next]_(Contract!contractVars) /\ BusyInv'
  <2>. SUFFICES ASSUME TypeOK, Consistent, JobInv, BusyInv, TypeOK', [Next]_vars
                PROVE  [Contract!Next]_(Contract!contractVars) /\ BusyInv'
    OBVIOUS
  <2>1. CASE ReadOutcome
    <3>1. Visible' = Visible
      BY <2>1 DEF ReadOutcome, edgeVars, Visible, Dependencies, Listed
    <3>. QED
      BY <2>1, <3>1, SameJudgement DEF ReadOutcome, Contract!ReadOutcome, Contract!Next, BusyInv
  <2>2. ASSUME NEW from \in Keys, NEW to \in Keys, NEW c \in Channels, NEW h \in Handlings,
               AddDependency(from, to, c, h)
        PROVE  Contract!Next /\ BusyInv'
    BY <2>2, AddRefines DEF Contract!Next, AddDependency, Free, BusyInv
  <2>3. ASSUME NEW from \in Keys, NEW to \in Keys, NEW c \in Channels,
               RemoveDependency(from, to, c)
        PROVE  Contract!Next /\ BusyInv'
    BY <2>3, RemoveRefines DEF Contract!Next, RemoveDependency, Free, BusyInv
  <2>4. ASSUME NEW from \in Keys, NEW c \in Channels, NEW to \in SUBSET Keys, NEW h \in Handlings,
               BeginReplace(from, c, to, h)
        PROVE  [Contract!Next]_(Contract!contractVars) /\ BusyInv'
    <3>1. BusyInv'
      BY <2>4 DEF BeginReplace, Free, BusyInv
    <3>. QED
      BY <2>4, <3>1, BeginRefines DEF Contract!Next, Contract!contractVars
  <2>5. CASE ReplaceStep
    <3>1. job.phase \in {"apply", "undo"}
      BY <2>5 DEF ReplaceStep, RemoveStale, UndoAddition, UndoRemoval, AddNew, IgnoreCyclic,
                  FailReplace, PanicReplace, FinishReplace, FinishUndo, Adding
    <3>2. job \in Jobs /\ job # NoReplace
      BY <3>1 DEF TypeOK, NoReplace
    <3>3. CASE \/ RemoveStale \/ UndoAddition \/ UndoRemoval
               \/ \E dep \in Keys : AddNew(dep) \/ IgnoreCyclic(dep) \/ FailReplace(dep)
      <4>1. Visible' = Visible /\ outcome' = outcome
        BY <3>3, InnerStep
      <4>. QED
        BY <3>2, <4>1 DEF BusyInv, Contract!contractVars
    <3>4. CASE FinishReplace \/ FinishUndo \/ \E dep \in Keys : PanicReplace(dep)
      <4>1. \E to \in SUBSET Keys :
              Contract!ReplaceDependencies(job.from, job.channel, to, job.handling)
        BY <3>2, <3>4, FinishRefines, FinishUndoRefines, PanicRefines
      <4>2. job' = NoReplace
        BY <3>4 DEF FinishReplace, FinishUndo, PanicReplace
      <4>. QED
        BY <3>2, <4>1, <4>2 DEF Jobs, Contract!Next, BusyInv
    <3>. QED
      BY <2>5, <3>3, <3>4 DEF ReplaceStep
  <2>6. ASSUME NEW key \in Keys, RemoveKey(key)
        PROVE  Contract!Next /\ BusyInv'
    BY <2>6, RemoveKeyRefines DEF Contract!Next, RemoveKey, Free, BusyInv
  <2>7. CASE UNCHANGED vars
    BY <2>7 DEF vars, Visible, Dependencies, Listed, BusyInv, Contract!contractVars
  <2>. QED
    BY <2>1, <2>2, <2>3, <2>4, <2>5, <2>6, <2>7 DEF Next
<1>. QED
  BY <1>1, <1>2, TypeCorrect, GraphConsistent, JobInvariant, PTL
     DEF Spec, ImplementsContract, Contract!Spec

(***************************************************************************)
(* The arguments.  The target of a replacement is what its steps move      *)
(* between the row, the additions to be made and the ignored ones.         *)
(***************************************************************************)
\* A replacement starts out for its target ...
LEMMA BeginTarget ==
  ASSUME TypeOK, NEW from \in Keys, NEW c \in Channels, NEW to \in SUBSET Keys,
         NEW h \in Handlings, BeginReplace(from, c, to, h), job' # NoReplace
  PROVE  Target' = to
<1>. DEFINE old == Dependencies(c)[from]
<1>1. job' = [phase |-> "apply", from |-> from, channel |-> c, handling |-> h,
              toRemove |-> old \ to, toAdd |-> to \ old,
              added |-> {}, removed |-> {}, ignored |-> {}]
  BY DEF BeginReplace, Free
<1>2. Dependencies(c)'[from] = old
  BY DEF BeginReplace, edgeVars, Dependencies, Listed
<1>3. Target' = (old \ (old \ to)) \cup (to \ old)
  BY <1>1, <1>2 DEF Target
<1>. QED
  BY <1>3

\* ... and no step of it strays.
LEMMA StepTarget ==
  ASSUME TypeOK, Consistent, job \in Jobs,
         RemoveStale \/ \E dep \in Keys : AddNew(dep) \/ IgnoreCyclic(dep)
  PROVE  Target' = Target
<1>1. EdgeTypes /\ job.from \in Keys /\ job.channel \in Channels /\ Row \in SUBSET Keys
  BY JobTypes DEF TypeOK, EdgeTypes
<1>2. Target = (Row \ job.toRemove) \cup job.toAdd \cup job.ignored
  BY DEF Target, Row
<1>3. CASE RemoveStale
  <2>1. PICK dep \in job.toRemove :
          /\ job' = [job EXCEPT !.toRemove = @ \ {dep},
                                !.removed = @ \cup ({dep} \cap Dependencies(job.channel)[job.from])]
          /\ RemoveEdge(job.from, dep, job.channel)
    BY <1>3 DEF RemoveStale
  <2>2. dep \in Keys
    BY <2>1, JobTypes DEF Jobs
  <2>3. Dependencies(job.channel)'[job.from] = Row \ {dep}
    BY <1>1, <2>1, <2>2, RemoveEdgeEffect, DependenciesType DEF Row
  <2>4. Target' = ((Row \ {dep}) \ (job.toRemove \ {dep})) \cup job.toAdd \cup job.ignored
    BY <2>1, <2>3 DEF Target, Jobs
  <2>. QED
    BY <1>2, <2>1, <2>4
<1>4. ASSUME NEW dep \in Keys, AddNew(dep)
      PROVE  Target' = Target
  <2>1. /\ job.toRemove = {} /\ dep \in job.toAdd
        /\ job' = [job EXCEPT !.toAdd = @ \ {dep}, !.added = @ \cup {dep}]
        /\ InsertEdge(job.from, dep, job.channel)
    BY <1>4 DEF AddNew, Adding
  <2>2. Dependencies(job.channel)'[job.from] = Row \cup {dep}
    BY <1>1, <2>1, InsertEdgeEffect, DependenciesType DEF Row
  <2>3. Target' = ((Row \cup {dep}) \ {}) \cup (job.toAdd \ {dep}) \cup job.ignored
    BY <2>1, <2>2 DEF Target, Jobs
  <2>. QED
    BY <1>2, <2>1, <2>3
<1>5. ASSUME NEW dep \in Keys, IgnoreCyclic(dep)
      PROVE  Target' = Target
  <2>1. /\ job.toRemove = {} /\ dep \in job.toAdd
        /\ job' = [job EXCEPT !.toAdd = @ \ {dep}, !.ignored = @ \cup {dep}]
        /\ UNCHANGED edgeVars
    BY <1>5 DEF IgnoreCyclic, Adding
  <2>2. Dependencies(job.channel)'[job.from] = Row
    BY <2>1 DEF Row, edgeVars, Dependencies, Listed
  <2>3. Target' = (Row \ {}) \cup (job.toAdd \ {dep}) \cup (job.ignored \cup {dep})
    BY <2>1, <2>2 DEF Target, Jobs
  <2>. QED
    BY <1>2, <2>1, <2>3
<1>. QED
  BY <1>3, <1>4, <1>5

\* A replacement that fails was asked for an addition it must refuse.
LEMMA FailureIsRefusal ==
  ASSUME TypeOK, Consistent, JobInv, job \in Jobs, NEW dep \in Keys,
         FailReplace(dep) \/ PanicReplace(dep)
  PROVE  dep \in Contract!RefusedAdditions(job.from, job.channel, Target, job.handling)
<1>1. /\ job.phase = "apply" /\ job.toRemove = {} /\ dep \in job.toAdd
      /\ AddVerdict(job.from, dep, job.channel, job.handling) \notin {"AlreadyPresent", "Added"}
  BY DEF FailReplace, PanicReplace, Adding
<1>2. /\ Row \in SUBSET Keys /\ job.from \in Keys /\ job.channel \in Channels
      /\ job.toAdd \in SUBSET Keys /\ job.ignored \in SUBSET Keys
  BY JobTypes
<1>3. Judged(dep)
  BY <1>1, <1>2, VerdictMeaning DEF TypeOK, EdgeTypes, Judged, Refuses
<1>4. Target \in SUBSET Keys /\ dep \in Target
  BY <1>1, <1>2 DEF Target, Row
<1>5. Visible[job.channel][job.from] = (Row \ job.added) \cup job.removed
  BY <1>2, VisibleMeaning, DependenciesType
<1>6. dep \notin Visible[job.channel][job.from]
  <2>1. job # NoReplace
    BY DEF Jobs, NoReplace
  <2>2. dep \notin Row \cup job.removed
    BY <1>1, <1>2, <2>1 DEF JobInv, JobShape
  <2>. QED
    BY <1>5, <2>2
<1>. QED
  BY <1>3, <1>4, <1>6, RefusedMeaning

\* Every call has the effect and the answer that the contract gives for its own
\* arguments; a replacement, for the set it was asked for.
THEOREM GraphKeepsToArguments == Spec => CallsKeepToArguments
<1>1. ASSUME TypeOK, Consistent, JobInv, BusyInv
      PROVE  KeepsToArguments
  <2>1. ASSUME NEW from \in Keys, NEW c \in Channels, NEW to \in SUBSET Keys,
               NEW h \in Handlings, BeginReplace(from, c, to, h)
        PROVE  IF job' = NoReplace THEN Contract!ReplaceDependencies(from, c, to, h)
                                   ELSE Target' = to
    <3>1. CASE job' = NoReplace
      <4>1. Dependencies(c)[from] = to /\ outcome = NotCalled /\ outcome' = Plain("Replaced")
        BY <2>1, <3>1 DEF BeginReplace, Free, NoReplace
      <4>2. outcome' # outcome
        BY <4>1 DEF Plain, NotCalled, Returned
      <4>. QED
        BY <1>1, <2>1, <3>1, <4>2, BeginRefines
    <3>. QED
      BY <1>1, <2>1, <3>1, BeginTarget
  <2>2. ASSUME RemoveStale \/ \E dep \in Keys : AddNew(dep) \/ IgnoreCyclic(dep)
        PROVE  Target' = Target
    <3>1. job.phase = "apply"
      BY <2>2 DEF RemoveStale, AddNew, IgnoreCyclic, Adding
    <3>2. job \in Jobs
      BY <1>1, <3>1 DEF TypeOK, NoReplace
    <3>. QED
      BY <1>1, <2>2, <3>2, StepTarget
  <2>3. ASSUME FinishReplace
        PROVE  Contract!ReplaceDependencies(job.from, job.channel, Target, job.handling)
    <3>1. job \in Jobs
      BY <1>1, <2>3 DEF FinishReplace, TypeOK, NoReplace
    <3>2. Target = Row \cup job.ignored
      BY <2>3 DEF FinishReplace, Target, Row
    <3>. QED
      BY <1>1, <2>3, <3>1, <3>2, FinishRefines
  <2>4. ASSUME NEW dep \in Keys, FailReplace(dep) \/ PanicReplace(dep)
        PROVE  Contract!RefusedAdditions(job.from, job.channel, Target, job.handling) # {}
    <3>1. job \in Jobs
      BY <1>1, <2>4 DEF FailReplace, PanicReplace, Adding, TypeOK, NoReplace
    <3>. QED
      BY <1>1, <2>4, <3>1, FailureIsRefusal
  <2>. QED
    BY <1>1, <2>1, <2>2, <2>3, <2>4, AddRefines, RemoveRefines, RemoveKeyRefines
       DEF KeepsToArguments
<1>2. Spec => []BusyInv
  <2>1. Init => BusyInv
    BY DEF Init, BusyInv
  <2>2. BusyInv /\ [Next]_vars => BusyInv'
    <3>. SUFFICES ASSUME BusyInv, [Next]_vars
                  PROVE  BusyInv'
      OBVIOUS
    <3>1. CASE ReplaceStep
      <4>1. CASE \/ RemoveStale \/ UndoAddition \/ UndoRemoval
                 \/ \E dep \in Keys : AddNew(dep) \/ IgnoreCyclic(dep) \/ FailReplace(dep)
        <5>1. job.phase # "idle"
          BY <4>1 DEF RemoveStale, UndoAddition, UndoRemoval, AddNew, IgnoreCyclic, FailReplace, Adding
        <5>2. outcome' = outcome
          BY <4>1 DEF RemoveStale, UndoAddition, UndoRemoval, AddNew, IgnoreCyclic, FailReplace
        <5>. QED
          BY <5>1, <5>2 DEF BusyInv, NoReplace
      <4>2. CASE FinishReplace \/ FinishUndo \/ \E dep \in Keys : PanicReplace(dep)
        BY <4>2 DEF BusyInv, FinishReplace, FinishUndo, PanicReplace
      <4>. QED
        BY <3>1, <4>1, <4>2 DEF ReplaceStep
    <3>2. CASE ReadOutcome
      BY <3>2 DEF BusyInv, ReadOutcome
    <3>3. ASSUME NEW from \in Keys, NEW to \in Keys, NEW c \in Channels,
                 RemoveDependency(from, to, c) \/ \E h \in Handlings : AddDependency(from, to, c, h)
          PROVE  BusyInv'
      BY <3>3 DEF BusyInv, AddDependency, RemoveDependency, Free
    <3>4. ASSUME NEW from \in Keys, NEW c \in Channels, NEW to \in SUBSET Keys,
                 NEW h \in Handlings, BeginReplace(from, c, to, h)
          PROVE  BusyInv'
      BY <3>4 DEF BusyInv, BeginReplace, Free
    <3>5. ASSUME NEW key \in Keys, RemoveKey(key)
          PROVE  BusyInv'
      BY <3>5 DEF BusyInv, RemoveKey, Free
    <3>6. CASE UNCHANGED vars
      BY <3>6 DEF BusyInv, vars
    <3>. QED
      BY <3>1, <3>2, <3>3, <3>4, <3>5, <3>6 DEF Next
  <2>. QED
    BY <2>1, <2>2, PTL DEF Spec
<1>. QED
  BY <1>1, <1>2, TypeCorrect, GraphConsistent, JobInvariant, PTL DEF Spec, CallsKeepToArguments

-----------------------------------------------------------------------------
(***************************************************************************)
(* What is asked about a graph.  Degrees and edge counts add up the        *)
(* entries of lists key by key; a sum is right because some function       *)
(* satisfies its equation - the one that counts the edges - and by the     *)
(* equation no other can.                                                  *)
(***************************************************************************)
\* sum adds up the weights of the keys of a set, in some order.
AddsUp(sum, weight) ==
  sum = [s \in SUBSET Keys |->
           IF s = {} THEN 0
           ELSE weight[CHOOSE k \in s : TRUE] + sum[s \ {CHOOSE k \in s : TRUE}]]

\* weight[k] is the number of members of E that belong to k.
Weighs(E, owner, weight) ==
  /\ IsFiniteSet(E) /\ owner \in [E -> Keys]
  /\ \A k \in Keys : weight[k] = Cardinality({e \in E : owner[e] = k})

\* The members of E that belong to a key of s.
OwnedBy(E, owner, s) == {e \in E : owner[e] \in s}

\* The members that belong to a set with x, and to the same set without x.
LEMMA OneMoreOwner ==
  ASSUME NEW E, NEW owner, NEW weight, Weighs(E, owner, weight),
         NEW s \in SUBSET Keys, NEW x \in s
  PROVE  Cardinality(OwnedBy(E, owner, s)) = weight[x] + Cardinality(OwnedBy(E, owner, s \ {x}))
<1>. DEFINE mine == {e \in E : owner[e] = x}
            others == OwnedBy(E, owner, s \ {x})
            all == OwnedBy(E, owner, s)
<1>1. IsFiniteSet(E) /\ weight[x] = Cardinality(mine)
  BY DEF Weighs
<1>2. all = mine \cup others /\ mine \cap others = {}
  BY DEF OwnedBy
<1>3. IsFiniteSet(mine) /\ IsFiniteSet(others)
  BY <1>1, FS_Subset DEF OwnedBy
<1>. HIDE DEF mine, others, all
<1>4. Cardinality(all) = Cardinality(mine) + Cardinality(others) - Cardinality(mine \cap others)
  BY <1>2, <1>3, FS_Union
<1>5. Cardinality(mine \cap others) = 0
  BY <1>2, FS_EmptySet
<1>6. Cardinality(mine) \in Nat /\ Cardinality(others) \in Nat
  BY <1>3, FS_CardinalityType
<1>. QED
  BY <1>1, <1>4, <1>5, <1>6 DEF mine, others, all

\* Whatever adds up the weights counts the members of E.
LEMMA SumCounts ==
  ASSUME NEW E, NEW owner, NEW weight, Weighs(E, owner, weight),
         NEW sum, AddsUp(sum, weight)
  PROVE  sum[Keys] = Cardinality(E)
<1>. DEFINE Of(s) == OwnedBy(E, owner, s)
            T == {s \in SUBSET Keys : sum[s] = Cardinality(Of(s))}
<1>1. ASSUME NEW s \in SUBSET Keys, \A x \in s : s \ {x} \in T
      PROVE  s \in T
  <2>1. CASE s = {}
    <3>1. sum[s] = 0 /\ Of(s) = {}
      BY <2>1 DEF AddsUp, OwnedBy
    <3>. QED
      BY <3>1, FS_EmptySet
  <2>2. CASE s # {}
    <3>. DEFINE x == CHOOSE k \in s : TRUE
    <3>1. x \in s
      BY <2>2
    <3>2. sum[s] = weight[x] + sum[s \ {x}]
      BY <2>2 DEF AddsUp
    <3>. HIDE DEF x
    <3>3. sum[s \ {x}] = Cardinality(Of(s \ {x}))
      BY <1>1, <3>1
    <3>4. Cardinality(Of(s)) = weight[x] + Cardinality(Of(s \ {x}))
      BY <3>1, OneMoreOwner
    <3>. HIDE DEF Of
    <3>. QED
      BY <3>2, <3>3, <3>4
  <2>. QED
    BY <2>1, <2>2
<1>2. T = SUBSET Keys
  <2>1. T \in SUBSET SUBSET Keys /\ IsFiniteSet(Keys)
    BY GraphAssumption
  <2>. HIDE DEF T
  <2>. QED
    BY <1>1, <2>1, EverySubset
<1>3. Of(Keys) = E
  BY DEF Weighs, OwnedBy
<1>4. Keys \in T
  BY <1>2
<1>. QED
  BY <1>3, <1>4

\* Something does.
LEMMA SumExists ==
  ASSUME NEW E, NEW owner, NEW weight, Weighs(E, owner, weight)
  PROVE  \E sum : AddsUp(sum, weight)
<1>. DEFINE Of(s) == OwnedBy(E, owner, s)
            sum == [s \in SUBSET Keys |-> Cardinality(Of(s))]
<1>1. ASSUME NEW s \in SUBSET Keys
      PROVE  sum[s] = IF s = {} THEN 0
                      ELSE weight[CHOOSE k \in s : TRUE] + sum[s \ {CHOOSE k \in s : TRUE}]
  <2>1. CASE s = {}
    <3>1. Of(s) = {}
      BY <2>1 DEF OwnedBy
    <3>. QED
      BY <2>1, <3>1, FS_EmptySet
  <2>2. CASE s # {}
    <3>. DEFINE x == CHOOSE k \in s : TRUE
    <3>1. x \in s
      BY <2>2
    <3>. HIDE DEF x
    <3>2. Cardinality(Of(s)) = weight[x] + Cardinality(Of(s \ {x}))
      BY <3>1, OneMoreOwner
    <3>3. sum[s] = weight[x] + sum[s \ {x}]
      BY <3>2
    <3>. QED
      BY <2>2, <3>3 DEF x
  <2>. QED
    BY <2>1, <2>2
<1>2. AddsUp(sum, weight)
  <2>1. sum = [s \in SUBSET Keys |-> sum[s]]
    OBVIOUS
  <2>. HIDE DEF sum
  <2>. QED
    BY <1>1, <2>1 DEF AddsUp
<1>. QED
  BY <1>2

\* The length of a list, as a count (InvalidationGraph::in_degree, out_degree).
LEMMA LengthCounts ==
  ASSUME NEW list, NEW E, NEW owner, Weighs(E, owner, list)
  PROVE  Length(list) = Cardinality(E)
<1>. DEFINE sum == CHOOSE f : AddsUp(f, list)
<1>1. Length(list) = sum[Keys]
  BY DEF Length, MapThenFoldSet, AddsUp
<1>2. AddsUp(sum, list)
  BY SumExists
<1>. HIDE DEF sum
<1>. QED
  BY <1>1, <1>2, SumCounts

\* The number of edges, as a count (InvalidationGraph::edge_count).
LEMMA EdgeCountCounts ==
  ASSUME NEW c, NEW E, NEW owner, NEW weight, Weighs(E, owner, weight),
         \A k \in Keys : weight[k] = InDegree(k, c)
  PROVE  EdgeCount(c) = Cardinality(E)
<1>. DEFINE Adds(f) == f = [s \in SUBSET Keys |->
                              IF s = {} THEN 0
                              ELSE InDegree(CHOOSE k \in s : TRUE, c)
                                   + f[s \ {CHOOSE k \in s : TRUE}]]
            sum == CHOOSE f : Adds(f)
<1>1. EdgeCount(c) = sum[Keys]
  BY DEF EdgeCount, MapThenFoldSet
<1>2. \A s \in SUBSET Keys : s # {} => weight[CHOOSE k \in s : TRUE] = InDegree(CHOOSE k \in s : TRUE, c)
  OBVIOUS
<1>3. ASSUME NEW f PROVE AddsUp(f, weight) <=> Adds(f)
  <2>. DEFINE left == [s \in SUBSET Keys |->
                         IF s = {} THEN 0
                         ELSE weight[CHOOSE k \in s : TRUE] + f[s \ {CHOOSE k \in s : TRUE}]]
              right == [s \in SUBSET Keys |->
                          IF s = {} THEN 0
                          ELSE InDegree(CHOOSE k \in s : TRUE, c)
                               + f[s \ {CHOOSE k \in s : TRUE}]]
  <2>1. left = right
    BY <1>2
  <2>. QED
    BY <2>1, Zenon DEF AddsUp
<1>4. Adds(sum)
  <2>1. PICK f : AddsUp(f, weight)
    BY SumExists
  <2>2. Adds(f)
    BY <1>3, <2>1
  <2>. HIDE DEF Adds
  <2>. QED
    BY <2>2
<1>. HIDE DEF sum, Adds
<1>. QED
  BY <1>1, <1>3, <1>4, SumCounts

\* The edges of a channel.
EdgesIn(c) == {e \in Keys \X Keys : e[2] \in Dependencies(c)[e[1]]}

\* What the tables say of one channel, in terms of its edges.
LEMMA EdgesMeaning ==
  ASSUME TablesConsistent, NEW c \in Channels
  PROVE  /\ EdgesIn(c) \in SUBSET (Keys \X Keys) /\ IsFiniteSet(EdgesIn(c))
         /\ \A a, b \in Keys :
              /\ forward[c][a][b] = IF <<a, b>> \in EdgesIn(c) THEN 1 ELSE 0
              /\ reverse[c][b][a] = IF <<a, b>> \in EdgesIn(c) THEN 1 ELSE 0
         /\ \A k \in Keys :
              /\ Listed(forward[c][k]) = {b \in Keys : <<k, b>> \in EdgesIn(c)}
              /\ Listed(reverse[c][k]) = {a \in Keys : <<a, k>> \in EdgesIn(c)}
<1>1. \A a, b \in Keys : /\ forward[c][a][b] \in {0, 1}
                         /\ reverse[c][b][a] = forward[c][a][b]
  <2>1. \A a, b \in Keys : forward[c][a][b] \in Nat /\ forward[c][a][b] <= 1
    BY DEF TablesConsistent, NoDuplicateEntries, TypeOK
  <2>. QED
    BY <2>1 DEF TablesConsistent, DirectionsAgree
<1>2. \A a, b \in Keys : <<a, b>> \in EdgesIn(c) <=> forward[c][a][b] > 0
  BY DEF EdgesIn, Dependencies, Listed
<1>3. EdgesIn(c) \in SUBSET (Keys \X Keys)
  BY DEF EdgesIn
<1>4. IsFiniteSet(EdgesIn(c))
  <2>1. IsFiniteSet(Keys \X Keys)
    BY FS_Product, GraphAssumption
  <2>. QED
    BY <1>3, <2>1, FS_Subset
<1>5. \A a, b \in Keys :
        /\ forward[c][a][b] = IF <<a, b>> \in EdgesIn(c) THEN 1 ELSE 0
        /\ reverse[c][b][a] = IF <<a, b>> \in EdgesIn(c) THEN 1 ELSE 0
  <2>. SUFFICES ASSUME NEW a \in Keys, NEW b \in Keys
                PROVE  /\ forward[c][a][b] = IF <<a, b>> \in EdgesIn(c) THEN 1 ELSE 0
                       /\ reverse[c][b][a] = IF <<a, b>> \in EdgesIn(c) THEN 1 ELSE 0
    BY Zenon
  <2>1. <<a, b>> \in EdgesIn(c) <=> forward[c][a][b] > 0
    BY <1>2
  <2>2. forward[c][a][b] \in {0, 1} /\ reverse[c][b][a] = forward[c][a][b]
    BY <1>1
  <2>. QED
    BY <2>1, <2>2
<1>. QED
  BY <1>3, <1>4, <1>5 DEF Listed

\* The degrees of a key and the number of edges are counts of edges.
LEMMA CountsMeaning ==
  ASSUME TablesConsistent, NEW c \in Channels
  PROVE  /\ \A k \in Keys :
              /\ InDegree(k, c) = Cardinality({e \in EdgesIn(c) : e[1] = k})
              /\ OutDegree(k, c) = Cardinality({e \in EdgesIn(c) : e[2] = k})
         /\ EdgeCount(c) = Cardinality(EdgesIn(c))
<1>. DEFINE edges == EdgesIn(c)
<1>1. /\ edges \in SUBSET (Keys \X Keys) /\ IsFiniteSet(edges)
      /\ \A a, b \in Keys :
           /\ forward[c][a][b] = IF <<a, b>> \in edges THEN 1 ELSE 0
           /\ reverse[c][b][a] = IF <<a, b>> \in edges THEN 1 ELSE 0
  BY EdgesMeaning
<1>. HIDE DEF edges
<1>2. ASSUME NEW a \in Keys, NEW b \in Keys, NEW S, S = {e \in edges : e = <<a, b>>}
      PROVE  Cardinality(S) = IF <<a, b>> \in edges THEN 1 ELSE 0
  <2>1. CASE <<a, b>> \in edges
    <3>1. S = {<<a, b>>}
      BY <1>2, <2>1
    <3>. QED
      BY <2>1, <3>1, FS_Singleton
  <2>2. CASE <<a, b>> \notin edges
    <3>1. S = {}
      BY <1>2, <2>2
    <3>. QED
      BY <2>2, <3>1, FS_EmptySet
  <2>. QED
    BY <2>1, <2>2
<1>3. ASSUME NEW k \in Keys
      PROVE  InDegree(k, c) = Cardinality({e \in edges : e[1] = k})
  <2>. DEFINE E == {e \in edges : e[1] = k}
              owner == [e \in E |-> e[2]]
              list == forward[c][k]
  <2>1. IsFiniteSet(E) /\ owner \in [E -> Keys]
    BY <1>1, FS_Subset
  <2>2. ASSUME NEW b \in Keys PROVE list[b] = Cardinality({e \in E : owner[e] = b})
    <3>1. {e \in E : owner[e] = b} = {e \in edges : e = <<k, b>>}
      BY <1>1
    <3>2. list[b] = IF <<k, b>> \in edges THEN 1 ELSE 0
      BY <1>1
    <3>. HIDE DEF E, owner, list
    <3>. QED
      BY <1>2, <3>1, <3>2
  <2>. HIDE DEF E, owner, list
  <2>3. Weighs(E, owner, list)
    BY <2>1, <2>2 DEF Weighs
  <2>4. Length(list) = Cardinality(E)
    BY <2>3, LengthCounts
  <2>. QED
    BY <2>4 DEF InDegree, E, list
<1>4. ASSUME NEW k \in Keys
      PROVE  OutDegree(k, c) = Cardinality({e \in edges : e[2] = k})
  <2>. DEFINE E == {e \in edges : e[2] = k}
              owner == [e \in E |-> e[1]]
              list == reverse[c][k]
  <2>1. IsFiniteSet(E) /\ owner \in [E -> Keys]
    BY <1>1, FS_Subset
  <2>2. ASSUME NEW a \in Keys PROVE list[a] = Cardinality({e \in E : owner[e] = a})
    <3>1. {e \in E : owner[e] = a} = {e \in edges : e = <<a, k>>}
      BY <1>1
    <3>2. list[a] = IF <<a, k>> \in edges THEN 1 ELSE 0
      BY <1>1
    <3>. HIDE DEF E, owner, list
    <3>. QED
      BY <1>2, <3>1, <3>2
  <2>. HIDE DEF E, owner, list
  <2>3. Weighs(E, owner, list)
    BY <2>1, <2>2 DEF Weighs
  <2>4. Length(list) = Cardinality(E)
    BY <2>3, LengthCounts
  <2>. QED
    BY <2>4 DEF OutDegree, E, list
<1>5. EdgeCount(c) = Cardinality(edges)
  <2>. DEFINE owner == [e \in edges |-> e[1]]
              weight == [k \in Keys |-> InDegree(k, c)]
  <2>1. owner \in [edges -> Keys]
    BY <1>1
  <2>2. ASSUME NEW k \in Keys PROVE weight[k] = Cardinality({e \in edges : owner[e] = k})
    <3>1. {e \in edges : owner[e] = k} = {e \in edges : e[1] = k}
      OBVIOUS
    <3>. QED
      BY <1>3, <3>1
  <2>3. \A k \in Keys : weight[k] = InDegree(k, c)
    OBVIOUS
  <2>. HIDE DEF owner, weight
  <2>4. Weighs(edges, owner, weight)
    BY <1>1, <2>1, <2>2 DEF Weighs
  <2>. QED
    BY <2>3, <2>4, EdgeCountCounts
<1>. QED
  BY <1>3, <1>4, <1>5 DEF edges

\* What a caller is told about a graph is one set of edges, counted, listed and
\* looked up in different ways (graph.rs, edges to keys).
THEOREM QueriesAreConsistent == Spec => []QueriesAgree
<1>1. ASSUME TablesConsistent PROVE QueriesAgree
  <2>. DEFINE edges == [c \in Channels |-> {e \in Keys \X Keys : e[2] \in Dependencies(c)[e[1]]}]
  <2>0. \A c \in Channels : edges[c] = EdgesIn(c)
    BY DEF EdgesIn
  <2>. HIDE DEF edges
  <2>1. ASSUME NEW c \in Channels
        PROVE  /\ edges[c] \in SUBSET (Keys \X Keys)
               /\ \A k \in Keys :
                    /\ Listed(forward[c][k]) = {b \in Keys : <<k, b>> \in edges[c]}
                    /\ Listed(reverse[c][k]) = {a \in Keys : <<a, k>> \in edges[c]}
                    /\ Dependencies(c)[k] = Listed(forward[c][k])
                    /\ Dependents(c)[k] = Listed(reverse[c][k])
    BY <1>1, <2>0, EdgesMeaning DEF Dependencies, Dependents
  <2>2. ASSUME NEW c \in Channels
        PROVE  /\ EdgeCount(c) = Cardinality(edges[c])
               /\ \A k \in Keys :
                    /\ InDegree(k, c) = Cardinality({e \in edges[c] : e[1] = k})
                    /\ OutDegree(k, c) = Cardinality({e \in edges[c] : e[2] = k})
    BY <1>1, <2>0, CountsMeaning
  <2>4. ASSUME NEW c \in Channels, NEW k \in Keys
        PROVE  /\ HasDependencies(k, c) <=> \E e \in edges[c] : e[1] = k
               /\ HasDependents(k, c) <=> \E e \in edges[c] : e[2] = k
    <3>1. \A e \in edges[c] : e[1] \in Keys /\ e[2] \in Keys /\ e = <<e[1], e[2]>>
      BY <2>1
    <3>2. Listed(forward[c][k]) # {} <=> \E b \in Keys : <<k, b>> \in edges[c]
      BY <2>1
    <3>3. Listed(reverse[c][k]) # {} <=> \E a \in Keys : <<a, k>> \in edges[c]
      BY <2>1
    <3>4. \A b \in Keys : <<k, b>>[1] = k /\ <<b, k>>[2] = k
      OBVIOUS
    <3>5. (\E b \in Keys : <<k, b>> \in edges[c]) <=> \E e \in edges[c] : e[1] = k
      BY <3>1, <3>4
    <3>6. (\E a \in Keys : <<a, k>> \in edges[c]) <=> \E e \in edges[c] : e[2] = k
      BY <3>1, <3>4
    <3>. QED
      BY <3>2, <3>3, <3>5, <3>6 DEF HasDependencies, HasDependents
  <2>5. ASSUME NEW c \in Channels, NEW a \in Keys, NEW first \in Dependencies(c)[a]
        PROVE  EdgesFrom(a, first, c) = {e \in edges[c] : e[1] = a}
    <3>1. first \in Keys /\ <<a, first>> \in edges[c]
      BY <2>1
    <3>2. a \in Listed(reverse[c][first])
      BY <2>1, <3>1
    <3>3. EdgesFrom(a, first, c) = {<<a, b>> : b \in Listed(forward[c][a])}
      BY <3>2 DEF EdgesFrom
    <3>. QED
      BY <2>1, <3>3
  <2>6. ASSUME NEW k \in Keys
        PROVE  /\ DependencyChannels(k) = {c \in Channels : \E e \in edges[c] : e[1] = k}
               /\ DependentChannels(k) = {c \in Channels : \E e \in edges[c] : e[2] = k}
    <3>1. /\ forwardChannels[k] = {c \in Channels : Dependencies(c)[k] # {}}
          /\ reverseChannels[k] = {c \in Channels : Dependents(c)[k] # {}}
      BY <1>1 DEF TablesConsistent, CachesExact
    <3>2. \A c \in Channels :
            /\ Dependencies(c)[k] # {} <=> \E e \in edges[c] : e[1] = k
            /\ Dependents(c)[k] # {} <=> \E e \in edges[c] : e[2] = k
      BY <2>1, <2>4 DEF HasDependencies, HasDependents
    <3>. QED
      BY <3>1, <3>2 DEF DependencyChannels, DependentChannels
  <2>7. /\ UsedChannels = {c \in Channels : edges[c] # {}}
        /\ IsEmpty <=> \A c \in Channels : edges[c] = {}
    <3>1. \A c \in Channels : \A e \in edges[c] : e[1] \in Keys
      BY <2>1
    <3>2. \A k \in Keys : DependencyChannels(k) = {c \in Channels : \E e \in edges[c] : e[1] = k}
      BY <2>6
    <3>. QED
      BY <3>1, <3>2 DEF UsedChannels, IsEmpty
  <2>8. StoredKeys = UNION {{e[1], e[2]} : e \in UNION {edges[c] : c \in Channels}}
    <3>1. ASSUME NEW k
          PROVE  k \in StoredKeys <=>
                   \E c \in Channels : \E e \in edges[c] : k = e[1] \/ k = e[2]
      <4>1. k \in StoredKeys <=>
              \E c \in Channels, j \in Keys :
                k \in Listed(forward[c][j]) \cup Listed(reverse[c][j])
        BY DEF StoredKeys
      <4>2. \A c \in Channels, j \in Keys :
              /\ k \in Listed(forward[c][j]) <=> k \in Keys /\ <<j, k>> \in edges[c]
              /\ k \in Listed(reverse[c][j]) <=> k \in Keys /\ <<k, j>> \in edges[c]
        BY <2>1
      <4>3. ASSUME NEW c \in Channels, NEW e \in edges[c], k = e[1] \/ k = e[2]
            PROVE  k \in Keys /\ \E j \in Keys : <<j, k>> \in edges[c] \/ <<k, j>> \in edges[c]
        <5>1. e[1] \in Keys /\ e[2] \in Keys /\ e = <<e[1], e[2]>>
          BY <2>1, <4>3
        <5>. QED
          BY <4>3, <5>1
      <4>. QED
        BY <4>1, <4>2, <4>3
    <3>. QED
      BY <3>1
  <2>9. \A c \in Channels :
          /\ \A a \in Keys : \A first \in Dependencies(c)[a] :
               EdgesFrom(a, first, c) = {e \in edges[c] : e[1] = a}
          /\ EdgeCount(c) = Cardinality(edges[c])
          /\ \A k \in Keys :
               /\ InDegree(k, c) = Cardinality({e \in edges[c] : e[1] = k})
               /\ OutDegree(k, c) = Cardinality({e \in edges[c] : e[2] = k})
               /\ HasDependencies(k, c) <=> \E e \in edges[c] : e[1] = k
               /\ HasDependents(k, c) <=> \E e \in edges[c] : e[2] = k
    BY <2>2, <2>4, <2>5, Zenon
  <2>10. \A k \in Keys :
           /\ DependencyChannels(k) = {c \in Channels : \E e \in edges[c] : e[1] = k}
           /\ DependentChannels(k) = {c \in Channels : \E e \in edges[c] : e[2] = k}
    BY <2>6, Zenon
  <2>. QED
    BY <2>7, <2>8, <2>9, <2>10, Zenon DEF QueriesAgree, edges
<1>. QED
  BY <1>1, TablesAgree, PTL

=============================================================================
