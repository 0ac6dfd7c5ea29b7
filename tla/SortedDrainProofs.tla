------------------------- MODULE SortedDrainProofs --------------------------
(***************************************************************************)
(* Proofs about SortedDrain, for every finite set of keys and every set of *)
(* modes, orders and retentions.                                           *)
(*                                                                         *)
(* The in-degrees are exact because the algorithm's decrements follow the  *)
(* cardinalities Kahn::new computed, so types and exactness are inductive  *)
(* only together.  The promises about order add where the keys come from   *)
(* (ScopeInv): an owned drain leaves no mark inside its scope, and the     *)
(* keys of an affected drain are closed under dependents in the scope.     *)
(***************************************************************************)
EXTENDS SortedDrain, ReachabilityTheorems, FiniteSetTheorems

(***************************************************************************)
(* In-degrees: Kahn::new counts them, yield_key decrements them.           *)
(***************************************************************************)
\* A degree is a number, and zero just when nothing the key depends on waits.
LEMMA DegreeZero ==
  ASSUME dependencies \in [Keys -> SUBSET Keys], NEW k \in Keys, NEW keys \in SUBSET Keys
  PROVE  /\ DegreeWithin(k, keys) \in Nat
         /\ DegreeWithin(k, keys) = 0 <=> dependencies[k] \cap keys = {}
<1>1. IsFiniteSet(dependencies[k] \cap keys)
  BY FS_Subset, DrainAssumption
<1>. QED
  BY <1>1, FS_CardinalityType, FS_EmptySet DEF DegreeWithin

\* Without d the degree of a key that depends on d is one less, and no other
\* degree changes.
LEMMA DegreeDrop ==
  ASSUME dependencies \in [Keys -> SUBSET Keys], NEW k \in Keys, NEW keys \in SUBSET Keys,
         NEW d \in keys
  PROVE  DegreeWithin(k, keys \ {d}) =
           IF d \in dependencies[k] THEN DegreeWithin(k, keys) - 1 ELSE DegreeWithin(k, keys)
<1>1. IsFiniteSet(dependencies[k] \cap keys)
  BY FS_Subset, DrainAssumption
<1>2. CASE d \in dependencies[k]
  <2>1. dependencies[k] \cap (keys \ {d}) = (dependencies[k] \cap keys) \ {d}
    OBVIOUS
  <2>2. Cardinality((dependencies[k] \cap keys) \ {d}) = Cardinality(dependencies[k] \cap keys) - 1
    BY <1>1, <1>2, FS_RemoveElement
  <2>. QED
    BY <1>2, <2>1, <2>2 DEF DegreeWithin
<1>3. CASE d \notin dependencies[k]
  <2>1. dependencies[k] \cap (keys \ {d}) = dependencies[k] \cap keys
    BY <1>3
  <2>. QED
    BY <1>3, <2>1 DEF DegreeWithin
<1>. QED
  BY <1>2, <1>3

-----------------------------------------------------------------------------
(***************************************************************************)
(* The inductive invariant.                                                *)
(***************************************************************************)
\* Where the keys of a drain come from.
ScopeInv ==
  drain.open =>
    /\ Pending \subseteq drain.scope
    /\ drain.owner => invalidated \cap drain.scope = {}
    /\ drain.mode = "Affected" =>
         /\ drain.owner
         /\ \A x \in Pending : Dependents[x] \cap drain.scope \subseteq Pending

DrainInv == TypeOK /\ DegreesExact /\ ScopeInv

\* A typed drain that is open holds keys.
LEMMA OpenDrainType ==
  ASSUME TypeOK, drain.open
  PROVE  /\ Pending \in SUBSET Keys
         /\ drain \in Drains(Pending)
<1>1. PICK keys \in SUBSET Keys : drain \in Drains(keys)
  BY DEF TypeOK, NoDrain
<1>2. Pending = keys
  BY <1>1 DEF Pending, Drains
<1>. QED
  BY <1>1, <1>2

\* Dependents are keys, and mirror the dependencies.
LEMMA DependentsType ==
  ASSUME dependencies \in [Keys -> SUBSET Keys]
  PROVE  /\ Dependents \in [Keys -> SUBSET Keys]
         /\ \A x, y \in Keys : y \in Dependents[x] <=> x \in dependencies[y]
  BY DEF Dependents, Transposed

\* A new drain is well-typed and its degrees are exact (Kahn::new).
LEMMA KahnStarts ==
  ASSUME dependencies' \in [Keys -> SUBSET Keys], dependencies' = dependencies,
         invalidated' \in SUBSET Keys,
         NEW keys \in SUBSET Keys, NEW scope \in SUBSET Keys,
         NEW mode \in Modes, NEW order \in Orders,
         NEW retain \in BOOLEAN, NEW owner \in BOOLEAN,
         drain' = Kahn(keys, mode, scope, order, retain, owner)
  PROVE  /\ TypeOK' /\ DegreesExact'
         /\ drain'.open /\ Pending' = keys
         /\ drain'.scope = scope /\ drain'.mode = mode /\ drain'.owner = owner
<1>1. \A k \in keys : DegreeWithin(k, keys) \in Nat
                      /\ (DegreeWithin(k, keys) = 0 <=> dependencies[k] \cap keys = {})
  BY DegreeZero
<1>2. drain' \in Drains(keys)
  BY <1>1 DEF Kahn, Drains
<1>3. Pending' = keys /\ drain'.open
  BY DEF Kahn, Pending
<1>4. TypeOK'
  BY <1>2 DEF TypeOK
<1>5. DegreesExact'
  BY <1>1, <1>3 DEF DegreesExact, Kahn, DegreeWithin
<1>. QED
  BY <1>3, <1>4, <1>5 DEF Kahn

\* What is expanded stays in the scope, contains the roots, and with each key
\* holds its dependents in the scope (collect_affected).
LEMMA CollectedClosed ==
  ASSUME dependencies \in [Keys -> SUBSET Keys], NEW scope \in SUBSET Keys,
         NEW roots \in SUBSET scope
  PROVE  LET keys == CollectAffected(roots, scope)
         IN  /\ keys \in SUBSET scope
             /\ roots \subseteq keys
             /\ \A x \in keys : Dependents[x] \cap scope \subseteq keys
<1>. DEFINE D == [k \in scope |-> Dependents[k] \cap scope]
<1>1. D \in [scope -> SUBSET scope]
  OBVIOUS
<1>2. /\ ReachableFrom(D, roots) \in SUBSET scope
      /\ roots \subseteq ReachableFrom(D, roots)
      /\ ClosedUnder(D, ReachableFrom(D, roots))
  BY <1>1, ReachableClosed
<1>. QED
  BY <1>2 DEF CollectAffected, ClosedUnder

\* Every scope a caller can ask for is a set of keys; the two of them that
\* the properties about order speak of contain the dependencies of their keys.
LEMMA ScopesType ==
  ASSUME dependencies \in [Keys -> SUBSET Keys]
  PROVE  /\ Scopes \in SUBSET (SUBSET Keys)
         /\ ClosedUnder(dependencies, Keys)
         /\ \A k \in Keys : ClosedUnder(dependencies, DependencyScope(k))
<1>1. ASSUME NEW k \in Keys
      PROVE  /\ DependencyScope(k) \in SUBSET Keys
             /\ ClosedUnder(dependencies, DependencyScope(k))
  BY ReachableClosed DEF DependencyScope
<1>2. ClosedUnder(dependencies, Keys)
  BY DEF ClosedUnder
<1>. QED
  BY <1>1, <1>2 DEF Scopes

(***************************************************************************)
(* The steps.                                                              *)
(***************************************************************************)
\* Edits happen between drains, where only the types are at stake.
LEMMA EditInv ==
  ASSUME DrainInv, Edit
  PROVE  DrainInv' /\ ~drain.open /\ ~drain'.open
<1>1. ~drain.open /\ UNCHANGED drain
  BY DEF Edit, AddDependency, RemoveDependency, RemoveKey, Mark, Clear
<1>2. dependencies' \in [Keys -> SUBSET Keys] /\ invalidated' \subseteq Keys
  <2>1. dependencies \in [Keys -> SUBSET Keys] /\ invalidated \subseteq Keys
    BY DEF DrainInv, TypeOK
  <2>. QED
    BY <2>1 DEF Edit, AddDependency, RemoveDependency, RemoveKey, Mark, Clear
<1>3. drain = NoDrain
  BY <1>1 DEF DrainInv, TypeOK, Drains
<1>. QED
  BY <1>1, <1>2, <1>3 DEF DrainInv, TypeOK, DegreesExact, ScopeInv, NoDrain

\* Every way of opening a drain is DrainBuilder::run, or a peek.
LEMMA OpenCases ==
  ASSUME Open
  PROVE  \/ \E mode \in Modes, scope \in Scopes, order \in Orders, retain \in BOOLEAN :
              OpenDrain(mode, scope, order, retain)
         \/ \E order \in Orders : OpenPeek(order)
<1>1. /\ Keys \in Scopes /\ FALSE \in BOOLEAN
      /\ "InvalidatedOnly" \in Modes /\ "Affected" \in Modes
      /\ "AnyOrder" \in Orders /\ "Deterministic" \in Orders
  BY DEF Scopes, Modes, Orders
<1>2. CASE DrainSorted \/ DrainSortedDeterministic
  BY <1>1, <1>2, Zenon DEF DrainSorted, DrainSortedDeterministic
<1>3. CASE DrainAffectedSorted \/ DrainAffectedSortedDeterministic
  BY <1>1, <1>3, Zenon DEF DrainAffectedSorted, DrainAffectedSortedDeterministic
<1>. QED
  BY <1>2, <1>3, Zenon DEF Open

\* Opening a drain: what it takes it no longer leaves marked, and what it
\* retains lies outside its scope.
LEMMA OpenDrainInv ==
  ASSUME DrainInv, NEW mode \in Modes, NEW scope \in Scopes, NEW order \in Orders,
         NEW retain \in BOOLEAN, OpenDrain(mode, scope, order, retain)
  PROVE  DrainInv'
<1>. DEFINE roots == invalidated \cap scope
            keys == IF mode = "Affected" THEN CollectAffected(roots, scope) ELSE roots
            retained == IF mode = "Affected" /\ retain
                        THEN OutOfScopeDependents(keys, scope)
                        ELSE {}
<1>1. /\ dependencies \in [Keys -> SUBSET Keys] /\ invalidated \in SUBSET Keys
      /\ scope \in SUBSET Keys
  BY ScopesType DEF DrainInv, TypeOK
<1>2. /\ keys \in SUBSET scope /\ roots \subseteq keys
      /\ mode = "Affected" => \A x \in keys : Dependents[x] \cap scope \subseteq keys
  <2>1. roots \in SUBSET scope
    OBVIOUS
  <2>. QED
    BY <1>1, <2>1, CollectedClosed
<1>3. retained \in SUBSET (Keys \ scope)
  <2>. HIDE DEF keys
  <2>1. \A x \in keys : Dependents[x] \in SUBSET Keys
    BY <1>1, <1>2, DependentsType
  <2>2. OutOfScopeDependents(keys, scope) \in SUBSET (Keys \ scope)
    BY <2>1 DEF OutOfScopeDependents
  <2>. QED
    BY <2>2
<1>4. /\ invalidated' = (invalidated \ roots) \cup retained
      /\ drain' = Kahn(keys, mode, scope, order, retain, TRUE)
      /\ dependencies' = dependencies
  BY DEF OpenDrain, TakenRoots
<1>. HIDE DEF keys, retained
<1>5. invalidated' \in SUBSET Keys /\ invalidated' \cap scope = {}
  BY <1>1, <1>3, <1>4
<1>7. /\ TypeOK' /\ DegreesExact'
      /\ drain'.open /\ Pending' = keys
      /\ drain'.scope = scope /\ drain'.mode = mode /\ drain'.owner = TRUE
  BY <1>1, <1>2, <1>4, <1>5, KahnStarts
<1>8. ScopeInv'
  BY <1>2, <1>4, <1>5, <1>7 DEF ScopeInv, Dependents
<1>. QED
  BY <1>7, <1>8 DEF DrainInv

\* Opening a peek (peek_sorted).
LEMMA OpenPeekInv ==
  ASSUME DrainInv, NEW order \in Orders, OpenPeek(order)
  PROVE  DrainInv'
<1>1. dependencies \in [Keys -> SUBSET Keys] /\ invalidated \in SUBSET Keys
  BY DEF DrainInv, TypeOK
<1>2. /\ TypeOK' /\ DegreesExact'
      /\ drain'.open /\ Pending' = invalidated
      /\ drain'.scope = Keys /\ drain'.mode = "InvalidatedOnly" /\ drain'.owner = FALSE
  <2>1. "InvalidatedOnly" \in Modes
    BY DEF Modes
  <2>2. /\ drain' = Kahn(invalidated, "InvalidatedOnly", Keys, order, FALSE, FALSE)
        /\ dependencies' = dependencies /\ invalidated' = invalidated
    BY DEF OpenPeek
  <2>. QED
    BY <1>1, <2>1, <2>2, KahnStarts
<1>. QED
  BY <1>1, <1>2 DEF DrainInv, ScopeInv

\* What a yield does, in terms of the keys that still wait (yield_key).
LEMMA YieldEffect ==
  ASSUME DrainInv, NEW k \in Keys, Yield(k)
  PROVE  /\ drain.open /\ k \in Pending /\ dependencies[k] \cap Pending = {}
         /\ drain'.open /\ Pending' = Pending \ {k}
         /\ UNCHANGED <<dependencies, invalidated>>
         /\ drain'.scope = drain.scope /\ drain'.mode = drain.mode
         /\ drain'.owner = drain.owner /\ drain'.order = drain.order
         /\ drain'.retain = drain.retain
<1>1. drain.open /\ drain \in Drains(Pending)
  BY OpenDrainType DEF Yield, DrainInv
<1>2. k \in Pending /\ dependencies[k] \cap Pending = {}
  BY <1>1 DEF Yield, Eligible, DrainInv, DegreesExact
<1>3. drain' = [drain EXCEPT !.inDegree = DegreesWithout(k),
                             !.ready = (@ \ {k}) \cup
                               {d \in Dependents[k] \cap (Pending \ {k}) : DegreesWithout(k)[d] = 0}]
  BY DEF Yield
<1>4. drain'.open /\ drain'.inDegree = DegreesWithout(k)
  BY <1>1, <1>3 DEF Drains
<1>5. Pending' = Pending \ {k}
  BY <1>4 DEF Pending, DegreesWithout
<1>. QED
  BY <1>1, <1>2, <1>3, <1>4, <1>5 DEF Yield, Drains

\* A yield keeps the degrees exact: one less for exactly the dependents of the
\* key, so none drops below zero and the keys freed are the ones queued.
LEMMA YieldInv ==
  ASSUME DrainInv, NEW k \in Keys, Yield(k)
  PROVE  DrainInv'
<1>1. drain.open /\ drain \in Drains(Pending) /\ Pending \in SUBSET Keys
  BY OpenDrainType DEF Yield, DrainInv
<1>2. dependencies \in [Keys -> SUBSET Keys] /\ invalidated \subseteq Keys
  BY DEF DrainInv, TypeOK
<1>3. /\ k \in Pending /\ dependencies[k] \cap Pending = {}
      /\ Pending' = Pending \ {k} /\ UNCHANGED <<dependencies, invalidated>>
      /\ drain'.open /\ drain'.scope = drain.scope /\ drain'.mode = drain.mode
      /\ drain'.owner = drain.owner
  BY YieldEffect
<1>. DEFINE rest == Pending \ {k}
            degrees == DegreesWithout(k)
            freed == {d \in Dependents[k] \cap rest : degrees[d] = 0}
<1>4. drain' = [drain EXCEPT !.inDegree = degrees, !.ready = (@ \ {k}) \cup freed]
  BY DEF Yield
<1>5. \A d \in rest : degrees[d] = DegreeWithin(d, rest)
  <2>. SUFFICES ASSUME NEW d \in rest PROVE degrees[d] = DegreeWithin(d, rest)
    OBVIOUS
  <2>1. d \in Keys /\ d \in Pending
    BY <1>1
  <2>2. degrees[d] = IF d \in Dependents[k] THEN drain.inDegree[d] - 1 ELSE drain.inDegree[d]
    BY DEF DegreesWithout
  <2>3. drain.inDegree[d] = DegreeWithin(d, Pending)
    BY <1>1, <2>1 DEF DrainInv, DegreesExact
  <2>4. d \in Dependents[k] <=> k \in dependencies[d]
    BY <1>2, <2>1, DependentsType
  <2>5. DegreeWithin(d, rest) = IF k \in dependencies[d] THEN DegreeWithin(d, Pending) - 1
                                                         ELSE DegreeWithin(d, Pending)
    BY <1>1, <1>2, <1>3, <2>1, DegreeDrop
  <2>. QED
    BY <2>2, <2>3, <2>4, <2>5
<1>6. \A d \in rest : /\ degrees[d] \in Nat
                      /\ degrees[d] = 0 <=> dependencies[d] \cap rest = {}
  BY <1>1, <1>2, <1>5, DegreeZero
<1>7. degrees \in [rest -> Nat]
  BY <1>6 DEF DegreesWithout
<1>8. (drain.ready \ {k}) \cup freed = {d \in rest : dependencies[d] \cap rest = {}}
  <2>1. drain.ready = {d \in Pending : dependencies[d] \cap Pending = {}}
    BY <1>1 DEF DrainInv, DegreesExact
  <2>2. freed = {d \in rest : k \in dependencies[d] /\ dependencies[d] \cap rest = {}}
    BY <1>1, <1>2, <1>3, <1>6, DependentsType
  <2>. HIDE DEF freed
  <2>. QED
    BY <2>1, <2>2
<1>. HIDE DEF degrees, freed
<1>9. drain' \in Drains(rest)
  BY <1>1, <1>4, <1>7, <1>8 DEF Drains
<1>10. TypeOK'
  BY <1>1, <1>2, <1>3, <1>9 DEF TypeOK
<1>11. DegreesExact'
  <2>1. drain'.inDegree = degrees /\ drain'.ready = (drain.ready \ {k}) \cup freed
    BY <1>1, <1>4 DEF Drains
  <2>2. \A d \in rest : DegreeWithin(d, rest)' = DegreeWithin(d, rest)
    BY <1>3 DEF DegreeWithin
  <2>. QED
    BY <1>3, <1>5, <1>8, <2>1, <2>2 DEF DegreesExact, DegreeWithin
<1>12. ScopeInv'
  <2>1. ScopeInv
    BY DEF DrainInv
  <2>2. Dependents' = Dependents
    BY <1>3 DEF Dependents
  <2>3. ASSUME NEW x \in Pending PROVE k \notin Dependents[x]
    BY <1>1, <1>2, <1>3, <2>3, DependentsType
  <2>. QED
    BY <1>1, <1>3, <2>1, <2>2, <2>3 DEF ScopeInv
<1>. QED
  BY <1>10, <1>11, <1>12 DEF DrainInv

\* An exhausted drain keeps its keys, and a dropped one is gone.
LEMMA EndInv ==
  ASSUME DrainInv, Exhausted \/ Drop
  PROVE  DrainInv' /\ (drain'.open => Pending' = Pending)
<1>1. drain.open /\ drain \in Drains(Pending) /\ Pending \in SUBSET Keys
  BY OpenDrainType DEF Exhausted, Drop, DrainInv
<1>2. dependencies \in [Keys -> SUBSET Keys] /\ invalidated \subseteq Keys
  BY DEF DrainInv, TypeOK
<1>3. CASE Exhausted
  <2>1. /\ drain'.open /\ drain'.scope = drain.scope /\ drain'.mode = drain.mode
        /\ drain'.owner = drain.owner /\ drain'.inDegree = drain.inDegree
        /\ drain'.ready = drain.ready
        /\ drain' \in Drains(Pending)
        /\ UNCHANGED <<dependencies, invalidated>>
    BY <1>1, <1>3 DEF Exhausted, Drains
  <2>2. Pending' = Pending
    BY <1>1, <2>1 DEF Pending
  <2>3. TypeOK'
    BY <1>1, <1>2, <2>1 DEF TypeOK
  <2>4. DegreesExact'
    BY <1>1, <2>1, <2>2 DEF DrainInv, DegreesExact, DegreeWithin
  <2>5. ScopeInv'
    BY <1>1, <2>1, <2>2 DEF DrainInv, ScopeInv, Dependents
  <2>. QED
    BY <2>2, <2>3, <2>4, <2>5 DEF DrainInv
<1>4. CASE Drop
  BY <1>1, <1>2, <1>4 DEF Drop, DrainInv, TypeOK, DegreesExact, ScopeInv, NoDrain
<1>. QED
  BY <1>3, <1>4

(***************************************************************************)
(* The theorems.                                                           *)
(***************************************************************************)
\* Types, exact degrees and the provenance of a drain's keys, together.
THEOREM DrainInvariant == Spec => []DrainInv
<1>1. Init => DrainInv
  BY DEF Init, DrainInv, TypeOK, DegreesExact, ScopeInv, NoDrain
<1>2. DrainInv /\ [Next]_vars => DrainInv'
  <2>. SUFFICES ASSUME DrainInv, [Next]_vars PROVE DrainInv'
    OBVIOUS
  <2>1. CASE Edit
    BY <2>1, EditInv
  <2>2. CASE Open
    BY <2>2, OpenCases, OpenDrainInv, OpenPeekInv
  <2>3. ASSUME NEW k \in Keys, Yield(k) PROVE DrainInv'
    BY <2>3, YieldInv
  <2>4. CASE Exhausted \/ Drop
    BY <2>4, EndInv
  <2>5. CASE UNCHANGED vars
    BY <2>5 DEF vars, DrainInv, TypeOK, DegreesExact, ScopeInv, Pending, DegreeWithin, Dependents
  <2>. QED
    BY <2>1, <2>2, <2>3, <2>4, <2>5 DEF Next
<1>. QED
  BY <1>1, <1>2, PTL DEF Spec

\* No in-degree is ever decremented below zero (Kahn::yield_key).
THEOREM TypeCorrect == Spec => []TypeOK
<1>1. DrainInv => TypeOK
  BY DEF DrainInv
<1>. QED
  BY <1>1, DrainInvariant, PTL

\* However many keys were yielded, the in-degrees count the dependencies that
\* still wait, and exactly the keys without any are queued (Kahn).
THEOREM DegreesAreExact == Spec => []DegreesExact
<1>1. DrainInv => DegreesExact
  BY DEF DrainInv
<1>. QED
  BY <1>1, DrainInvariant, PTL

\* Both at once: the counters of a drain are well typed because they are exact
\* (Kahn::new, Kahn::yield_key).
THEOREM CountsAreExact == Spec => []CountsExact
<1>1. TypeOK /\ DegreesExact => CountsExact
  BY DEF CountsExact
<1>. QED
  BY <1>1, TypeCorrect, DegreesAreExact, PTL

\* Only a yield hands a key out.
LEMMA HandsOutYields ==
  ASSUME DrainInv, [Next]_vars, NEW k \in Keys, HandsOut(k)
  PROVE  Yield(k)
<1>1. drain.open
  BY DEF HandsOut, Pending
<1>2. k \in Pending /\ drain'.open /\ k \notin Pending'
  BY DEF HandsOut
<1>3. ~Edit
  BY <1>1 DEF Edit, AddDependency, RemoveDependency, RemoveKey, Mark, Clear
<1>4. ~Open
  BY <1>1, OpenCases DEF OpenDrain, TakenRoots, OpenPeek
<1>5. ~(Exhausted \/ Drop)
  BY <1>2, EndInv
<1>6. ~UNCHANGED vars
  BY <1>2 DEF vars, Pending
<1>7. PICK j \in Keys : Yield(j)
  BY <1>3, <1>4, <1>5, <1>6 DEF Next
<1>8. j = k
  BY <1>2, <1>7, YieldEffect
<1>. QED
  BY <1>7, <1>8

\* Where a drain's scope holds the dependencies of its keys, those it hands
\* out have none that is still invalidated (drain_sorted and
\* within_dependencies_of).
THEOREM DependenciesComeFirst == Spec => DependenciesFirst
<1>1. ASSUME DrainInv, [Next]_vars, NEW k \in Keys, HandsOut(k), ClosedScope
      PROVE  dependencies[k] \cap (IF drain.owner THEN Awaiting ELSE Pending) = {}
  <2>1. drain.open /\ k \in Pending /\ dependencies[k] \cap Pending = {}
    BY <1>1, HandsOutYields, YieldEffect
  <2>2. k \in drain.scope /\ (drain.owner => invalidated \cap drain.scope = {})
    BY <1>1, <2>1 DEF DrainInv, ScopeInv
  <2>3. dependencies[k] \subseteq drain.scope
    BY <1>1, <2>2 DEF ClosedScope, ClosedUnder
  <2>. QED
    BY <2>1, <2>2, <2>3 DEF Awaiting
<1>2. DrainInv /\ [Next]_vars =>
        [\A k \in Keys : HandsOut(k) /\ ClosedScope =>
           dependencies[k] \cap (IF drain.owner THEN Awaiting ELSE Pending) = {}]_vars
  BY <1>1
<1>. QED
  BY <1>2, DrainInvariant, PTL DEF Spec, DependenciesFirst

\* An affected drain of such a scope hands a key out only when nothing the key
\* depends on, through marked keys or not, is still invalidated: the keys of
\* its scope that no longer wait are closed under dependencies.
THEOREM AffectedInOrder == Spec => AffectedOrder
<1>1. ASSUME DrainInv, [Next]_vars, NEW k \in Keys, HandsOut(k), ClosedScope,
             drain.mode = "Affected"
      PROVE  ReachableFrom(dependencies, dependencies[k]) \cap Awaiting = {}
  <2>. DEFINE done == drain.scope \ Pending
  <2>1. drain.open /\ k \in Pending /\ dependencies[k] \cap Pending = {}
    BY <1>1, HandsOutYields, YieldEffect
  <2>2. /\ dependencies \in [Keys -> SUBSET Keys]
        /\ drain.scope \in SUBSET Keys /\ Pending \in SUBSET Keys
    BY <1>1, <2>1, OpenDrainType DEF DrainInv, TypeOK, Drains
  <2>3. /\ k \in drain.scope /\ invalidated \cap drain.scope = {}
        /\ \A x \in Pending : Dependents[x] \cap drain.scope \subseteq Pending
    BY <1>1, <2>1 DEF DrainInv, ScopeInv
  <2>4. \A x \in drain.scope : dependencies[x] \subseteq drain.scope
    BY <1>1 DEF ClosedScope, ClosedUnder
  <2>5. ClosedUnder(dependencies, done)
    <3>. SUFFICES ASSUME NEW x \in done, NEW y \in dependencies[x], y \in Pending PROVE FALSE
      BY <2>4 DEF ClosedUnder
    <3>1. x \in Dependents[y]
      BY <2>2, DependentsType
    <3>. QED
      BY <2>3, <3>1
  <2>6. dependencies[k] \subseteq done
    BY <2>1, <2>3, <2>4
  <2>7. ReachableFrom(dependencies, dependencies[k]) \subseteq done
    <3>1. done \in SUBSET Keys
      BY <2>2
    <3>. HIDE DEF done
    <3>. QED
      BY <2>2, <2>5, <2>6, <3>1, ReachableLeast
  <2>. QED
    BY <2>3, <2>7 DEF Awaiting
<1>2. DrainInv /\ [Next]_vars =>
        [\A k \in Keys : HandsOut(k) /\ ClosedScope /\ drain.mode = "Affected" =>
           ReachableFrom(dependencies, dependencies[k]) \cap Awaiting = {}]_vars
  BY <1>1
<1>. QED
  BY <1>2, DrainInvariant, PTL DEF Spec, AffectedOrder

\* A deterministic drain hands out the smallest key that waits for nothing
\* (DrainSortedDeterministic, a heap of ready keys).
THEOREM SmallestComesFirst == Spec => SmallestFirst
<1>1. ASSUME DrainInv, [Next]_vars, NEW k \in Keys, HandsOut(k), drain.order = "Deterministic",
             NEW other \in Pending, dependencies[other] \cap Pending = {}
      PROVE  k <= other
  <2>1. Yield(k)
    BY <1>1, HandsOutYields
  <2>2. drain.open /\ other \in drain.ready
    BY <1>1, <2>1 DEF Yield, DrainInv, DegreesExact
  <2>. QED
    BY <1>1, <2>1, <2>2 DEF Yield, Eligible
<1>2. DrainInv /\ [Next]_vars =>
        [\A k \in Keys : HandsOut(k) /\ drain.order = "Deterministic" =>
           \A other \in Pending : dependencies[other] \cap Pending = {} => k <= other]_vars
  BY <1>1
<1>. QED
  BY <1>2, DrainInvariant, PTL DEF Spec, SmallestFirst

\* The promises of order together: of one edge, of whole paths, and of size
\* among the keys that are ready (Kahn::yield_key, collect_affected).
THEOREM OrderIsKept == Spec => KeepsOrder
  BY DependenciesComeFirst, AffectedInOrder, SmallestComesFirst DEF KeepsOrder

-----------------------------------------------------------------------------
(***************************************************************************)
(* A careful drain loses no work: all dependents of a key that waits are   *)
(* marked or wait themselves, so the key can be handed out without taking  *)
(* anything else along.                                                    *)
(***************************************************************************)
RetainInv ==
  drain.open /\ drain.owner /\ drain.mode = "Affected" /\ drain.retain =>
    \A x \in Pending : Dependents[x] \ drain.scope \subseteq invalidated

\* The keys to recompute, unfolded.
LEMMA OwedMeaning ==
  /\ Work!Owed = ReachableFrom(Dependents, Marked)
  /\ Work!Owed' = ReachableFrom(Dependents', Marked')
  BY Zenon DEF Work!Owed, Dependents, Work!ReachableFrom, ReachableFrom, Work!Reaches, Reaches,
               Work!ClosedUnder, ClosedUnder, Work!Transposed, Transposed

\* Opening a drain marks nothing that was not owed, and forgets nothing: what
\* it expands and what it retains can be reached from what it took.
LEMMA OpenDrainRestates ==
  ASSUME DrainInv, NEW mode \in Modes, NEW scope \in Scopes,
         NEW order \in Orders, NEW retain \in BOOLEAN,
         OpenDrain(mode, scope, order, retain), mode = "Affected", retain
  PROVE  Work!Restate /\ RetainInv'
<1>. DEFINE roots == invalidated \cap scope
            keys == CollectAffected(roots, scope)
            retained == OutOfScopeDependents(keys, scope)
            owed == ReachableFrom(Dependents, invalidated)
<1>1. /\ dependencies \in [Keys -> SUBSET Keys] /\ invalidated \in SUBSET Keys
      /\ scope \in SUBSET Keys /\ Dependents \in [Keys -> SUBSET Keys]
  BY ScopesType, DependentsType DEF DrainInv, TypeOK
<1>2. mode = "Affected" /\ retain = TRUE
  OBVIOUS
<1>3. /\ invalidated' = (invalidated \ roots) \cup retained
      /\ drain' = Kahn(keys, "Affected", scope, order, TRUE, TRUE)
      /\ dependencies' = dependencies /\ ~drain.open
  BY <1>2 DEF OpenDrain, TakenRoots
<1>4. owed \in SUBSET Keys /\ invalidated \subseteq owed /\ ClosedUnder(Dependents, owed)
  BY <1>1, ReachableClosed
<1>5. keys \in SUBSET scope /\ roots \subseteq keys
  <2>1. roots \in SUBSET scope
    OBVIOUS
  <2>. QED
    BY <1>1, <2>1, CollectedClosed
<1>6. keys \subseteq owed
  <2>. DEFINE D == [k \in scope |-> Dependents[k] \cap scope]
              within == owed \cap scope
  <2>1. D \in [scope -> SUBSET scope] /\ within \in SUBSET scope
    OBVIOUS
  <2>2. ClosedUnder(D, within) /\ roots \subseteq within
    BY <1>4 DEF ClosedUnder
  <2>. HIDE DEF within
  <2>3. ReachableFrom(D, roots) \subseteq within
    BY <2>1, <2>2, ReachableLeast
  <2>. QED
    BY <2>3 DEF CollectAffected, within
<1>. HIDE DEF keys, owed
<1>7. retained \subseteq owed /\ \A x \in keys : Dependents[x] \ scope \subseteq retained
  BY <1>4, <1>6 DEF OutOfScopeDependents, ClosedUnder
<1>. HIDE DEF retained
<1>8. /\ drain'.open /\ drain'.owner = TRUE /\ drain'.mode = "Affected"
      /\ drain'.scope = scope /\ Pending' = keys
  BY <1>3 DEF Kahn, Pending
<1>9. Marked = invalidated /\ Marked' = keys \cup invalidated'
  BY <1>3, <1>8 DEF Marked, Awaiting
<1>10. Dependents' = Dependents
  BY <1>3 DEF Dependents
<1>11. /\ invalidated \subseteq Marked' /\ Marked' \subseteq owed
       /\ Marked' \in SUBSET Keys
  BY <1>3, <1>4, <1>5, <1>6, <1>7, <1>9
<1>12. ReachableFrom(Dependents, Marked') = owed
  BY <1>1, <1>11, ReachableMonotone DEF owed
<1>13. Work!Restate
  BY <1>3, <1>9, <1>10, <1>12, OwedMeaning DEF Work!Restate, owed
<1>14. RetainInv'
  BY <1>3, <1>7, <1>8, <1>10 DEF RetainInv
<1>. QED
  BY <1>13, <1>14

\* An owned key is handed out without anything else being lost: its dependents
\* wait behind it or, outside the scope, were retained.
LEMMA YieldHandsOut ==
  ASSUME DrainInv, RetainInv, NEW k \in Keys, Yield(k), drain.owner, Careful
  PROVE  Work!HandOut(k)
<1>1. /\ drain.open /\ k \in Pending /\ dependencies[k] \cap Pending = {}
      /\ drain'.open /\ Pending' = Pending \ {k}
      /\ UNCHANGED <<dependencies, invalidated>> /\ drain'.owner = drain.owner
  BY YieldEffect
<1>2. /\ dependencies \in [Keys -> SUBSET Keys] /\ invalidated \in SUBSET Keys
      /\ Pending \in SUBSET Keys /\ Dependents \in [Keys -> SUBSET Keys]
  BY <1>1, OpenDrainType, DependentsType DEF DrainInv, TypeOK
<1>3. /\ Pending \subseteq drain.scope /\ invalidated \cap drain.scope = {}
      /\ Dependents[k] \cap drain.scope \subseteq Pending
      /\ Dependents[k] \ drain.scope \subseteq invalidated
  BY <1>1 DEF DrainInv, ScopeInv, RetainInv, Careful
<1>. DEFINE before == Pending \cup invalidated
            after == before \ {k}
            left == ReachableFrom(Dependents, after)
<1>4. Marked = before /\ Marked' = after
  BY <1>1, <1>3 DEF Marked, Awaiting
<1>5. left \in SUBSET Keys /\ after \subseteq left /\ ClosedUnder(Dependents, left)
  <2>1. after \in SUBSET Keys
    BY <1>2
  <2>. HIDE DEF after
  <2>. QED
    BY <1>2, <2>1, ReachableClosed
<1>6. Dependents[k] \subseteq after
  <2>1. k \notin Dependents[k]
    BY <1>1, <1>2, DependentsType
  <2>. QED
    BY <1>2, <1>3, <2>1
<1>7. ReachableFrom(Dependents, before) \subseteq left \cup {k}
  <2>1. ClosedUnder(Dependents, left \cup {k})
    BY <1>5, <1>6 DEF ClosedUnder
  <2>2. before \subseteq left \cup {k}
    BY <1>5
  <2>3. left \cup {k} \in SUBSET Keys
    BY <1>5
  <2>. HIDE DEF left, before
  <2>. QED
    BY <1>2, <2>1, <2>2, <2>3, ReachableLeast
<1>8. left \subseteq ReachableFrom(Dependents, before)
  <2>1. after \in SUBSET Keys /\ before \in SUBSET Keys /\ after \subseteq before
    BY <1>2
  <2>. HIDE DEF after, before
  <2>. QED
    BY <1>2, <2>1, ReachableMonotone DEF left
<1>9. Dependents' = Dependents
  BY <1>1 DEF Dependents
<1>10. Work!Owed = ReachableFrom(Dependents, before) /\ Work!Owed' = left
  BY <1>4, <1>9, OwedMeaning
<1>. QED
  BY <1>1, <1>4, <1>7, <1>8, <1>10 DEF Work!HandOut

\* What a drain retains stays marked while it is open, and every step between
\* careful states is a step of PendingWork, or none.
LEMMA StepKeepsWork ==
  ASSUME DrainInv, RetainInv, [Next]_vars
  PROVE  /\ RetainInv'
         /\ Careful /\ Careful' => Work!Next \/ UNCHANGED Work!workVars
<1>1. ASSUME Edit PROVE Work!Next /\ RetainInv'
  <2>1. ~drain.open /\ ~drain'.open
    BY <1>1, EditInv
  <2>2. Marked = invalidated /\ Marked' = invalidated' /\ RetainInv'
    BY <2>1 DEF Marked, RetainInv
  <2>3. ASSUME NEW from \in Keys, NEW to \in Keys, AddDependency(from, to)
        PROVE  Work!AddDependency(from, to)
    BY <2>2, <2>3 DEF AddDependency, Work!AddDependency
  <2>4. ASSUME NEW from \in Keys, NEW to \in Keys, RemoveDependency(from, to)
        PROVE  Work!RemoveDependency(from, to)
    BY <2>2, <2>4 DEF RemoveDependency, Work!RemoveDependency
  <2>5. ASSUME NEW k \in Keys, RemoveKey(k) PROVE Work!RemoveKey(k)
    BY <2>2, <2>5 DEF RemoveKey, Work!RemoveKey
  <2>6. ASSUME NEW k \in Keys, Mark(k) PROVE Work!Mark(k)
    BY <2>2, <2>6 DEF Mark, Work!Mark
  <2>7. ASSUME Clear PROVE Work!Clear
    BY <2>2, <2>7 DEF Clear, Work!Clear
  <2>. QED
    BY <1>1, <2>2, <2>3, <2>4, <2>5, <2>6, <2>7 DEF Edit, Work!Next
<1>2. ASSUME NEW mode \in Modes, NEW scope \in Scopes, NEW order \in Orders,
             NEW retain \in BOOLEAN, OpenDrain(mode, scope, order, retain)
      PROVE  /\ RetainInv'
             /\ Careful' => Work!Next
  <2>1. drain'.open /\ drain'.owner = TRUE /\ drain'.mode = mode /\ drain'.retain = retain
    BY <1>2 DEF OpenDrain, Kahn
  <2>2. CASE mode = "Affected" /\ retain
    BY <1>2, <2>2, OpenDrainRestates DEF Work!Next
  <2>3. CASE ~(mode = "Affected" /\ retain)
    BY <2>1, <2>3 DEF RetainInv, Careful
  <2>. QED
    BY <2>2, <2>3
<1>3. ASSUME NEW order \in Orders, OpenPeek(order)
      PROVE  UNCHANGED Work!workVars /\ RetainInv'
  BY <1>3 DEF OpenPeek, Kahn, Marked, RetainInv, Work!workVars
<1>4. ASSUME NEW k \in Keys, Yield(k)
      PROVE  /\ RetainInv'
             /\ Careful => Work!Next \/ UNCHANGED Work!workVars
  <2>1. /\ drain.open /\ drain'.open /\ Pending' = Pending \ {k}
        /\ UNCHANGED <<dependencies, invalidated>>
        /\ drain'.scope = drain.scope /\ drain'.mode = drain.mode
        /\ drain'.owner = drain.owner /\ drain'.retain = drain.retain
    BY <1>4, YieldEffect
  <2>2. RetainInv'
    BY <2>1 DEF RetainInv, Dependents
  <2>3. CASE drain.owner
    BY <1>4, <2>2, <2>3, YieldHandsOut DEF Work!Next
  <2>4. CASE ~drain.owner
    BY <2>1, <2>2, <2>4 DEF Marked, Work!workVars
  <2>. QED
    BY <2>3, <2>4
<1>5. ASSUME Exhausted PROVE UNCHANGED Work!workVars /\ RetainInv'
  <2>1. drain.open /\ drain \in Drains(Pending)
    BY <1>5, OpenDrainType DEF Exhausted, DrainInv
  <2>2. /\ drain'.open /\ drain'.owner = drain.owner /\ drain'.mode = drain.mode
        /\ drain'.scope = drain.scope /\ drain'.inDegree = drain.inDegree
        /\ drain'.retain = drain.retain
        /\ UNCHANGED <<dependencies, invalidated>>
    BY <1>5, <2>1 DEF Exhausted, Drains
  <2>3. Pending' = Pending
    BY <2>1, <2>2 DEF Pending
  <2>. QED
    BY <2>1, <2>2, <2>3 DEF Marked, Awaiting, RetainInv, Dependents, Work!workVars
<1>6. ASSUME Drop PROVE UNCHANGED Work!workVars /\ RetainInv'
  BY <1>6 DEF Drop, NoDrain, Marked, Awaiting, RetainInv, Work!workVars
<1>7. ASSUME UNCHANGED vars PROVE UNCHANGED Work!workVars /\ RetainInv'
  BY <1>7 DEF vars, Marked, Awaiting, Pending, RetainInv, Dependents, Work!workVars
<1>. QED
  BY <1>1, <1>2, <1>3, <1>4, <1>5, <1>6, <1>7, OpenCases DEF Next

\* Whatever is owed stays owed until it is handed out or withdrawn, as long as
\* a careful drain is open: it may be scoped, stopped early, stalled or
\* dropped (DrainBuilder::run, Drop for Kahn).
THEOREM NoWorkIsLost == Spec => LosesNoWork
<1>1. Init => RetainInv
  BY DEF Init, NoDrain, RetainInv
<1>2. DrainInv /\ RetainInv /\ [Next]_vars => RetainInv'
  BY StepKeepsWork
<1>3. DrainInv /\ RetainInv /\ [Next]_vars =>
        [Careful /\ Careful' => Work!Next \/ UNCHANGED Work!workVars]_vars
  BY StepKeepsWork
<1>. QED
  BY <1>1, <1>2, <1>3, DrainInvariant, PTL DEF Spec, LosesNoWork

(***************************************************************************)
(* What a caller hears of cycles.                                          *)
(***************************************************************************)
\* In a finite relation in which every point has a successor, every point is
\* on a cycle or behind one: of the points it reaches, one that reaches the
\* fewest is reached by its own successors (drain.rs, remaining_keys).
LEMMA NoEndWithoutCycle ==
  ASSUME NEW P, IsFiniteSet(P), NEW w \in [P -> SUBSET P],
         \A x \in P : w[x] # {},
         NEW k \in P
  PROVE  \E j \in P : Reaches(w, k, j) /\ \E i \in w[j] : Reaches(w, i, j)
<1>. DEFINE Beyond(x) == {y \in P : Reaches(w, x, y)}
            smaller == StrictSubsetOrdering(P)
            tails == {Beyond(x) : x \in Beyond(k)}
<1>1. \A x \in P : x \in Beyond(x)
  BY ReachesSelf
<1>2. \A x, y, z \in P : y \in Beyond(x) /\ z \in Beyond(y) => z \in Beyond(x)
  BY ReachesTransitive
<1>3. \A x \in P : w[x] \subseteq Beyond(x)
  BY <1>1, ReachesFirst
<1>4. IsWellFoundedOn(smaller, SUBSET P)
  <2>1. FiniteSubsetsOf(P) = SUBSET P
    BY FS_FiniteSubsetsOfFinite
  <2>. QED
    BY <2>1, FS_StrictSubsetOrderingWellFounded
<1>5. tails \subseteq SUBSET P /\ tails # {}
  BY <1>1
<1>. HIDE DEF tails
<1>6. PICK least \in tails : \A other \in tails : <<other, least>> \notin smaller
  <2>. HIDE DEF smaller
  <2>. QED
    BY <1>4, <1>5, WFMin
<1>7. PICK j \in Beyond(k) : least = Beyond(j)
  BY <1>6 DEF tails
<1>8. PICK i \in w[j] : i \in P
  BY <1>7
<1>9. Beyond(i) \in tails /\ Beyond(i) \subseteq Beyond(j)
  <2>1. i \in Beyond(j) /\ i \in Beyond(k)
    BY <1>2, <1>3, <1>7, <1>8
  <2>2. Beyond(i) \subseteq Beyond(j)
    BY <1>2, <1>7, <1>8, <2>1
  <2>. QED
    BY <2>1, <2>2 DEF tails
<1>10. Beyond(i) = Beyond(j)
  <2>1. <<Beyond(i), Beyond(j)>> \notin smaller
    BY <1>6, <1>7, <1>9
  <2>2. Beyond(i) \in SUBSET P /\ Beyond(j) \in SUBSET P
    OBVIOUS
  <2>. HIDE DEF Beyond
  <2>. QED
    BY <1>9, <2>1, <2>2 DEF StrictSubsetOrdering
<1>. QED
  BY <1>1, <1>7, <1>8, <1>10

\* A drain that reported a stall has nothing ready, and still holds keys.
StallInv == drain.open /\ drain.stalled => drain.ready = {} /\ Pending # {}

\* Only asking an exhausted drain for another key makes it stalled (next).
LEMMA StepKeepsStall ==
  ASSUME DrainInv, StallInv, [Next]_vars
  PROVE  StallInv'
<1>1. CASE Edit
  BY <1>1, EditInv DEF StallInv
<1>2. ASSUME NEW mode \in Modes, NEW scope \in Scopes, NEW order \in Orders,
             NEW retain \in BOOLEAN, OpenDrain(mode, scope, order, retain)
      PROVE  StallInv'
  BY <1>2 DEF OpenDrain, Kahn, StallInv
<1>3. ASSUME NEW order \in Orders, OpenPeek(order)
      PROVE  StallInv'
  BY <1>3 DEF OpenPeek, Kahn, StallInv
<1>4. ASSUME NEW k \in Keys, Yield(k)
      PROVE  StallInv'
  <2>1. drain.open /\ drain \in Drains(Pending) /\ k \in drain.ready
    BY <1>4, OpenDrainType DEF Yield, Eligible, DrainInv
  <2>2. ~drain.stalled
    BY <2>1 DEF StallInv, Drains
  <2>3. drain'.stalled = drain.stalled
    BY <1>4, <2>1 DEF Yield, Drains
  <2>. QED
    BY <2>2, <2>3 DEF StallInv
<1>5. CASE Exhausted
  <2>1. drain.open /\ drain \in Drains(Pending) /\ drain.ready = {}
    BY <1>5, OpenDrainType DEF Exhausted, DrainInv
  <2>2. /\ drain'.inDegree = drain.inDegree /\ drain'.ready = {} /\ drain'.open
        /\ drain'.stalled = (drain.stalled \/ Pending # {})
    BY <1>5, <2>1 DEF Exhausted, Drains
  <2>3. Pending' = Pending
    BY <2>1, <2>2 DEF Pending
  <2>. QED
    BY <2>1, <2>2, <2>3 DEF StallInv
<1>6. CASE Drop
  BY <1>6 DEF Drop, NoDrain, StallInv
<1>7. CASE UNCHANGED vars
  BY <1>7 DEF vars, StallInv, Pending
<1>. QED
  BY <1>1, <1>2, <1>3, <1>4, <1>5, <1>6, <1>7, OpenCases DEF Next

\* What is ready is not behind a cycle; if nothing is ready, everything is.
LEMMA ReadyOrBehindCycle ==
  ASSUME DrainInv, drain.open
  PROVE  /\ BehindCycle \subseteq Pending
         /\ drain.ready \cap BehindCycle = {}
         /\ drain.ready = {} => BehindCycle = Pending
<1>. DEFINE w == [k \in Pending |-> dependencies[k] \cap Pending]
<1>1. Pending \in SUBSET Keys /\ IsFiniteSet(Pending)
  BY OpenDrainType, FS_Subset, DrainAssumption DEF DrainInv
<1>2. w \in [Pending -> SUBSET Pending]
  OBVIOUS
<1>3. drain.ready = {k \in Pending : w[k] = {}}
  BY DEF DrainInv, DegreesExact
<1>4. BehindCycle = {k \in Pending : \E j \in Pending :
                       Reaches(w, k, j) /\ \E i \in w[j] : Reaches(w, i, j)}
  BY DEF BehindCycle
<1>. HIDE DEF w
<1>5. ASSUME NEW k \in drain.ready PROVE k \notin BehindCycle
  <2>1. k \in Pending /\ w[k] = {}
    BY <1>3
  <2>2. \A j \in Pending : Reaches(w, k, j) => j = k
    <3>1. {k} \in SUBSET DOMAIN w /\ ClosedUnder(w, {k})
      BY <1>2, <2>1 DEF ClosedUnder
    <3>. QED
      BY <3>1 DEF Reaches
  <2>. QED
    BY <1>4, <2>1, <2>2
<1>6. ASSUME drain.ready = {}, NEW k \in Pending PROVE k \in BehindCycle
  <2>1. \A x \in Pending : w[x] # {}
    BY <1>3, <1>6
  <2>2. \E j \in Pending : Reaches(w, k, j) /\ \E i \in w[j] : Reaches(w, i, j)
    BY <1>1, <1>2, <2>1, NoEndWithoutCycle
  <2>. QED
    BY <1>4, <2>2
<1>. QED
  BY <1>4, <1>5, <1>6

\* A stall shows a cycle, and the size hint, is_empty and the completion are
\* right about how many keys are still coming (Kahn, DrainSorted).
THEOREM StallsAreTold == Spec => []StallsTold
<1>1. Init => StallInv
  BY DEF Init, NoDrain, StallInv
<1>2. DrainInv /\ StallInv /\ [Next]_vars => StallInv'
  BY StepKeepsStall
<1>3. ASSUME DrainInv, StallInv PROVE StalledBehindCycle
  BY <1>3, ReadyOrBehindCycle DEF StallInv, StalledBehindCycle
<1>4. ASSUME DrainInv, StallInv PROVE HintsHold
  <2>. SUFFICES ASSUME drain.open PROVE HintsHold
    BY DEF HintsHold
  <2>. DEFINE free == Pending \ BehindCycle
  <2>1. IsFiniteSet(Pending) /\ drain.ready \in SUBSET Pending
    BY <1>4, OpenDrainType, FS_Subset, DrainAssumption DEF DrainInv, Drains
  <2>2. free \in SUBSET Pending /\ drain.ready \in SUBSET free
    BY <1>4, <2>1, ReadyOrBehindCycle
  <2>3. free = {} <=> drain.ready = {}
    BY <1>4, <2>2, ReadyOrBehindCycle
  <2>. HIDE DEF free
  <2>4. IsFiniteSet(free) /\ Cardinality(free) <= Cardinality(Pending)
    BY <2>1, <2>2, FS_Subset
  <2>5. Cardinality(drain.ready) <= Cardinality(free)
    BY <2>2, <2>4, FS_Subset
  <2>6. Cardinality(free) = 0 <=> free = {}
    BY <2>4, FS_EmptySet
  <2>7. /\ Cardinality(Pending) \in Nat
        /\ Cardinality(Pending) = 0 <=> Pending = {}
    BY <2>1, FS_CardinalityType, FS_EmptySet
  <2>8. Completion.kind = "Stalled" => Completion.remaining > 0
    BY <1>4, <2>7 DEF StallInv, Completion, Remaining
  <2>9. SizeHint.least = Cardinality(drain.ready) /\ SizeHint.most = Cardinality(Pending)
    BY DEF SizeHint, Remaining
  <2>10. /\ SizeHint.least <= Cardinality(free)
         /\ Cardinality(free) <= SizeHint.most
         /\ IsEmpty <=> Cardinality(free) = 0
    BY <2>3, <2>4, <2>5, <2>6, <2>9 DEF IsEmpty
  <2>. QED
    BY <2>8, <2>10 DEF HintsHold, free
<1>5. DrainInv /\ StallInv => StallsTold
  BY <1>3, <1>4 DEF StallsTold
<1>. QED
  BY <1>1, <1>2, <1>5, DrainInvariant, PTL DEF Spec

=============================================================================
