------------------------ MODULE ReachabilityTheorems ------------------------
(***************************************************************************)
(* Facts about reachability and acyclicity that the proofs about the       *)
(* dependency graph, the cascades, the drain and the marks rest on, each   *)
(* shown by exhibiting a closed set, and about the loops that compute what *)
(* is reachable.                                                           *)
(***************************************************************************)
EXTENDS Naturals, Reachability, FiniteSetTheorems, TLAPS

(***************************************************************************)
(* Everything reaches itself and its successors.  A search that starts at  *)
(* a key finds the key (graph.rs, would_create_cycle).                     *)
(***************************************************************************)
LEMMA ReachesSelf ==
  ASSUME NEW D, NEW a
  PROVE  Reaches(D, a, a)
  BY DEF Reaches

\* What a point reaches, and one arrow more, it reaches.
LEMMA ReachesStep ==
  ASSUME NEW K, NEW D \in [K -> SUBSET K], NEW a \in K, NEW b \in K, NEW c \in D[b],
         Reaches(D, a, b)
  PROVE  Reaches(D, a, c)
  BY DEF Reaches, ClosedUnder

(***************************************************************************)
(* Taking arrows out of an acyclic relation leaves it acyclic.             *)
(***************************************************************************)
LEMMA SubrelationAcyclic ==
  ASSUME NEW K, NEW C \in [K -> SUBSET K], NEW D \in [K -> SUBSET K],
         \A x \in K : C[x] \subseteq D[x],
         Acyclic(D)
  PROVE  Acyclic(C)
<1>. SUFFICES ASSUME NEW x \in K, NEW y \in C[x]
              PROVE  ~Reaches(C, y, x)
  BY DEF Acyclic
<1>1. PICK S \in SUBSET K : y \in S /\ ClosedUnder(D, S) /\ x \notin S
  BY DEF Acyclic, Reaches
<1>2. ClosedUnder(C, S)
  BY <1>1 DEF ClosedUnder
<1>. QED
  BY <1>1, <1>2 DEF Reaches

(***************************************************************************)
(* The check made before an edge is added is the right one: an edge        *)
(* from -> to closes no cycle when `from` cannot be reached from `to`      *)
(* (graph.rs, would_create_cycle).                                         *)
(***************************************************************************)
LEMMA InsertAcyclic ==
  ASSUME NEW K, NEW D \in [K -> SUBSET K], NEW from \in K, NEW to \in K,
         Acyclic(D), ~Reaches(D, to, from)
  PROVE  Acyclic([D EXCEPT ![from] = @ \cup {to}])
<1>. DEFINE E == [D EXCEPT ![from] = @ \cup {to}]
<1>. /\ E \in [K -> SUBSET K]
     /\ E[from] = D[from] \cup {to}
     /\ \A x \in K : x # from => E[x] = D[x]
  OBVIOUS
<1>. HIDE DEF E
<1>1. PICK T \in SUBSET K : to \in T /\ ClosedUnder(D, T) /\ from \notin T
  BY DEF Reaches
<1>2. ClosedUnder(E, T)
  BY <1>1 DEF ClosedUnder
<1>3. ASSUME NEW x \in K, NEW y \in E[x]
      PROVE  ~Reaches(E, y, x)
  <2>1. CASE x = from /\ y = to
    BY <2>1, <1>1, <1>2 DEF Reaches
  <2>2. CASE y \in D[x]
    <3>1. PICK S \in SUBSET K : y \in S /\ ClosedUnder(D, S) /\ x \notin S
      BY <2>2 DEF Acyclic, Reaches
    <3>2. CASE x \notin T
      <4>1. S \cup T \in SUBSET K /\ y \in S \cup T /\ x \notin S \cup T
        BY <3>1, <3>2
      <4>2. ClosedUnder(E, S \cup T)
        BY <3>1, <1>1 DEF ClosedUnder
      <4>. QED
        BY <4>1, <4>2 DEF Reaches
    \* x is above `to`, so y is too, and T cuts `from` off from both.
    <3>3. CASE x \in T
      <4>1. S \cap T \in SUBSET K /\ y \in S \cap T /\ x \notin S \cap T
        BY <3>1, <3>3, <2>2, <1>1 DEF ClosedUnder
      <4>2. ClosedUnder(E, S \cap T)
        BY <3>1, <1>1 DEF ClosedUnder
      <4>. QED
        BY <4>1, <4>2 DEF Reaches
    <3>. QED
      BY <3>2, <3>3
  <2>. QED
    BY <2>1, <2>2
<1>. QED
  BY <1>3 DEF Acyclic, E

(***************************************************************************)
(* Skipping the search is sound when nothing depends on `from`: no path    *)
(* from another key can end there (graph.rs, would_create_cycle).          *)
(***************************************************************************)
LEMMA NoArrowInNotReached ==
  ASSUME NEW K, NEW D \in [K -> SUBSET K], NEW from \in K, NEW to \in K,
         from # to, \A x \in K : from \notin D[x]
  PROVE  ~Reaches(D, to, from)
<1>1. ClosedUnder(D, K \ {from})
  BY DEF ClosedUnder
<1>. QED
  BY <1>1 DEF Reaches

(***************************************************************************)
(* An edge out of `from` changes nothing about which keys reach `from`.    *)
(* So the refusals of a replacement, all of whose edges start at one key,  *)
(* do not depend on the order it tries them in.                            *)
(***************************************************************************)
LEMMA InsertKeepsReachingSource ==
  ASSUME NEW K, NEW D \in [K -> SUBSET K], NEW from \in K, NEW new \in SUBSET K,
         NEW d \in K
  PROVE  Reaches([D EXCEPT ![from] = new], d, from) <=> Reaches(D, d, from)
<1>. DEFINE E == [D EXCEPT ![from] = new]
<1>1. \A S \in SUBSET K : from \notin S => (ClosedUnder(E, S) <=> ClosedUnder(D, S))
  BY DEF ClosedUnder
<1>2. DOMAIN D = K /\ DOMAIN E = K
  OBVIOUS
<1>. QED
  BY <1>1, <1>2 DEF Reaches

(***************************************************************************)
(* What is reachable from some roots contains them and is closed, and no   *)
(* smaller set does.  All proofs about expanded drains use reachability    *)
(* through these two facts only (drain_builder.rs, collect_affected).      *)
(***************************************************************************)
LEMMA ReachableClosed ==
  ASSUME NEW K, NEW D \in [K -> SUBSET K], NEW roots \in SUBSET K
  PROVE  /\ ReachableFrom(D, roots) \in SUBSET K
         /\ roots \subseteq ReachableFrom(D, roots)
         /\ ClosedUnder(D, ReachableFrom(D, roots))
<1>1. DOMAIN D = K
  OBVIOUS
<1>2. roots \subseteq ReachableFrom(D, roots)
  BY <1>1, ReachesSelf DEF ReachableFrom
<1>3. ASSUME NEW x \in ReachableFrom(D, roots), NEW y \in D[x]
      PROVE  y \in ReachableFrom(D, roots)
  <2>1. x \in K /\ y \in K
    BY <1>1, <1>3 DEF ReachableFrom
  <2>2. PICK a \in roots : Reaches(D, a, x)
    BY <1>3 DEF ReachableFrom
  <2>3. Reaches(D, a, y)
    BY <2>1, <2>2, <1>3, ReachesStep
  <2>. QED
    BY <1>1, <2>1, <2>3 DEF ReachableFrom
<1>. QED
  BY <1>1, <1>2, <1>3 DEF ReachableFrom, ClosedUnder

\* The least such set.
LEMMA ReachableLeast ==
  ASSUME NEW K, NEW D \in [K -> SUBSET K], NEW roots, NEW S \in SUBSET K,
         roots \subseteq S, ClosedUnder(D, S)
  PROVE  ReachableFrom(D, roots) \subseteq S
<1>1. DOMAIN D = K
  OBVIOUS
<1>. QED
  BY <1>1 DEF ReachableFrom, Reaches

\* More roots reach more, and roots that were reachable anyway add nothing.
LEMMA ReachableMonotone ==
  ASSUME NEW K, NEW D \in [K -> SUBSET K], NEW roots \in SUBSET K, NEW more \in SUBSET K,
         roots \subseteq more
  PROVE  /\ ReachableFrom(D, roots) \subseteq ReachableFrom(D, more)
         /\ more \subseteq ReachableFrom(D, roots)
              => ReachableFrom(D, more) = ReachableFrom(D, roots)
<1>1. ReachableFrom(D, roots) \subseteq ReachableFrom(D, more)
  BY DEF ReachableFrom
<1>2. ASSUME more \subseteq ReachableFrom(D, roots)
      PROVE  ReachableFrom(D, more) \subseteq ReachableFrom(D, roots)
  BY <1>2, ReachableClosed, ReachableLeast
<1>. QED
  BY <1>1, <1>2

(***************************************************************************)
(* Reaching is transitive, an arrow in front of a path makes a path, and a *)
(* relation with more arrows reaches more.                                 *)
(***************************************************************************)
LEMMA ReachesTransitive ==
  ASSUME NEW D, NEW a, NEW b, NEW c, Reaches(D, a, b), Reaches(D, b, c)
  PROVE  Reaches(D, a, c)
BY DEF Reaches

\* The arrow in front.
LEMMA ReachesFirst ==
  ASSUME NEW K, NEW D \in [K -> SUBSET K], NEW a \in K, NEW b \in D[a], NEW c,
         Reaches(D, b, c)
  PROVE  Reaches(D, a, c)
BY DEF Reaches, ClosedUnder

\* A path that leads anywhere else begins with an arrow.
LEMMA ReachesBeyond ==
  ASSUME NEW K, NEW D \in [K -> SUBSET K], NEW a \in K, NEW b \in K, a # b,
         Reaches(D, a, b)
  PROVE  \E y \in D[a] : Reaches(D, y, b)
<1>. DEFINE beyond == ReachableFrom(D, D[a])
<1>1. beyond \in SUBSET K /\ D[a] \subseteq beyond /\ ClosedUnder(D, beyond)
  BY ReachableClosed
<1>2. b \in beyond
  <2>. HIDE DEF beyond
  <2>1. ClosedUnder(D, beyond \cup {a}) /\ (beyond \cup {a}) \in SUBSET DOMAIN D
    BY <1>1 DEF ClosedUnder
  <2>. QED
    BY <2>1 DEF Reaches
<1>. QED
  BY <1>2 DEF ReachableFrom

\* More arrows.
LEMMA ReachesMonotone ==
  ASSUME NEW K, NEW C \in [K -> SUBSET K], NEW D \in [K -> SUBSET K],
         \A x \in K : C[x] \subseteq D[x],
         NEW a, NEW b, Reaches(C, a, b)
  PROVE  Reaches(D, a, b)
<1>1. \A S \in SUBSET K : ClosedUnder(D, S) => ClosedUnder(C, S)
  BY DEF ClosedUnder
<1>. QED
  BY <1>1 DEF Reaches

\* What one point reaches, as a set.
LEMMA ReachableFromOne ==
  ASSUME NEW K, NEW D \in [K -> SUBSET K], NEW a \in K, NEW b \in K
  PROVE  b \in ReachableFrom(D, {a}) <=> Reaches(D, a, b)
BY DEF ReachableFrom

(***************************************************************************)
(* Arrows may be added many at a time if none of them lies on a cycle of   *)
(* the outcome.  A cascade from one channel to another is an arrow for     *)
(* every key (tracker.rs, add_cascade).                                    *)
(***************************************************************************)
LEMMA InsertManyAcyclic ==
  ASSUME NEW K, NEW D \in [K -> SUBSET K], NEW E \in [K -> SUBSET K],
         \A x \in K : D[x] \subseteq E[x],
         Acyclic(D),
         \A x \in K : \A y \in E[x] \ D[x] : ~Reaches(E, y, x)
  PROVE  Acyclic(E)
<1>. SUFFICES ASSUME NEW x \in K, NEW y \in E[x]
              PROVE  ~Reaches(E, y, x)
  BY DEF Acyclic
<1>1. CASE y \notin D[x]
  BY <1>1
<1>2. CASE y \in D[x]
  <2>. SUFFICES ASSUME Reaches(E, y, x)
                PROVE  FALSE
    OBVIOUS
  \* What y reaches by old arrows, or that does not lead back to x.
  <2>. DEFINE T == {p \in K : /\ Reaches(E, y, p)
                              /\ Reaches(D, y, p) \/ ~Reaches(E, p, x)}
  <2>1. y \in T
    BY <1>2, ReachesSelf
  <2>2. ASSUME NEW p \in T, NEW q \in E[p]
        PROVE  q \in T
    <3>1. p \in K /\ q \in K /\ Reaches(E, y, p)
      BY <2>2
    <3>2. Reaches(E, y, q)
      BY <1>2, <3>1, ReachesStep
    <3>3. CASE ~Reaches(E, p, x)
      BY <3>1, <3>2, <3>3, ReachesFirst
    <3>4. CASE Reaches(D, y, p) /\ q \in D[p]
      BY <1>2, <3>1, <3>2, <3>4, ReachesStep
    <3>5. CASE q \notin D[p]
      <4>1. ~Reaches(E, q, p)
        BY <3>1, <3>5
      <4>2. ~Reaches(E, q, x)
        <5>1. Reaches(E, x, y)
          BY ReachesSelf, ReachesStep
        <5>. QED
          BY <3>1, <4>1, <5>1, ReachesTransitive
      <4>. QED
        BY <3>1, <3>2, <4>2
    <3>. QED
      BY <2>2, <3>3, <3>4, <3>5
  <2>3. T \in SUBSET K /\ ClosedUnder(E, T)
    BY <2>2 DEF ClosedUnder
  <2>4. x \notin T
    BY <1>2, ReachesSelf DEF Acyclic
  <2>. HIDE DEF T
  <2>. QED
    BY <2>1, <2>3, <2>4 DEF Reaches
<1>. QED
  BY <1>1, <1>2

\* One arrow at a time, it is enough to ask before.
LEMMA InsertArrowAcyclic ==
  ASSUME NEW K, NEW D \in [K -> SUBSET K], NEW E \in [K -> SUBSET K],
         NEW from \in K, NEW to \in K,
         \A x \in K : \A y \in E[x] : y \in D[x] \/ (x = from /\ y = to),
         Acyclic(D), ~Reaches(D, to, from)
  PROVE  Acyclic(E)
<1>. DEFINE F == [D EXCEPT ![from] = @ \cup {to}]
<1>1. Acyclic(F)
  BY InsertAcyclic
<1>2. F \in [K -> SUBSET K] /\ \A x \in K : E[x] \subseteq F[x]
  OBVIOUS
<1>. HIDE DEF F
<1>. QED
  BY <1>1, <1>2, SubrelationAcyclic

-----------------------------------------------------------------------------
(***************************************************************************)
(* Loops.  A loop that is modelled by a recursive function is reasoned     *)
(* about turn by turn: the library's induction theorems take operators,    *)
(* these take sets, and rest on the well-foundedness of strict inclusion   *)
(* between finite sets.                                                    *)
(***************************************************************************)
\* A set of numbers that is not empty has a least member.
LEMMA LeastNumber ==
  ASSUME NEW T \in SUBSET Nat, T # {}
  PROVE  \E n \in T : \A m \in T : n <= m
<1>. DEFINE smaller == StrictSubsetOrdering(Nat)
            starts == {0 .. m : m \in T}
<1>1. starts \subseteq FiniteSubsetsOf(Nat) /\ starts # {}
  <2>1. ASSUME NEW m \in T PROVE (0 .. m) \in SUBSET Nat /\ IsFiniteSet(0 .. m)
    BY FS_Interval
  <2>. QED
    BY <2>1 DEF FiniteSubsetsOf
<1>2. IsWellFoundedOn(smaller, FiniteSubsetsOf(Nat))
  BY FS_StrictSubsetOrderingWellFounded
<1>. HIDE DEF starts
<1>3. PICK least \in starts : \A other \in starts : <<other, least>> \notin smaller
  <2>. HIDE DEF smaller
  <2>. QED
    BY <1>1, <1>2, WFMin
<1>4. PICK n \in T : least = 0 .. n
  BY <1>3 DEF starts
<1>5. ASSUME NEW m \in T, m < n PROVE FALSE
  <2>1. (0 .. m) \in starts
    BY DEF starts
  <2>2. 0 .. m \subseteq 0 .. n /\ n \notin 0 .. m /\ n \in 0 .. n
    BY <1>5
  <2>3. (0 .. m) \in SUBSET Nat /\ (0 .. n) \in SUBSET Nat
    OBVIOUS
  <2>4. <<0 .. m, 0 .. n>> \in smaller
    BY <2>2, <2>3 DEF StrictSubsetOrdering
  <2>. QED
    BY <1>3, <1>4, <2>1, <2>4
<1>. QED
  BY <1>5

\* A set of numbers that holds zero and, with each number, the next one, holds
\* every number.
LEMMA EveryTurn ==
  ASSUME NEW T \in SUBSET Nat, 0 \in T, \A n \in T : n + 1 \in T
  PROVE  T = Nat
<1>. SUFFICES ASSUME Nat \ T # {} PROVE FALSE
  OBVIOUS
<1>1. PICK n \in Nat \ T : \A m \in Nat \ T : n <= m
  <2>1. (Nat \ T) \in SUBSET Nat
    OBVIOUS
  <2>. QED
    BY <2>1, LeastNumber
<1>2. n # 0 /\ n - 1 \in T
  BY <1>1
<1>. QED
  BY <1>1, <1>2

\* A set of subsets of a finite set that holds a set when it holds all that are
\* one element smaller holds every subset.
LEMMA EverySubset ==
  ASSUME NEW K, IsFiniteSet(K), NEW T \in SUBSET SUBSET K,
         \A s \in SUBSET K : (\A x \in s : s \ {x} \in T) => s \in T
  PROVE  T = SUBSET K
<1>. SUFFICES ASSUME (SUBSET K) \ T # {} PROVE FALSE
  OBVIOUS
<1>. DEFINE smaller == StrictSubsetOrdering(K)
            others == (SUBSET K) \ T
<1>1. IsWellFoundedOn(smaller, SUBSET K)
  <2>1. FiniteSubsetsOf(K) = SUBSET K
    BY FS_FiniteSubsetsOfFinite
  <2>2. IsWellFoundedOn(smaller, FiniteSubsetsOf(K))
    BY FS_StrictSubsetOrderingWellFounded
  <2>. QED
    BY <2>1, <2>2, Zenon
<1>2. PICK s \in others : \A r \in others : <<r, s>> \notin smaller
  <2>1. others \subseteq SUBSET K /\ others # {}
    OBVIOUS
  <2>. HIDE DEF smaller, others
  <2>. QED
    BY <1>1, <2>1, WFMin
<1>3. ASSUME NEW x \in s PROVE s \ {x} \in T
  <2>1. s \in SUBSET K /\ s \ {x} \in SUBSET K
    BY <1>2
  <2>2. <<s \ {x}, s>> \in smaller
    BY <1>3, <2>1 DEF StrictSubsetOrdering
  <2>. QED
    BY <1>2, <2>1, <2>2
<1>. QED
  BY <1>2, <1>3

\* A loop runs: from a first state, a step makes a state of every state.
LEMMA LoopRuns ==
  ASSUME NEW S, NEW first \in S, NEW step \in [S -> S]
  PROVE  \E f \in [Nat -> S] : f[0] = first /\ \A n \in Nat : f[n + 1] = step[f[n]]
<1>. DEFINE Run(g, n) == /\ g \in [0 .. n -> S] /\ g[0] = first
                         /\ \A i \in 0 .. n - 1 : g[i + 1] = step[g[i]]
            turns == {n \in Nat : \E g : Run(g, n)}
<1>1. turns = Nat
  <2>1. 0 \in turns
    <3>1. Run([i \in 0 .. 0 |-> first], 0)
      OBVIOUS
    <3>. QED
      BY <3>1
  <2>2. ASSUME NEW n \in turns PROVE n + 1 \in turns
    <3>1. PICK g : Run(g, n)
      OBVIOUS
    <3>. DEFINE h == [i \in 0 .. n + 1 |-> IF i = n + 1 THEN step[g[n]] ELSE g[i]]
    <3>2. n \in Nat /\ g[n] \in S
      BY <3>1
    <3>3. h \in [0 .. n + 1 -> S] /\ h[0] = first
      BY <3>1, <3>2
    <3>4. ASSUME NEW i \in 0 .. n + 1 - 1 PROVE h[i + 1] = step[h[i]]
      <4>1. CASE i = n
        BY <3>2, <4>1
      <4>2. CASE i # n
        BY <3>1, <3>2, <4>2
      <4>. QED
        BY <4>1, <4>2
    <3>. HIDE DEF h
    <3>5. Run(h, n + 1)
      BY <3>3, <3>4
    <3>6. n + 1 \in Nat
      BY <3>2
    <3>. HIDE DEF Run
    <3>. QED
      BY <3>5, <3>6
  <2>. HIDE DEF turns
  <2>3. turns \in SUBSET Nat
    BY DEF turns
  <2>. QED
    BY <2>1, <2>2, <2>3, EveryTurn
<1>2. ASSUME NEW n \in Nat, NEW g, NEW h, Run(g, n), Run(h, n + 1) PROVE g[n] = h[n]
  <2>. DEFINE same == {i \in Nat : i <= n => g[i] = h[i]}
  <2>1. 0 \in same
    BY <1>2
  <2>2. ASSUME NEW i \in same PROVE i + 1 \in same
    BY <1>2
  <2>3. same \in SUBSET Nat
    OBVIOUS
  <2>4. same = Nat
    <3>. HIDE DEF same
    <3>. QED
      BY <2>1, <2>2, <2>3, EveryTurn
  <2>. QED
    BY <2>4
<1>. DEFINE run == [n \in Nat |-> CHOOSE g : Run(g, n)]
            f == [n \in Nat |-> run[n][n]]
<1>3. \A n \in Nat : Run(run[n], n)
  BY <1>1
<1>. HIDE DEF run
<1>4. \A n \in Nat : f[n] \in S
  BY <1>3
<1>5. f[0] = first
  BY <1>3
<1>6. ASSUME NEW n \in Nat PROVE f[n + 1] = step[f[n]]
  <2>1. run[n][n] = run[n + 1][n]
    <3>1. Run(run[n], n) /\ Run(run[n + 1], n + 1)
      BY <1>3
    <3>. HIDE DEF Run
    <3>. QED
      BY <1>2, <3>1
  <2>2. Run(run[n + 1], n + 1)
    BY <1>3
  <2>3. run[n + 1][n + 1] = step[run[n + 1][n]]
    BY <2>2
  <2>. QED
    BY <2>1, <2>3
<1>. QED
  BY <1>4, <1>5, <1>6


\* f goes from a first state through m turns, each with its own step.
GoesBy(f, first, m, step) == f[0] = first /\ \A n \in 1 .. m : f[n] = step[n][f[n - 1]]

\* A loop of m turns runs, each turn making its own step
\* (cascade_cycle_error goes through a cycle).
LEMMA TurnsRun ==
  ASSUME NEW S, NEW first \in S, NEW m \in Nat, NEW step \in [1 .. m -> [S -> S]]
  PROVE  \E f \in [0 .. m -> S] : GoesBy(f, first, m, step)
<1>. DEFINE Run(f, k) == f \in [0 .. k -> S] /\ GoesBy(f, first, k, step)
            T == {k \in Nat : k <= m => \E f : Run(f, k)}
<1>1. 0 \in T
  <2>1. Run([n \in 0 .. 0 |-> first], 0)
    BY DEF GoesBy
  <2>. HIDE DEF Run
  <2>. QED
    BY <2>1
<1>2. ASSUME NEW k \in T PROVE k + 1 \in T
  <2>. HIDE DEF Run
  <2>. SUFFICES ASSUME k + 1 <= m PROVE \E f : Run(f, k + 1)
    BY <1>2
  <2>1. k \in Nat /\ k + 1 \in 1 .. m /\ k <= m
    BY <1>2
  <2>2. PICK f : Run(f, k)
    BY <1>2, <2>1
  <2>. DEFINE g == [n \in 0 .. k + 1 |-> IF n = k + 1 THEN step[k + 1][f[k]] ELSE f[n]]
  <2>3. step[k + 1][f[k]] \in S
    <3>1. step[k + 1] \in [S -> S] /\ f[k] \in S
      BY <2>1, <2>2 DEF Run, GoesBy
    <3>. QED
      BY <3>1
  <2>4. g \in [0 .. k + 1 -> S] /\ g[0] = first
    BY <2>1, <2>2, <2>3 DEF Run, GoesBy
  <2>5. ASSUME NEW n \in 1 .. k + 1 PROVE g[n] = step[n][g[n - 1]]
    <3>1. CASE n = k + 1
      <4>1. g[n] = step[k + 1][f[k]] /\ g[n - 1] = f[k]
        BY <2>1, <3>1
      <4>. QED
        BY <3>1, <4>1
    <3>2. CASE n # k + 1
      <4>1. g[n] = f[n] /\ g[n - 1] = f[n - 1] /\ n \in 1 .. k
        BY <2>1, <3>2
      <4>. QED
        BY <2>2, <4>1 DEF Run, GoesBy
    <3>. QED
      BY <3>1, <3>2
  <2>. HIDE DEF g
  <2>6. Run(g, k + 1)
    BY <2>4, <2>5 DEF Run, GoesBy
  <2>. QED
    BY <2>6
<1>3. T \in SUBSET Nat
  OBVIOUS
<1>4. m \in T
  <2>. HIDE DEF T
  <2>1. T = Nat
    BY <1>1, <1>2, <1>3, EveryTurn
  <2>. QED
    BY <2>1
<1>5. \E f : Run(f, m)
  <2>. HIDE DEF Run
  <2>. QED
    BY <1>4
<1>. QED
  BY <1>5

(***************************************************************************)
(* Chains.  A search that keeps the predecessor of what it finds returns a *)
(* chain of arrows (tracker.rs, flow_path).                                *)
(***************************************************************************)
\* s is a chain of n points of D that leads from a to b.
LeadsBy(D, s, n, a, b) ==
  /\ s[1] = a /\ s[n] = b
  /\ \A i \in 1 .. n - 1 : s[i + 1] \in D[s[i]]

\* Where something is reached there is a chain (flow_path finds one).
LEMMA ChainExists ==
  ASSUME NEW K, NEW D \in [K -> SUBSET K], NEW a \in K, NEW b \in K, Reaches(D, a, b)
  PROVE  \E n \in Nat \ {0} : \E s \in [1 .. n -> K] : LeadsBy(D, s, n, a, b)
<1>. DEFINE T == {c \in K : \E n \in Nat \ {0} : \E s \in [1 .. n -> K] : LeadsBy(D, s, n, a, c)}
<1>1. a \in T
  <2>. DEFINE s == [i \in 1 .. 1 |-> a]
  <2>1. 1 \in Nat \ {0} /\ s \in [1 .. 1 -> K] /\ LeadsBy(D, s, 1, a, a)
    BY DEF LeadsBy
  <2>. QED
    BY <2>1
<1>2. ASSUME NEW c \in T, NEW d \in D[c] PROVE d \in T
  <2>1. PICK n \in Nat \ {0} : \E s \in [1 .. n -> K] : LeadsBy(D, s, n, a, c)
    BY <1>2
  <2>2. PICK s \in [1 .. n -> K] : LeadsBy(D, s, n, a, c)
    BY <2>1
  <2>3. c \in K /\ d \in K
    BY <1>2
  <2>. DEFINE t == [i \in 1 .. n + 1 |-> IF i = n + 1 THEN d ELSE s[i]]
  <2>4. n + 1 \in Nat \ {0} /\ t \in [1 .. n + 1 -> K]
    BY <2>3
  <2>5. LeadsBy(D, t, n + 1, a, d)
    <3>1. t[1] = a /\ t[n + 1] = d
      BY <2>2 DEF LeadsBy
    <3>2. ASSUME NEW i \in 1 .. n + 1 - 1 PROVE t[i + 1] \in D[t[i]]
      <4>1. CASE i = n
        <5>1. t[i + 1] = d /\ t[i] = c
          BY <2>2, <4>1 DEF LeadsBy
        <5>. QED
          BY <1>2, <5>1
      <4>2. CASE i # n
        BY <2>2, <4>2 DEF LeadsBy
      <4>. QED
        BY <4>1, <4>2
    <3>. HIDE DEF t
    <3>. QED
      BY <3>1, <3>2 DEF LeadsBy
  <2>. HIDE DEF t
  <2>. QED
    BY <2>3, <2>4, <2>5
<1>3. T \in SUBSET K
  OBVIOUS
<1>4. ClosedUnder(D, T)
  <2>. HIDE DEF T
  <2>. QED
    BY <1>2, <1>3 DEF ClosedUnder
<1>5. b \in T
  <2>. HIDE DEF T
  <2>. QED
    BY <1>1, <1>3, <1>4 DEF Reaches
<1>. QED
  BY <1>5

\* A chain that comes to a point twice is longer than it need be.
LEMMA ChainCut ==
  ASSUME NEW K, NEW D \in [K -> SUBSET K], NEW a \in K, NEW b \in K,
         NEW n \in Nat \ {0}, NEW s \in [1 .. n -> K], LeadsBy(D, s, n, a, b),
         NEW i \in 1 .. n, NEW j \in 1 .. n, i < j, s[i] = s[j]
  PROVE  \E m \in Nat \ {0} : m < n /\ \E t \in [1 .. m -> K] : LeadsBy(D, t, m, a, b)
<1>. DEFINE m == n - (j - i)
            t == [k \in 1 .. m |-> IF k <= i THEN s[k] ELSE s[k + (j - i)]]
<1>1. m \in Nat \ {0} /\ m < n /\ i <= m
  OBVIOUS
<1>2. t \in [1 .. m -> K]
  OBVIOUS
<1>3. t[1] = a
  BY DEF LeadsBy
<1>4. t[m] = b
  <2>1. CASE m <= i
    BY <2>1 DEF LeadsBy
  <2>2. CASE ~(m <= i)
    BY <2>2 DEF LeadsBy
  <2>. QED
    BY <2>1, <2>2
<1>5. ASSUME NEW k \in 1 .. m - 1 PROVE t[k + 1] \in D[t[k]]
  <2>1. CASE k < i
    BY <2>1 DEF LeadsBy
  <2>2. CASE k = i
    <3>1. t[k] = s[j] /\ t[k + 1] = s[j + 1] /\ j \in 1 .. n - 1
      BY <2>2
    <3>. QED
      BY <3>1 DEF LeadsBy
  <2>3. CASE k > i
    <3>1. t[k] = s[k + (j - i)] /\ t[k + 1] = s[k + (j - i) + 1] /\ k + (j - i) \in 1 .. n - 1
      BY <2>3
    <3>. QED
      BY <3>1 DEF LeadsBy
  <2>. QED
    BY <2>1, <2>2, <2>3
<1>. HIDE DEF m, t
<1>6. LeadsBy(D, t, m, a, b)
  BY <1>3, <1>4, <1>5 DEF LeadsBy
<1>. QED
  BY <1>1, <1>2, <1>6

\* A shortest chain comes to no point twice, so among finitely many points
\* there is one of at most as many (flow_path remembers what it has visited).
LEMMA ShortChain ==
  ASSUME NEW K, IsFiniteSet(K), NEW D \in [K -> SUBSET K], NEW a \in K, NEW b \in K,
         Reaches(D, a, b)
  PROVE  \E n \in 1 .. Cardinality(K) : \E s \in [1 .. n -> K] : LeadsBy(D, s, n, a, b)
<1>. DEFINE lengths == {n \in Nat \ {0} : \E s \in [1 .. n -> K] : LeadsBy(D, s, n, a, b)}
<1>1. lengths \in SUBSET Nat /\ lengths # {}
  BY ChainExists
<1>2. PICK n \in lengths : \A m \in lengths : n <= m
  <2>. HIDE DEF lengths
  <2>. QED
    BY <1>1, LeastNumber
<1>3. n \in Nat \ {0}
  BY <1>2
<1>4. PICK s \in [1 .. n -> K] : LeadsBy(D, s, n, a, b)
  BY <1>2
<1>5. ASSUME NEW i \in 1 .. n, NEW j \in 1 .. n, i < j, s[i] = s[j] PROVE FALSE
  <2>1. PICK m \in Nat \ {0} : m < n /\ \E t \in [1 .. m -> K] : LeadsBy(D, t, m, a, b)
    BY <1>3, <1>4, <1>5, ChainCut
  <2>2. m \in lengths
    BY <2>1
  <2>. QED
    BY <1>2, <1>3, <2>1, <2>2
<1>6. Cardinality(K) \in Nat
  BY FS_CardinalityType
<1>7. n <= Cardinality(K)
  <2>. SUFFICES ASSUME ~(n <= Cardinality(K)) PROVE FALSE
    OBVIOUS
  <2>1. IsFiniteSet(1 .. n) /\ Cardinality(1 .. n) = n
    BY <1>3, FS_Interval
  <2>2. Cardinality(K) < Cardinality(1 .. n)
    BY <1>3, <1>6, <2>1
  <2>3. PICK x \in 1 .. n, y \in 1 .. n : x # y /\ s[x] = s[y]
    BY <1>4, <2>1, <2>2, FS_PigeonHole
  <2>4. x < y \/ y < x
    BY <2>3
  <2>. QED
    BY <1>5, <2>3, <2>4
<1>. QED
  BY <1>3, <1>4, <1>6, <1>7

\* A chain's end is reached from its start.
LEMMA ChainLeads ==
  ASSUME NEW K, NEW D \in [K -> SUBSET K], NEW a \in K, NEW b \in K,
         NEW n \in Nat \ {0}, NEW s \in [1 .. n -> K], LeadsBy(D, s, n, a, b)
  PROVE  Reaches(D, a, b)
<1>. DEFINE T == {i \in Nat : i + 1 <= n => Reaches(D, a, s[i + 1])}
<1>1. 0 \in T
  BY ReachesSelf DEF LeadsBy
<1>2. ASSUME NEW i \in T PROVE i + 1 \in T
  <2>. SUFFICES ASSUME i + 1 + 1 <= n PROVE Reaches(D, a, s[i + 1 + 1])
    BY <1>2
  <2>1. i \in Nat /\ i + 1 \in 1 .. n /\ Reaches(D, a, s[i + 1])
    BY <1>2
  <2>2. s[i + 1] \in K /\ s[i + 1 + 1] \in D[s[i + 1]]
    BY <2>1 DEF LeadsBy
  <2>. QED
    BY <2>1, <2>2, ReachesStep
<1>3. T \in SUBSET Nat
  OBVIOUS
<1>4. n - 1 \in T
  <2>. HIDE DEF T
  <2>1. T = Nat
    BY <1>1, <1>2, <1>3, EveryTurn
  <2>. QED
    BY <2>1
<1>5. n - 1 + 1 = n
  OBVIOUS
<1>. QED
  BY <1>4, <1>5 DEF LeadsBy
=============================================================================
