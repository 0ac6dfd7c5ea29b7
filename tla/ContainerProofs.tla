--------------------------- MODULE ContainerProofs ----------------------------
(***************************************************************************)
(* Proofs about what the other components keep their keys in.              *)
(*                                                                         *)
(* AdaptiveTables and the walks of Traversals, for all finite sets of      *)
(* keys, all sizes of a word and all budgets: every key stays where        *)
(* lookups go for it, the containers are the sets and maps they are taken  *)
(* for, and so a walk meets everything there is to meet, once, and finds a *)
(* shortest path.                                                          *)
(*                                                                         *)
(* InternedMarks, for all keys, hashes, numbers of ids and of generations: *)
(* an id stays that of its key, a generation tells a reader of the marks,  *)
(* and the marks are those that calls by keys meant, also when the         *)
(* interner is cleared under the set and its earlier ids are used on.      *)
(***************************************************************************)
EXTENDS Traversals, InternedMarks, ReachabilityTheorems

-----------------------------------------------------------------------------
(* Indices. *)

\* Whether an index is below the length of a table does not depend on whether
\* one counts in words or in bits (KeySet::contains, grow_for).
LEMMA WordBelow ==
  ASSUME NEW k \in Nat, NEW w \in Nat
  PROVE  Word(k) \in Nat /\ (Word(k) < w <=> k < w * WordBits)
<1>1. WordBits \in Nat /\ WordBits > 0
  BY TableAssumption
<1>. DEFINE b == WordBits
            q == k \div b
<1>2. q \in Nat /\ b * q <= k /\ k < b * q + b
  BY <1>1
<1>. HIDE DEF q, b
<1>3. b \in Nat /\ b > 0
  BY <1>1 DEF b
<1>4. ASSUME q < w PROVE k < w * b
  <2>1. PICK d \in Nat : w = q + 1 + d
    <3>1. w - (q + 1) \in Nat /\ w = q + 1 + (w - (q + 1))
      BY <1>2, <1>4
    <3>. QED
      BY <3>1
  <2>2. w * b = b * q + b + d * b /\ d * b \in Nat /\ b * q \in Nat
    BY <1>2, <1>3, <2>1
  <2>. QED
    BY <1>2, <1>3, <2>2
<1>5. ASSUME q >= w PROVE ~(k < w * b)
  <2>1. PICK d \in Nat : q = w + d
    <3>1. q - w \in Nat /\ q = w + (q - w)
      BY <1>2, <1>5
    <3>. QED
      BY <3>1
  <2>2. b * q = w * b + d * b /\ d * b \in Nat /\ w * b \in Nat
    BY <1>2, <1>3, <2>1
  <2>. QED
    BY <1>2, <1>3, <2>2
<1>6. Word(k) = q
  BY DEF Word, q, b
<1>. QED
  BY <1>2, <1>4, <1>5, <1>6 DEF b

\* The smallest of some indices, and what stands for it if there are none
\* (NO_INDEX in the code).
LEMMA LeastIs ==
  ASSUME NEW S \in SUBSET Nat
  PROVE  /\ S = {} => Least(S) = MaxIndex
         /\ S # {} => Least(S) \in S /\ \A j \in S : Least(S) <= j
  BY LeastNumber DEF Least

\* An index is the smallest if it is one of them and no other is smaller.
LEMMA IsLeast ==
  ASSUME NEW S \in SUBSET Nat, NEW i \in S, \A j \in S : i <= j
  PROVE  Least(S) = i
<1>1. Least(S) \in S /\ Least(S) <= i
  BY LeastIs
<1>2. i <= Least(S) /\ i \in Nat /\ Least(S) \in Nat
  BY <1>1
<1>. QED
  BY <1>1, <1>2

\* One index more (insert notes it if it is smaller).
LEMMA LeastWithOneMore ==
  ASSUME NEW S \in SUBSET Keys, NEW k \in Keys
  PROVE  Least(S \cup {k}) = Smaller(Least(S), k)
<1>1. Keys \subseteq Nat /\ MaxIndex \in Nat /\ \A h \in Keys : h < MaxIndex
  BY TableAssumption
<1>2. S \in SUBSET Nat /\ S \cup {k} \in SUBSET Nat /\ k \in Nat
  BY <1>1
<1>3. CASE S = {}
  <2>1. Least(S) = MaxIndex
    BY <1>2, <1>3, LeastIs
  <2>2. Smaller(Least(S), k) = k
    BY <1>1, <1>2, <2>1 DEF Smaller
  <2>3. \A j \in S \cup {k} : k <= j
    BY <1>2, <1>3
  <2>. QED
    BY <1>2, <2>2, <2>3, IsLeast
<1>4. CASE S # {}
  <2>. DEFINE l == Least(S)
              m == Smaller(l, k)
  <2>1. l \in S /\ \A j \in S : l <= j
    BY <1>2, <1>4, LeastIs
  <2>2. l \in Nat
    BY <1>2, <2>1
  <2>. HIDE DEF l
  <2>3. m \in S \cup {k} /\ m <= l /\ m <= k
    BY <1>2, <2>1, <2>2 DEF Smaller
  <2>4. \A j \in S \cup {k} : m <= j
    <3>1. m \in Nat
      BY <1>2, <2>3
    <3>2. ASSUME NEW j \in S PROVE m <= j
      <4>1. j \in Nat /\ l <= j
        BY <1>2, <2>1
      <4>. HIDE DEF m
      <4>. QED
        BY <2>2, <2>3, <3>1, <4>1
    <3>. QED
      BY <2>3, <3>2
  <2>. HIDE DEF m
  <2>5. Least(S \cup {k}) = m
    BY <1>2, <2>3, <2>4, IsLeast
  <2>. QED
    BY <2>5 DEF l, m
<1>. QED
  BY <1>3, <1>4

\* The largest of some indices is one of them (InDegrees::for_keys).
LEMMA GreatestIs ==
  ASSUME NEW S \in SUBSET Keys, S # {}
  PROVE  Greatest(S) \in S
<1>1. S \in SUBSET Nat /\ IsFiniteSet(S)
  BY TableAssumption, FS_Subset
<1>. DEFINE T == {s \in SUBSET S : s # {} => \E i \in s : \A j \in s : i >= j}
<1>2. ASSUME NEW s \in SUBSET S, \A x \in s : s \ {x} \in T PROVE s \in T
  <2>. SUFFICES ASSUME s # {} PROVE \E i \in s : \A j \in s : i >= j
    OBVIOUS
  <2>1. PICK x \in s : TRUE
    OBVIOUS
  <2>2. CASE s \ {x} = {}
    BY <1>1, <2>1, <2>2
  <2>3. CASE s \ {x} # {}
    <3>1. PICK i \in s \ {x} : \A j \in s \ {x} : i >= j
      BY <1>2, <2>1, <2>3
    <3>2. i \in Nat /\ x \in Nat /\ s \subseteq Nat
      BY <1>1, <2>1, <3>1
    <3>3. CASE i >= x
      BY <3>1, <3>3
    <3>4. CASE ~(i >= x)
      <4>1. \A j \in s : x >= j
        BY <3>1, <3>2, <3>4
      <4>. QED
        BY <2>1, <4>1
    <3>. QED
      BY <3>3, <3>4
  <2>. QED
    BY <2>2, <2>3
<1>3. S \in T
  <2>1. T \in SUBSET SUBSET S
    OBVIOUS
  <2>. HIDE DEF T
  <2>2. T = SUBSET S
    BY <1>1, <1>2, <2>1, EverySubset
  <2>. QED
    BY <2>2
<1>. QED
  BY <1>3 DEF Greatest

-----------------------------------------------------------------------------
(* KeySet: a set of keys, whatever its table covers. *)

\* A KeySet has its keys in the half their index belongs to, and what is noted
\* of the two halves is so.
KeyHalves(s) ==
  /\ s \in [kind : {"KeySet"}, words : Nat, bits : SUBSET Keys, hashed : SUBSET Keys,
            minHashed : Nat, len : Nat, peak : Nat]
  /\ \A k \in s.bits : Word(k) < s.words
  /\ \A k \in s.hashed : Word(k) >= s.words
  /\ s.minHashed = Least(s.hashed)
  /\ s.len = Cardinality(s.bits) + Cardinality(s.hashed) /\ s.len <= s.peak

\* A sound one has a table, of two slots to a word, that its keys account for.
IsKeySet(s) == KeyHalves(s) /\ 2 * s.words <= TableBudget(s.peak)

\* The set it stands for.
Members(s) == s.bits \cup s.hashed

\* Keys are numbers, and finitely many.
LEMMA KeysAre ==
  /\ Keys \subseteq Nat /\ IsFiniteSet(Keys) /\ MaxIndex \in Nat
  /\ \A k \in Keys : k < MaxIndex /\ Word(k) \in Nat
<1>1. Keys \subseteq Nat /\ IsFiniteSet(Keys) /\ MaxIndex \in Nat /\ \A k \in Keys : k < MaxIndex
  BY TableAssumption
<1>2. ASSUME NEW k \in Keys PROVE Word(k) \in Nat
  BY <1>1, WordBelow
<1>. QED
  BY <1>1, <1>2

\* Two sets of keys that do not meet have as many members as both together.
LEMMA Together ==
  ASSUME NEW S \in SUBSET Keys, NEW T \in SUBSET Keys, S \cap T = {}
  PROVE  /\ Cardinality(S) \in Nat /\ Cardinality(T) \in Nat
         /\ Cardinality(S \cup T) = Cardinality(S) + Cardinality(T)
<1>1. IsFiniteSet(S) /\ IsFiniteSet(T)
  BY KeysAre, FS_Subset
<1>2. Cardinality(S) \in Nat /\ Cardinality(T) \in Nat
  BY <1>1, FS_CardinalityType
<1>3. Cardinality(S \cup T) = Cardinality(S) + Cardinality(T) - Cardinality(S \cap T)
  BY <1>1, FS_Union
<1>4. Cardinality(S \cap T) = 0
  BY FS_EmptySet
<1>. QED
  BY <1>2, <1>3, <1>4

\* A key more is a member more.
LEMMA OneMoreKey ==
  ASSUME NEW S \in SUBSET Keys, NEW k \in Keys, k \notin S
  PROVE  Cardinality(S \cup {k}) = Cardinality(S) + 1 /\ Cardinality(S) \in Nat
<1>1. Cardinality({k}) = 1
  BY FS_Singleton
<1>2. {k} \in SUBSET Keys /\ S \cap {k} = {}
  OBVIOUS
<1>. QED
  BY <1>1, <1>2, Together

\* The smallest of some keys, or the number that is larger than all.
LEMMA LeastKey ==
  ASSUME NEW S \in SUBSET Keys
  PROVE  Least(S) \in Nat /\ \A k \in S : Least(S) <= k
<1>1. S \in SUBSET Nat /\ MaxIndex \in Nat
  BY KeysAre
<1>. QED
  BY <1>1, LeastIs

\* A larger index is not in a smaller word.
LEMMA WordsInOrder ==
  ASSUME NEW i \in Nat, NEW j \in Nat, i <= j, NEW w \in Nat, Word(j) < w
  PROVE  Word(i) < w
<1>1. WordBits \in Nat
  BY TableAssumption
<1>2. w * WordBits \in Nat
  BY <1>1
<1>. DEFINE b == w * WordBits
<1>3. (Word(j) < w <=> j < b) /\ (Word(i) < w <=> i < b)
  BY WordBelow
<1>. HIDE DEF b
<1>4. b \in Nat
  BY <1>2 DEF b
<1>. QED
  BY <1>3, <1>4

\* A lookup goes to the half that has the key (KeySet::contains).
LEMMA LookupFinds ==
  ASSUME NEW s, KeyHalves(s), NEW k \in Keys
  PROVE  KeySetContains(s, k) <=> k \in Members(s)
<1>1. Word(k) \in Nat /\ s.words \in Nat
  BY KeysAre DEF KeyHalves
<1>. QED
  BY <1>1 DEF KeyHalves, KeySetContains, Members

\* The budget is one for the entries, and more entries have no smaller one
\* (table_budget).
LEMMA BudgetInOrder ==
  ASSUME NEW n \in Nat, NEW m \in Nat, n <= m
  PROVE  /\ TableBudget(n) \in Nat /\ TableBudget(m) \in Nat
         /\ TableBudget(n) <= TableBudget(m)
<1>. DEFINE e == SlotsPerEntry
            f == FreeSlots
            d == m - n
<1>1. e \in Nat /\ f \in Nat /\ d \in Nat /\ m = n + d
  BY TableAssumption
<1>2. TableBudget(n) = n * e + f /\ TableBudget(m) = m * e + f
  BY DEF TableBudget, e, f
<1>. HIDE DEF e, f, d
<1>3. n * e \in Nat /\ d * e \in Nat
  BY <1>1
<1>4. m * e = n * e + d * e
  BY <1>1
<1>. QED
  BY <1>1, <1>2, <1>3, <1>4

\* More entries account for more slots (table_budget).
LEMMA BudgetGrows ==
  ASSUME NEW n \in Nat
  PROVE  /\ TableBudget(n) \in Nat /\ TableBudget(n + 1) \in Nat
         /\ TableBudget(n) <= TableBudget(n + 1)
<1>1. n + 1 \in Nat /\ n <= n + 1
  OBVIOUS
<1>. QED
  BY <1>1, BudgetInOrder

\* A set without keys, new or cleared (KeySet::default, clear).
LEMMA EmptyIsKeySet ==
  /\ IsKeySet(EmptyKeySet) /\ Members(EmptyKeySet) = {}
  /\ \A s : IsKeySet(s) => IsKeySet(KeySetClear(s)) /\ Members(KeySetClear(s)) = {}
<1>1. Least({}) = MaxIndex /\ MaxIndex \in Nat /\ Cardinality({}) = 0
  BY LeastIs, KeysAre, FS_EmptySet
<1>2. IsKeySet(EmptyKeySet) /\ Members(EmptyKeySet) = {}
  <2>1. TableBudget(0) \in Nat
    BY BudgetGrows
  <2>2. KeyHalves(EmptyKeySet) /\ Members(EmptyKeySet) = {}
    BY <1>1 DEF KeyHalves, EmptyKeySet, Members
  <2>3. EmptyKeySet.words = 0 /\ EmptyKeySet.peak = 0
    BY DEF EmptyKeySet
  <2>. QED
    BY <2>1, <2>2, <2>3 DEF IsKeySet
<1>3. ASSUME NEW s, IsKeySet(s) PROVE IsKeySet(KeySetClear(s)) /\ Members(KeySetClear(s)) = {}
  <2>. DEFINE t == KeySetClear(s)
  <2>1. /\ t \in [kind : {"KeySet"}, words : Nat, bits : SUBSET Keys, hashed : SUBSET Keys,
                  minHashed : Nat, len : Nat, peak : Nat]
        /\ t.bits = {} /\ t.hashed = {} /\ t.minHashed = MaxIndex /\ t.len = 0
        /\ t.words = s.words /\ t.peak = s.peak /\ 2 * s.words <= TableBudget(s.peak)
    BY <1>1, <1>3 DEF IsKeySet, KeyHalves, KeySetClear
  <2>. HIDE DEF t
  <2>2. KeyHalves(t) /\ Members(t) = {}
    BY <1>1, <2>1 DEF KeyHalves, Members
  <2>3. IsKeySet(t)
    BY <2>1, <2>2 DEF IsKeySet
  <2>. QED
    BY <2>2, <2>3 DEF t
<1>. QED
  BY <1>2, <1>3

\* A longer table, and the keys it covers moved to it.
Lengthened(s, words) ==
  LET stay == {h \in s.hashed : Word(h) >= words} IN
  [s EXCEPT !.words = words, !.bits = @ \cup (s.hashed \ stay),
            !.hashed = stay, !.minHashed = Least(stay)]

\* A table made longer takes over the keys it covers now, and no others
\* (KeySet::grow_for).
LEMMA LongerKeySet ==
  ASSUME NEW s, KeyHalves(s), NEW words \in Nat, s.words <= words
  PROVE  /\ KeyHalves(Lengthened(s, words)) /\ Members(Lengthened(s, words)) = Members(s)
         /\ Lengthened(s, words).words = words
         /\ Lengthened(s, words).len = s.len /\ Lengthened(s, words).peak = s.peak
<1>. DEFINE stay == {h \in s.hashed : Word(h) >= words}
            moved == s.hashed \ stay
            t == [s EXCEPT !.words = words, !.bits = @ \cup moved,
                           !.hashed = stay, !.minHashed = Least(stay)]
<1>0. t = Lengthened(s, words)
  BY DEF Lengthened
<1>1. /\ s \in [kind : {"KeySet"}, words : Nat, bits : SUBSET Keys, hashed : SUBSET Keys,
                minHashed : Nat, len : Nat, peak : Nat]
      /\ s.words \in Nat /\ s.bits \in SUBSET Keys /\ s.hashed \in SUBSET Keys /\ s.len \in Nat
      /\ s.peak \in Nat /\ s.len <= s.peak
  BY DEF KeyHalves
<1>2. \A k \in Keys : Word(k) \in Nat
  BY KeysAre
<1>3. stay \in SUBSET Keys /\ moved \in SUBSET Keys /\ stay \cap moved = {}
      /\ stay \cup moved = s.hashed
  BY <1>1
<1>4. s.bits \cap moved = {}
  BY <1>1, <1>2 DEF KeyHalves
<1>5. /\ Cardinality(s.hashed) = Cardinality(stay) + Cardinality(moved)
      /\ Cardinality(s.bits \cup moved) = Cardinality(s.bits) + Cardinality(moved)
      /\ Cardinality(stay) \in Nat /\ Cardinality(moved) \in Nat /\ Cardinality(s.bits) \in Nat
  BY <1>1, <1>3, <1>4, Together
<1>6. \A k \in s.bits \cup moved : Word(k) < words
  BY <1>1, <1>2 DEF KeyHalves
<1>7. \A k \in stay : Word(k) >= words
  OBVIOUS
<1>8. Least(stay) \in Nat
  BY <1>3, LeastKey
<1>. HIDE DEF stay, moved
<1>9. /\ t \in [kind : {"KeySet"}, words : Nat, bits : SUBSET Keys, hashed : SUBSET Keys,
                minHashed : Nat, len : Nat, peak : Nat]
      /\ t.words = words /\ t.bits = s.bits \cup moved /\ t.hashed = stay
      /\ t.minHashed = Least(stay) /\ t.len = s.len /\ t.peak = s.peak
  BY <1>1, <1>3, <1>8
<1>. HIDE DEF t
<1>10. t.len = Cardinality(t.bits) + Cardinality(t.hashed)
  BY <1>5, <1>9 DEF KeyHalves
<1>11. KeyHalves(t)
  BY <1>1, <1>6, <1>7, <1>9, <1>10 DEF KeyHalves
<1>12. Members(t) = Members(s)
  BY <1>3, <1>9 DEF Members
<1>. QED
  BY <1>0, <1>9, <1>11, <1>12

\* Growing changes where keys are kept, and not which (KeySet::grow_for).
LEMMA GrowingKeySet ==
  ASSUME NEW s, IsKeySet(s), NEW k \in Keys, Word(k) >= s.words
  PROVE  /\ KeyHalves(KeySetGrowFor(s, k)) /\ Members(KeySetGrowFor(s, k)) = Members(s)
         /\ KeySetGrowFor(s, k).len = s.len /\ KeySetGrowFor(s, k).peak = s.peak
         /\ 2 * KeySetGrowFor(s, k).words <= TableBudget(Larger(s.peak, s.len + 1))
<1>. DEFINE budget == TableBudget(s.len + 1) \div 2
            words == Smaller(Larger(Word(k) + 1, 2 * s.words), budget)
            stay == {h \in s.hashed : Word(h) >= words}
            grown == KeySetGrowFor(s, k)
<1>1. grown = IF Word(k) >= budget THEN s
              ELSE IF Word(s.minHashed) >= words THEN [s EXCEPT !.words = words]
              ELSE Lengthened(s, words)
  BY DEF KeySetGrowFor, Lengthened
<1>2. /\ s \in [kind : {"KeySet"}, words : Nat, bits : SUBSET Keys, hashed : SUBSET Keys,
                minHashed : Nat, len : Nat, peak : Nat]
      /\ s.words \in Nat /\ s.len \in Nat /\ s.hashed \in SUBSET Keys
      /\ s.minHashed \in Nat /\ s.minHashed = Least(s.hashed)
      /\ s.peak \in Nat /\ 2 * s.words <= TableBudget(s.peak) /\ KeyHalves(s)
  BY DEF IsKeySet, KeyHalves
<1>3. Word(k) \in Nat /\ k \in Nat
  BY KeysAre
<1>. DEFINE most == TableBudget(Larger(s.peak, s.len + 1))
<1>4. most \in Nat /\ TableBudget(s.peak) <= most /\ TableBudget(s.len + 1) <= most
      /\ TableBudget(s.len + 1) \in Nat /\ TableBudget(s.peak) \in Nat
  <2>1. Larger(s.peak, s.len + 1) \in Nat /\ s.len + 1 \in Nat
        /\ s.peak <= Larger(s.peak, s.len + 1) /\ s.len + 1 <= Larger(s.peak, s.len + 1)
    BY <1>2 DEF Larger
  <2>. QED
    BY <1>2, <2>1, BudgetInOrder
<1>4a. budget \in Nat /\ 2 * budget <= TableBudget(s.len + 1)
  BY <1>4
<1>4b. s.words \in Nat /\ 2 * s.words <= most
  BY <1>2, <1>4
<1>. HIDE DEF most
<1>. HIDE DEF budget, grown
<1>5. CASE Word(k) >= budget
  BY <1>1, <1>2, <1>4b, <1>5 DEF grown, most
<1>6. CASE ~(Word(k) >= budget)
  <2>1. words \in Nat /\ s.words <= words /\ Word(k) < words
    BY <1>2, <1>3, <1>4a, <1>6 DEF Smaller, Larger
  <2>1a. words <= budget
    BY <1>2, <1>3, <1>4a, <1>6 DEF Smaller, Larger
  <2>1b. 2 * words <= most
    BY <1>4, <1>4a, <2>1, <2>1a
  <2>. HIDE DEF words
  <2>2. CASE Word(s.minHashed) >= words
    <3>1. ASSUME NEW h \in s.hashed PROVE Word(h) >= words
      <4>1. h \in Nat /\ s.minHashed <= h
        BY <1>2, KeysAre, LeastKey
      <4>2. Word(h) \in Nat /\ Word(s.minHashed) \in Nat
        BY <1>2, <4>1, WordBelow
      <4>3. ~(Word(h) < words)
        BY <1>2, <2>1, <2>2, <4>1, <4>2, WordsInOrder
      <4>. QED
        BY <2>1, <4>2, <4>3
    <3>2. stay = s.hashed
      BY <3>1
    <3>3. Lengthened(s, words) = [s EXCEPT !.words = words]
      BY <1>2, <3>2 DEF Lengthened
    <3>4. grown = Lengthened(s, words)
      BY <1>1, <1>6, <2>2, <3>3
    <3>. QED
      BY <1>2, <2>1, <2>1b, <3>4, LongerKeySet DEF grown, most
  <2>3. CASE ~(Word(s.minHashed) >= words)
    <3>1. grown = Lengthened(s, words)
      BY <1>1, <1>6, <2>3
    <3>. QED
      BY <1>2, <2>1, <2>1b, <3>1, LongerKeySet DEF grown, most
  <2>. QED
    BY <2>2, <2>3
<1>. QED
  BY <1>5, <1>6

\* An insertion adds the key and says whether it was absent, wherever the
\* keys are by then (KeySet::insert).
LEMMA InsertedKey ==
  ASSUME NEW s, IsKeySet(s), NEW k \in Keys
  PROVE  /\ IsKeySet(KeySetInsert(s, k).set)
         /\ Members(KeySetInsert(s, k).set) = Members(s) \cup {k}
         /\ KeySetInsert(s, k).fresh <=> k \notin Members(s)
<1>. DEFINE room == IF Word(k) >= s.words /\ k \notin s.hashed THEN KeySetGrowFor(s, k) ELSE s
            fresh == ~KeySetContains(room, k)
            tabled == [room EXCEPT !.bits = @ \cup {k}]
            kept == [room EXCEPT !.hashed = @ \cup {k}, !.minHashed = Smaller(@, k)]
            with == IF Word(k) < room.words THEN tabled ELSE kept
            counted == IF fresh THEN [with EXCEPT !.len = @ + 1, !.peak = Larger(@, with.len + 1)]
                       ELSE with
            inserted == KeySetInsert(s, k)
<1>1. inserted.set = counted /\ inserted.fresh = fresh
  BY DEF KeySetInsert
<1>0. /\ KeyHalves(s) /\ s.len \in Nat /\ s.peak \in Nat /\ s.words \in Nat
      /\ 2 * s.words <= TableBudget(s.peak)
  BY DEF IsKeySet, KeyHalves
<1>2. KeyHalves(room) /\ Members(room) = Members(s) /\ room.len = s.len /\ room.peak = s.peak
  BY <1>0, GrowingKeySet
<1>2a. fresh => 2 * room.words <= TableBudget(Larger(s.peak, s.len + 1))
  <2>1. CASE Word(k) >= s.words /\ k \notin s.hashed
    BY <2>1, GrowingKeySet
  <2>2. CASE ~(Word(k) >= s.words /\ k \notin s.hashed)
    <3>1. Larger(s.peak, s.len + 1) \in Nat /\ s.peak <= Larger(s.peak, s.len + 1)
      BY <1>0 DEF Larger
    <3>2. TableBudget(s.peak) \in Nat /\ TableBudget(Larger(s.peak, s.len + 1)) \in Nat
          /\ TableBudget(s.peak) <= TableBudget(Larger(s.peak, s.len + 1))
      BY <1>0, <3>1, BudgetInOrder
    <3>. HIDE DEF room
    <3>3. room.words = s.words
      BY <2>2 DEF room
    <3>. QED
      BY <1>0, <3>2, <3>3
  <2>. QED
    BY <2>1, <2>2
<1>2b. ~fresh => 2 * room.words <= TableBudget(s.peak)
  <2>. SUFFICES ASSUME ~fresh PROVE 2 * room.words <= TableBudget(s.peak)
    OBVIOUS
  <2>1. k \in Members(s)
    BY <1>2, LookupFinds
  <2>2. ~(Word(k) >= s.words /\ k \notin s.hashed)
    <3>1. Word(k) \in Nat
      BY KeysAre
    <3>. QED
      BY <1>0, <2>1, <3>1 DEF KeyHalves, Members
  <2>. QED
    BY <1>0, <2>2
<1>. HIDE DEF room, inserted
<1>3. /\ room \in [kind : {"KeySet"}, words : Nat, bits : SUBSET Keys, hashed : SUBSET Keys,
                   minHashed : Nat, len : Nat, peak : Nat]
      /\ room.words \in Nat /\ room.len \in Nat /\ room.minHashed \in Nat
      /\ room.peak \in Nat /\ room.len <= room.peak
      /\ room.bits \in SUBSET Keys /\ room.hashed \in SUBSET Keys
      /\ room.minHashed = Least(room.hashed)
      /\ room.len = Cardinality(room.bits) + Cardinality(room.hashed)
      /\ \A h \in room.bits : Word(h) < room.words
      /\ \A h \in room.hashed : Word(h) >= room.words
  BY <1>2 DEF KeyHalves
<1>4. Word(k) \in Nat /\ k \in Nat
  BY KeysAre
<1>5. fresh <=> k \notin Members(s)
  BY <1>2, LookupFinds
<1>6. k \notin Members(s) <=> k \notin room.bits /\ k \notin room.hashed
  BY <1>2 DEF Members
<1>. HIDE DEF fresh
<1>7. CASE Word(k) < room.words
  <2>. DEFINE more == room.bits \cup {k}
  <2>1. /\ with \in [kind : {"KeySet"}, words : Nat, bits : SUBSET Keys, hashed : SUBSET Keys,
                     minHashed : Nat, len : Nat, peak : Nat]
        /\ with.words = room.words /\ with.bits = more /\ with.hashed = room.hashed
        /\ with.minHashed = room.minHashed /\ with.len = room.len
        /\ with.peak = room.peak
    BY <1>3, <1>7
  <2>. HIDE DEF with
  <2>2. k \notin room.hashed
    BY <1>3, <1>4, <1>7
  <2>3. Cardinality(more) = (IF fresh THEN Cardinality(room.bits) + 1 ELSE Cardinality(room.bits))
    <3>1. CASE fresh
      BY <1>3, <1>5, <1>6, <3>1, OneMoreKey
    <3>2. CASE ~fresh
      <4>1. more = room.bits
        BY <1>5, <1>6, <2>2, <3>2
      <4>. QED
        BY <3>2, <4>1
    <3>. QED
      BY <3>1, <3>2
  <2>4. Cardinality(room.bits) \in Nat /\ Cardinality(room.hashed) \in Nat
    BY <1>3, KeysAre, FS_Subset, FS_CardinalityType
  <2>5. \A h \in more : Word(h) < room.words
    BY <1>3, <1>7
  <2>. DEFINE len == IF fresh THEN room.len + 1 ELSE room.len
              peak == IF fresh THEN Larger(room.peak, room.len + 1) ELSE room.peak
  <2>5a. peak \in Nat /\ len \in Nat /\ len <= peak
    BY <1>3 DEF Larger
  <2>6. /\ counted \in [kind : {"KeySet"}, words : Nat, bits : SUBSET Keys, hashed : SUBSET Keys,
                        minHashed : Nat, len : Nat, peak : Nat]
        /\ counted.words = room.words /\ counted.bits = more /\ counted.hashed = room.hashed
        /\ counted.minHashed = room.minHashed /\ counted.len = len
        /\ counted.peak = peak
    BY <1>3, <2>1, <2>5a
  <2>7. len = Cardinality(more) + Cardinality(room.hashed)
    BY <1>3, <2>3, <2>4
  <2>7a. 2 * room.words <= TableBudget(peak)
    BY <1>2, <1>2a, <1>2b
  <2>. HIDE DEF counted, len, peak
  <2>8. IsKeySet(counted)
    BY <1>3, <2>5, <2>5a, <2>6, <2>7, <2>7a DEF IsKeySet, KeyHalves
  <2>9. Members(counted) = Members(s) \cup {k}
    BY <1>2, <2>6 DEF Members
  <2>. QED
    BY <1>1, <1>5, <2>8, <2>9 DEF inserted
<1>8. CASE ~(Word(k) < room.words)
  <2>. DEFINE more == room.hashed \cup {k}
  <2>0. Smaller(room.minHashed, k) = Least(more) /\ Least(more) \in Nat
    <3>1. more \in SUBSET Keys
      BY <1>3
    <3>. QED
      BY <1>3, <3>1, LeastWithOneMore, LeastKey
  <2>1. /\ with \in [kind : {"KeySet"}, words : Nat, bits : SUBSET Keys, hashed : SUBSET Keys,
                     minHashed : Nat, len : Nat, peak : Nat]
        /\ with.words = room.words /\ with.bits = room.bits /\ with.hashed = more
        /\ with.minHashed = Least(more) /\ with.len = room.len
        /\ with.peak = room.peak
    BY <1>3, <1>8, <2>0
  <2>. HIDE DEF with
  <2>2. k \notin room.bits
    BY <1>3, <1>8
  <2>3. Cardinality(more) = (IF fresh THEN Cardinality(room.hashed) + 1 ELSE Cardinality(room.hashed))
    <3>1. CASE fresh
      BY <1>3, <1>5, <1>6, <3>1, OneMoreKey
    <3>2. CASE ~fresh
      <4>1. more = room.hashed
        BY <1>5, <1>6, <2>2, <3>2
      <4>. QED
        BY <3>2, <4>1
    <3>. QED
      BY <3>1, <3>2
  <2>4. Cardinality(room.bits) \in Nat /\ Cardinality(room.hashed) \in Nat
    BY <1>3, KeysAre, FS_Subset, FS_CardinalityType
  <2>5. \A h \in more : Word(h) >= room.words
    BY <1>3, <1>4, <1>8
  <2>. DEFINE len == IF fresh THEN room.len + 1 ELSE room.len
              peak == IF fresh THEN Larger(room.peak, room.len + 1) ELSE room.peak
  <2>5a. peak \in Nat /\ len \in Nat /\ len <= peak
    BY <1>3 DEF Larger
  <2>6. /\ counted \in [kind : {"KeySet"}, words : Nat, bits : SUBSET Keys, hashed : SUBSET Keys,
                        minHashed : Nat, len : Nat, peak : Nat]
        /\ counted.words = room.words /\ counted.bits = room.bits /\ counted.hashed = more
        /\ counted.minHashed = Least(more) /\ counted.len = len
        /\ counted.peak = peak
    BY <1>3, <2>1, <2>5a
  <2>7. len = Cardinality(room.bits) + Cardinality(more)
    BY <1>3, <2>3, <2>4
  <2>7a. 2 * room.words <= TableBudget(peak)
    BY <1>2, <1>2a, <1>2b
  <2>. HIDE DEF counted, len, peak
  <2>8. IsKeySet(counted)
    BY <1>3, <2>5, <2>5a, <2>6, <2>7, <2>7a DEF IsKeySet, KeyHalves
  <2>9. Members(counted) = Members(s) \cup {k}
    BY <1>2, <2>6 DEF Members
  <2>. QED
    BY <1>1, <1>5, <2>8, <2>9 DEF inserted
<1>. QED
  BY <1>7, <1>8

-----------------------------------------------------------------------------
(* PairSet: channels per key. *)

\* Maps from some of the keys to channels, none without any.
ListedChannels == UNION {[S -> (SUBSET Channels) \ {{}}] : S \in SUBSET Keys}

\* What such a map is.
LEMMA ChannelsListedAre ==
  ASSUME NEW f
  PROVE  f \in ListedChannels <=> /\ DOMAIN f \in SUBSET Keys
                                  /\ f \in [DOMAIN f -> (SUBSET Channels) \ {{}}]
  BY DEF ListedChannels

\* The keys with channels in the table.
Tabled(s) == {k \in Keys : s.table[k] # {}}

\* A PairSet whose halves are sound, but for its budget.
PairHalves(s) ==
  /\ s \in [kind : {"PairSet"}, slots : Nat, table : [Keys -> SUBSET Channels],
            hashed : ListedChannels, minHashed : Nat, keys : Nat]
  /\ \A k \in Tabled(s) : k < s.slots
  /\ \A k \in DOMAIN s.hashed : k >= s.slots
  /\ s.minHashed = Least(DOMAIN s.hashed)
  /\ s.keys = Cardinality(Tabled(s)) + Cardinality(DOMAIN s.hashed)

IsPairSet(s) == PairHalves(s) /\ s.slots <= TableBudget(s.keys)

\* Where a key's channels are (PairSet::contains).
LEMMA ChannelsOf ==
  ASSUME NEW s, PairHalves(s), NEW k \in Keys
  PROVE  /\ ChannelsFound(s, k) = IF k \in DOMAIN s.hashed THEN s.hashed[k] ELSE s.table[k]
         /\ ChannelsFound(s, k) \in SUBSET Channels
         /\ ChannelsFound(s, k) = {} <=> k \notin Tabled(s) /\ k \notin DOMAIN s.hashed
<1>1. k \in Nat /\ s.slots \in Nat
  BY KeysAre DEF PairHalves
<1>2. k \in DOMAIN s.hashed => ~(k < s.slots)
  BY <1>1 DEF PairHalves
<1>3. ~(k < s.slots) => s.table[k] = {}
  BY DEF PairHalves, Tabled
<1>4. ChannelsFound(s, k) = IF k \in DOMAIN s.hashed THEN s.hashed[k] ELSE s.table[k]
  BY <1>2, <1>3 DEF ChannelsFound
<1>5. k \in DOMAIN s.hashed => s.hashed[k] \in SUBSET Channels /\ s.hashed[k] # {}
  <2>1. s.hashed \in ListedChannels
    BY DEF PairHalves
  <2>2. s.hashed \in [DOMAIN s.hashed -> (SUBSET Channels) \ {{}}]
    BY <2>1, ChannelsListedAre
  <2>. QED
    BY <2>2
<1>6. s.table[k] \in SUBSET Channels /\ (k \in Tabled(s) <=> s.table[k] # {})
  BY DEF PairHalves, Tabled
<1>7. k \in DOMAIN s.hashed => k \notin Tabled(s)
  BY <1>2 DEF PairHalves
<1>. QED
  BY <1>4, <1>5, <1>6, <1>7

\* A new PairSet holds nothing (PairSet::default).
LEMMA EmptyIsPairSet ==
  IsPairSet(EmptyPairSet)
<1>. DEFINE s == EmptyPairSet
<1>1. /\ s = [kind |-> "PairSet", slots |-> 0, table |-> [k \in Keys |-> {}],
              hashed |-> [k \in {} |-> {}], minHashed |-> MaxIndex, keys |-> 0]
      /\ Tabled(s) = {} /\ DOMAIN s.hashed = {}
  BY DEF EmptyPairSet, Tabled
<1>. HIDE DEF s
<1>2. Least({}) = MaxIndex /\ Cardinality({}) = 0
  BY LeastIs, FS_EmptySet
<1>3. TableBudget(0) \in Nat
  BY BudgetGrows
<1>4. s.hashed \in ListedChannels
  <2>1. DOMAIN s.hashed \in SUBSET Keys /\ s.hashed \in [DOMAIN s.hashed -> (SUBSET Channels) \ {{}}]
    BY <1>1
  <2>. QED
    BY <2>1, ChannelsListedAre
<1>5. s.slots = 0 /\ s.minHashed = MaxIndex /\ s.keys = 0
  BY <1>1
<1>6. s \in [kind : {"PairSet"}, slots : Nat, table : [Keys -> SUBSET Channels],
            hashed : ListedChannels, minHashed : Nat, keys : Nat]
  <2>1. MaxIndex \in Nat /\ [k \in Keys |-> {}] \in [Keys -> SUBSET Channels]
    BY KeysAre
  <2>. QED
    BY <1>1, <1>4, <2>1
<1>7. PairHalves(s)
  <2>1. Tabled(s) = {} /\ DOMAIN s.hashed = {}
    BY <1>1
  <2>2. s.keys = Cardinality(Tabled(s)) + Cardinality(DOMAIN s.hashed)
    BY <1>2, <1>5, <2>1
  <2>. QED
    BY <1>2, <1>5, <1>6, <2>1, <2>2 DEF PairHalves
<1>. QED
  BY <1>3, <1>5, <1>7 DEF IsPairSet, s

\* A longer table, and the keys it covers moved to it.
PairsLengthened(s, slots) ==
  LET stay == {h \in DOMAIN s.hashed : h >= slots} IN
  [s EXCEPT !.slots = slots,
            !.table = [h \in Keys |-> IF h \in (DOMAIN s.hashed) \ stay
                                      THEN s.hashed[h] ELSE s.table[h]],
            !.hashed = [h \in stay |-> s.hashed[h]],
            !.minHashed = Least(stay)]

\* A table made longer takes over the keys it covers now, each with its
\* channels, and no others (PairSet::grow_for).
LEMMA LongerPairSet ==
  ASSUME NEW s, PairHalves(s), NEW slots \in Nat, s.slots <= slots
  PROVE  /\ PairHalves(PairsLengthened(s, slots))
         /\ PairsLengthened(s, slots).slots = slots
         /\ PairsLengthened(s, slots).keys = s.keys
         /\ \A k \in Keys : ChannelsFound(PairsLengthened(s, slots), k) = ChannelsFound(s, k)
<1>. DEFINE stay == {h \in DOMAIN s.hashed : h >= slots}
            moved == (DOMAIN s.hashed) \ stay
            tab == [h \in Keys |-> IF h \in moved THEN s.hashed[h] ELSE s.table[h]]
            hash == [h \in stay |-> s.hashed[h]]
            t == PairsLengthened(s, slots)
<1>0. /\ s \in [kind : {"PairSet"}, slots : Nat, table : [Keys -> SUBSET Channels],
                hashed : ListedChannels, minHashed : Nat, keys : Nat]
      /\ s.slots \in Nat /\ s.keys \in Nat
      /\ s.table \in [Keys -> SUBSET Channels]
      /\ s.hashed \in ListedChannels
      /\ s.keys = Cardinality(Tabled(s)) + Cardinality(DOMAIN s.hashed)
  BY DEF PairHalves
<1>1. /\ s.slots \in Nat /\ s.keys \in Nat
      /\ s.table \in [Keys -> SUBSET Channels]
      /\ DOMAIN s.hashed \in SUBSET Keys
      /\ s.hashed \in [DOMAIN s.hashed -> (SUBSET Channels) \ {{}}]
      /\ s.keys = Cardinality(Tabled(s)) + Cardinality(DOMAIN s.hashed)
  BY <1>0, ChannelsListedAre
<1>2. Keys \subseteq Nat
  BY KeysAre
<1>3. stay \in SUBSET Keys /\ moved \in SUBSET Keys /\ stay \cap moved = {}
      /\ stay \cup moved = DOMAIN s.hashed /\ Tabled(s) \in SUBSET Keys
  BY <1>1 DEF Tabled
<1>4. Tabled(s) \cap moved = {}
  BY <1>1, <1>2, <1>3 DEF PairHalves
<1>5. /\ tab \in [Keys -> SUBSET Channels]
      /\ \A k \in Keys : tab[k] = IF k \in moved THEN s.hashed[k] ELSE s.table[k]
  BY <1>1
<1>6. /\ DOMAIN hash = stay /\ hash \in [stay -> (SUBSET Channels) \ {{}}]
      /\ \A k \in stay : hash[k] = s.hashed[k]
  BY <1>1
<1>7. /\ t \in [kind : {"PairSet"}, slots : Nat, table : [Keys -> SUBSET Channels],
                hashed : ListedChannels, minHashed : Nat, keys : Nat]
      /\ t.slots = slots /\ t.table = tab /\ t.hashed = hash /\ t.minHashed = Least(stay)
      /\ t.keys = s.keys
  <2>1. t = [s EXCEPT !.slots = slots, !.table = tab, !.hashed = hash, !.minHashed = Least(stay)]
    BY DEF PairsLengthened
  <2>2. hash \in ListedChannels
    BY <1>3, <1>6, ChannelsListedAre
  <2>3. Least(stay) \in Nat
    BY <1>3, LeastKey
  <2>. HIDE DEF t, tab, hash, stay
  <2>. QED
    BY <1>0, <1>5, <2>1, <2>2, <2>3
<1>8. \A k \in stay : k >= slots
  OBVIOUS
<1>9. ASSUME NEW k \in moved PROVE k < slots
  <2>1. k \in DOMAIN s.hashed /\ ~(k >= slots) /\ k \in Nat
    BY <1>1, <1>2
  <2>. QED
    BY <2>1
<1>. HIDE DEF t, tab, hash, stay, moved
<1>10. Tabled(t) = Tabled(s) \cup moved
  <2>1. \A k \in moved : s.hashed[k] # {}
    BY <1>1, <1>3
  <2>. QED
    BY <1>3, <1>5, <1>7, <2>1 DEF Tabled
<1>11. t.keys = Cardinality(Tabled(t)) + Cardinality(DOMAIN t.hashed)
  <2>1. /\ Cardinality(DOMAIN s.hashed) = Cardinality(stay) + Cardinality(moved)
        /\ Cardinality(Tabled(t)) = Cardinality(Tabled(s)) + Cardinality(moved)
        /\ Cardinality(stay) \in Nat /\ Cardinality(moved) \in Nat /\ Cardinality(Tabled(s)) \in Nat
    BY <1>3, <1>4, <1>10, Together
  <2>. QED
    BY <1>1, <1>6, <1>7, <2>1
<1>12. \A k \in Tabled(t) : k < slots
  BY <1>1, <1>2, <1>3, <1>9, <1>10 DEF PairHalves
<1>13. PairHalves(t)
  BY <1>1, <1>3, <1>5, <1>6, <1>7, <1>8, <1>11, <1>12 DEF PairHalves
<1>14. ASSUME NEW k \in Keys PROVE ChannelsFound(t, k) = ChannelsFound(s, k)
  <2>1. ChannelsFound(t, k) = IF k \in stay THEN s.hashed[k] ELSE tab[k]
    BY <1>6, <1>7, <1>13, ChannelsOf
  <2>2. ChannelsFound(s, k) = IF k \in DOMAIN s.hashed THEN s.hashed[k] ELSE s.table[k]
    BY ChannelsOf
  <2>. QED
    BY <1>3, <1>5, <2>1, <2>2
<1>. QED
  BY <1>7, <1>13, <1>14 DEF t

\* Growing changes where keys are kept, and not what is found for them; and it
\* keeps to the budget of one entry more (PairSet::grow_for).
LEMMA GrowingPairSet ==
  ASSUME NEW s, IsPairSet(s), NEW k \in Keys, k >= s.slots
  PROVE  /\ PairHalves(PairSetGrowFor(s, k))
         /\ PairSetGrowFor(s, k).keys = s.keys
         /\ PairSetGrowFor(s, k).slots <= TableBudget(s.keys + 1)
         /\ \A h \in Keys : ChannelsFound(PairSetGrowFor(s, k), h) = ChannelsFound(s, h)
<1>. DEFINE budget == TableBudget(s.keys + 1)
            slots == Smaller(Larger(k + 1, 2 * s.slots), budget)
            stay == {h \in DOMAIN s.hashed : h >= slots}
            grown == PairSetGrowFor(s, k)
<1>1. grown = IF k >= budget THEN s
              ELSE IF s.minHashed >= slots THEN [s EXCEPT !.slots = slots]
              ELSE PairsLengthened(s, slots)
  BY DEF PairSetGrowFor, PairsLengthened
<1>2. /\ s \in [kind : {"PairSet"}, slots : Nat, table : [Keys -> SUBSET Channels],
                hashed : ListedChannels, minHashed : Nat, keys : Nat]
      /\ s.slots \in Nat /\ s.keys \in Nat /\ s.hashed \in ListedChannels
      /\ s.table \in [Keys -> SUBSET Channels]
      /\ s.minHashed = Least(DOMAIN s.hashed) /\ s.slots <= TableBudget(s.keys)
      /\ PairHalves(s)
  BY DEF IsPairSet, PairHalves
<1>3. DOMAIN s.hashed \in SUBSET Keys /\ s.hashed \in [DOMAIN s.hashed -> (SUBSET Channels) \ {{}}]
  BY <1>2, ChannelsListedAre
<1>4. k \in Nat /\ Keys \subseteq Nat
  BY KeysAre
<1>5. budget \in Nat /\ s.slots <= budget
  <2>1. TableBudget(s.keys) \in Nat /\ budget \in Nat /\ TableBudget(s.keys) <= budget
    BY <1>2, BudgetGrows
  <2>. HIDE DEF budget
  <2>. QED
    BY <1>2, <2>1
<1>. HIDE DEF budget, grown
<1>6. CASE k >= budget
  <2>1. grown = s
    BY <1>1, <1>6
  <2>. QED
    BY <1>2, <1>5, <2>1 DEF grown, budget
<1>7. CASE ~(k >= budget)
  <2>1. slots \in Nat /\ s.slots <= slots /\ slots <= budget
    BY <1>2, <1>4, <1>5, <1>7 DEF Smaller, Larger
  <2>. HIDE DEF slots
  <2>2. grown = PairsLengthened(s, slots)
    <3>1. CASE s.minHashed >= slots
      <4>1. ASSUME NEW h \in DOMAIN s.hashed PROVE h >= slots
        <5>1. s.minHashed <= h /\ s.minHashed \in Nat /\ h \in Nat
          BY <1>2, <1>3, <1>4, LeastKey
        <5>. QED
          BY <2>1, <3>1, <5>1
      <4>2. stay = DOMAIN s.hashed
        BY <4>1
      <4>. DEFINE tab == [h \in Keys |-> IF h \in (DOMAIN s.hashed) \ stay
                                         THEN s.hashed[h] ELSE s.table[h]]
                  hash == [h \in stay |-> s.hashed[h]]
      <4>3. tab = s.table /\ hash = s.hashed /\ Least(stay) = s.minHashed
        BY <1>2, <1>3, <4>2
      <4>4. PairsLengthened(s, slots) = [s EXCEPT !.slots = slots, !.table = tab,
                                                  !.hashed = hash, !.minHashed = Least(stay)]
        BY DEF PairsLengthened
      <4>. HIDE DEF tab, hash, stay
      <4>5. PairsLengthened(s, slots) = [s EXCEPT !.slots = slots]
        BY <1>2, <4>3, <4>4
      <4>. QED
        BY <1>1, <1>7, <3>1, <4>5
    <3>2. CASE ~(s.minHashed >= slots)
      BY <1>1, <1>7, <3>2
    <3>. QED
      BY <3>1, <3>2
  <2>. QED
    BY <1>2, <2>1, <2>2, LongerPairSet DEF grown, budget
<1>. QED
  BY <1>6, <1>7

\* An insertion adds the pair, says whether it was absent, and leaves what is
\* found for other keys as it is (PairSet::insert).
LEMMA InsertedPair ==
  ASSUME NEW s, IsPairSet(s), NEW k \in Keys, NEW c \in Channels
  PROVE  /\ IsPairSet(PairSetInsert(s, k, c).set)
         /\ PairSetInsert(s, k, c).fresh <=> c \notin ChannelsFound(s, k)
         /\ ChannelsFound(PairSetInsert(s, k, c).set, k) = ChannelsFound(s, k) \cup {c}
         /\ \A h \in Keys \ {k} :
              ChannelsFound(PairSetInsert(s, k, c).set, h) = ChannelsFound(s, h)
<1>. DEFINE grows == k >= s.slots /\ k \notin DOMAIN s.hashed
            room == IF grows THEN PairSetGrowFor(s, k) ELSE s
            found == ChannelsFound(room, k)
            more == found \cup {c}
            tab == [room.table EXCEPT ![k] = more]
            hash == [h \in DOMAIN room.hashed \cup {k} |-> IF h = k THEN more ELSE room.hashed[h]]
            min == Smaller(room.minHashed, k)
            total == IF found = {} THEN room.keys + 1 ELSE room.keys
            inTable == k < room.slots
            with == IF inTable THEN [room EXCEPT !.table[k] = more]
                    ELSE [room EXCEPT !.minHashed = min, !.hashed = hash]
            counted == IF found = {} THEN [with EXCEPT !.keys = @ + 1] ELSE with
            inserted == PairSetInsert(s, k, c)
<1>1. inserted.set = counted /\ inserted.fresh = (c \notin found)
  BY DEF PairSetInsert
<1>2. s.keys \in Nat /\ PairHalves(s) /\ s.slots \in Nat /\ s.slots <= TableBudget(s.keys)
  BY DEF IsPairSet, PairHalves
<1>3. TableBudget(s.keys) \in Nat /\ TableBudget(s.keys + 1) \in Nat
      /\ TableBudget(s.keys) <= TableBudget(s.keys + 1)
  BY <1>2, BudgetGrows
<1>4. /\ PairHalves(room) /\ room.keys = s.keys
      /\ room.slots <= TableBudget(IF found = {} THEN s.keys + 1 ELSE s.keys)
      /\ \A h \in Keys : ChannelsFound(room, h) = ChannelsFound(s, h)
  <2>1. CASE grows
    <3>1. /\ PairHalves(room) /\ room.keys = s.keys /\ room.slots <= TableBudget(s.keys + 1)
          /\ \A h \in Keys : ChannelsFound(room, h) = ChannelsFound(s, h)
      BY <2>1, GrowingPairSet
    <3>2. k \notin Tabled(s)
      <4>1. k \in Nat
        BY KeysAre
      <4>. QED
        BY <1>2, <2>1, <4>1 DEF PairHalves
    <3>3. ChannelsFound(s, k) = {}
      BY <1>2, <2>1, <3>2, ChannelsOf
    <3>4. found = {}
      BY <3>1, <3>3
    <3>. HIDE DEF room, found
    <3>. QED
      BY <3>1, <3>4
  <2>2. CASE ~grows
    <3>1. room = s
      BY <2>2
    <3>. HIDE DEF room, found
    <3>2. room.slots <= TableBudget(IF found = {} THEN s.keys + 1 ELSE s.keys)
      <4>1. CASE found = {}
        BY <1>2, <1>3, <3>1, <4>1
      <4>2. CASE found # {}
        BY <1>2, <3>1, <4>2
      <4>. QED
        BY <4>1, <4>2
    <3>. QED
      BY <1>2, <3>1, <3>2
  <2>. QED
    BY <2>1, <2>2
<1>. HIDE DEF room, inserted
<1>5. /\ room \in [kind : {"PairSet"}, slots : Nat, table : [Keys -> SUBSET Channels],
                   hashed : ListedChannels, minHashed : Nat, keys : Nat]
      /\ room.slots \in Nat /\ room.keys \in Nat /\ room.hashed \in ListedChannels
      /\ room.table \in [Keys -> SUBSET Channels] /\ room.minHashed \in Nat
      /\ room.minHashed = Least(DOMAIN room.hashed)
      /\ room.keys = Cardinality(Tabled(room)) + Cardinality(DOMAIN room.hashed)
      /\ \A h \in Tabled(room) : h < room.slots
      /\ \A h \in DOMAIN room.hashed : h >= room.slots
  BY <1>4 DEF PairHalves
<1>6. /\ DOMAIN room.hashed \in SUBSET Keys
      /\ room.hashed \in [DOMAIN room.hashed -> (SUBSET Channels) \ {{}}]
      /\ Tabled(room) \in SUBSET Keys
  BY <1>5, ChannelsListedAre DEF Tabled
<1>7. k \in Nat
  BY KeysAre
<1>8. found = ChannelsFound(s, k)
  BY <1>4
<1>9. /\ found \in SUBSET Channels
      /\ found = {} <=> k \notin Tabled(room) /\ k \notin DOMAIN room.hashed
  BY <1>4, ChannelsOf
<1>. HIDE DEF found
<1>10. more \in (SUBSET Channels) \ {{}}
  BY <1>9
<1>. HIDE DEF more
<1>11. total \in Nat /\ room.slots <= TableBudget(total)
  BY <1>4, <1>5
<1>12. Cardinality(Tabled(room)) \in Nat /\ Cardinality(DOMAIN room.hashed) \in Nat
  BY <1>6, KeysAre, FS_Subset, FS_CardinalityType
<1>13. CASE inTable
  <2>1. tab \in [Keys -> SUBSET Channels] /\ tab[k] = more /\ \A h \in Keys \ {k} : tab[h] = room.table[h]
    BY <1>5, <1>10
  <2>2. [room EXCEPT !.table[k] = more] = [room EXCEPT !.table = tab]
    BY <1>5
  <2>. HIDE DEF tab
  <2>3. /\ with \in [kind : {"PairSet"}, slots : Nat, table : [Keys -> SUBSET Channels],
                     hashed : ListedChannels, minHashed : Nat, keys : Nat]
        /\ with.slots = room.slots /\ with.table = tab /\ with.hashed = room.hashed
        /\ with.minHashed = room.minHashed /\ with.keys = room.keys
    BY <1>5, <1>13, <2>1, <2>2
  <2>. HIDE DEF with
  <2>4. /\ counted \in [kind : {"PairSet"}, slots : Nat, table : [Keys -> SUBSET Channels],
                        hashed : ListedChannels, minHashed : Nat, keys : Nat]
        /\ counted.slots = room.slots /\ counted.table = tab /\ counted.hashed = room.hashed
        /\ counted.minHashed = room.minHashed /\ counted.keys = total
    BY <1>5, <2>3
  <2>. HIDE DEF counted
  <2>5. Tabled(counted) = Tabled(room) \cup {k}
    BY <1>10, <2>1, <2>4 DEF Tabled
  <2>6. k \notin DOMAIN room.hashed
    BY <1>5, <1>7, <1>13
  <2>7. total = Cardinality(Tabled(counted)) + Cardinality(DOMAIN room.hashed)
    <3>1. CASE found = {}
      <4>1. Cardinality(Tabled(counted)) = Cardinality(Tabled(room)) + 1
        BY <1>6, <1>9, <2>5, <3>1, OneMoreKey
      <4>. QED
        BY <1>5, <1>12, <3>1, <4>1
    <3>2. CASE found # {}
      <4>1. Tabled(counted) = Tabled(room)
        BY <1>9, <2>5, <2>6, <3>2
      <4>. QED
        BY <1>5, <3>2, <4>1
    <3>. QED
      BY <3>1, <3>2
  <2>. HIDE DEF total
  <2>8. PairHalves(counted)
    BY <1>5, <1>13, <2>4, <2>5, <2>7 DEF PairHalves
  <2>9. IsPairSet(counted)
    BY <1>11, <2>4, <2>8 DEF IsPairSet
  <2>10. ASSUME NEW h \in Keys
         PROVE  ChannelsFound(counted, h) = IF h = k THEN more ELSE ChannelsFound(room, h)
    <3>1. /\ ChannelsFound(counted, h) = IF h \in DOMAIN counted.hashed
                                         THEN counted.hashed[h] ELSE counted.table[h]
          /\ ChannelsFound(room, h) = IF h \in DOMAIN room.hashed
                                      THEN room.hashed[h] ELSE room.table[h]
      BY <1>4, <2>8, ChannelsOf
    <3>. QED
      BY <2>1, <2>4, <2>6, <3>1
  <2>. QED
    BY <1>1, <1>4, <1>8, <2>9, <2>10 DEF more, inserted
<1>14. CASE ~inTable
  <2>1. hash \in ListedChannels /\ DOMAIN hash = DOMAIN room.hashed \cup {k}
        /\ hash[k] = more /\ \A h \in DOMAIN room.hashed \ {k} : hash[h] = room.hashed[h]
    <3>1. DOMAIN hash \in SUBSET Keys /\ hash \in [DOMAIN hash -> (SUBSET Channels) \ {{}}]
      BY <1>6, <1>10
    <3>2. hash \in ListedChannels
      BY <3>1, ChannelsListedAre
    <3>. QED
      BY <3>2
  <2>2. min = Least(DOMAIN hash) /\ min \in Nat
    <3>1. DOMAIN hash \in SUBSET Keys
      BY <1>6, <2>1
    <3>2. Least(DOMAIN hash) = Smaller(Least(DOMAIN room.hashed), k)
      BY <1>6, <2>1, LeastWithOneMore
    <3>. QED
      BY <1>5, <3>1, <3>2, LeastKey
  <2>. HIDE DEF hash, min
  <2>3. /\ with \in [kind : {"PairSet"}, slots : Nat, table : [Keys -> SUBSET Channels],
                     hashed : ListedChannels, minHashed : Nat, keys : Nat]
        /\ with.slots = room.slots /\ with.table = room.table /\ with.hashed = hash
        /\ with.minHashed = min /\ with.keys = room.keys
    BY <1>5, <1>14, <2>1, <2>2
  <2>. HIDE DEF with
  <2>4. /\ counted \in [kind : {"PairSet"}, slots : Nat, table : [Keys -> SUBSET Channels],
                        hashed : ListedChannels, minHashed : Nat, keys : Nat]
        /\ counted.slots = room.slots /\ counted.table = room.table /\ counted.hashed = hash
        /\ counted.minHashed = min /\ counted.keys = total
    BY <1>5, <2>3
  <2>. HIDE DEF counted
  <2>5. Tabled(counted) = Tabled(room)
    BY <2>4 DEF Tabled
  <2>6. k \notin Tabled(room)
    BY <1>5, <1>14
  <2>7. total = Cardinality(Tabled(room)) + Cardinality(DOMAIN hash)
    <3>1. CASE found = {}
      <4>1. Cardinality(DOMAIN hash) = Cardinality(DOMAIN room.hashed) + 1
        BY <1>6, <1>9, <2>1, <3>1, OneMoreKey
      <4>. QED
        BY <1>5, <1>12, <3>1, <4>1
    <3>2. CASE found # {}
      <4>1. DOMAIN hash = DOMAIN room.hashed
        BY <1>9, <2>1, <2>6, <3>2
      <4>. QED
        BY <1>5, <3>2, <4>1
    <3>. QED
      BY <3>1, <3>2
  <2>. HIDE DEF total
  <2>8. \A h \in DOMAIN hash : h >= room.slots
    BY <1>5, <1>7, <1>14, <2>1
  <2>9. PairHalves(counted)
    BY <1>5, <2>2, <2>4, <2>5, <2>7, <2>8 DEF PairHalves
  <2>10. IsPairSet(counted)
    BY <1>11, <2>4, <2>9 DEF IsPairSet
  <2>11. ASSUME NEW h \in Keys
         PROVE  ChannelsFound(counted, h) = IF h = k THEN more ELSE ChannelsFound(room, h)
    <3>1. /\ ChannelsFound(counted, h) = IF h \in DOMAIN counted.hashed
                                         THEN counted.hashed[h] ELSE counted.table[h]
          /\ ChannelsFound(room, h) = IF h \in DOMAIN room.hashed
                                      THEN room.hashed[h] ELSE room.table[h]
      BY <1>4, <2>9, ChannelsOf
    <3>. QED
      BY <2>1, <2>4, <3>1
  <2>. QED
    BY <1>1, <1>4, <1>8, <2>10, <2>11 DEF more, inserted
<1>. QED
  BY <1>13, <1>14

-----------------------------------------------------------------------------
(* InDegrees: a number per key. *)

\* Maps from some of the keys to numbers.
ListedDegrees == UNION {[S -> Nat] : S \in SUBSET Keys}

\* What such a map is.
LEMMA DegreesListedAre ==
  ASSUME NEW f
  PROVE  f \in ListedDegrees <=> DOMAIN f \in SUBSET Keys /\ f \in [DOMAIN f -> Nat]
  BY DEF ListedDegrees

\* An InDegrees whose halves are sound, but for the number of its keys.
DegreeHalves(s) ==
  /\ s \in [kind : {"InDegrees"}, slots : Nat, table : ListedDegrees, hashed : ListedDegrees,
            len : Nat, sizedFor : SUBSET Keys]
  /\ \A k \in DOMAIN s.table : k < s.slots
  /\ \A k \in DOMAIN s.hashed : k >= s.slots
  /\ s.slots <= TableBudget(Cardinality(s.sizedFor))

Counting(s) == Cardinality(DOMAIN s.table) + Cardinality(DOMAIN s.hashed)
IsInDegrees(s) == DegreeHalves(s) /\ s.len = Counting(s)

\* The keys it has a number for, and the number.
HeldKeys(s) == DOMAIN s.table \cup DOMAIN s.hashed
DegreeOf(s, k) == IF k < s.slots THEN s.table[k] ELSE s.hashed[k]

\* A lookup goes to the half that has the key (InDegrees::get).
LEMMA DegreeFound ==
  ASSUME NEW s, DegreeHalves(s)
  PROVE  /\ DOMAIN s.table \in SUBSET Keys /\ DOMAIN s.hashed \in SUBSET Keys
         /\ HeldKeys(s) \in SUBSET Keys /\ DOMAIN s.table \cap DOMAIN s.hashed = {}
         /\ Counting(s) = Cardinality(HeldKeys(s)) /\ Counting(s) \in Nat
         /\ \A k \in Keys : /\ HasDegree(s, k) <=> k \in HeldKeys(s)
                            /\ k < s.slots => k \notin DOMAIN s.hashed
                            /\ ~(k < s.slots) => k \notin DOMAIN s.table
<1>1. s.table \in ListedDegrees /\ s.hashed \in ListedDegrees /\ s.slots \in Nat
  BY DEF DegreeHalves
<1>2. DOMAIN s.table \in SUBSET Keys /\ DOMAIN s.hashed \in SUBSET Keys
  BY <1>1, DegreesListedAre
<1>3. ASSUME NEW k \in Keys
      PROVE  /\ k < s.slots => k \notin DOMAIN s.hashed
             /\ ~(k < s.slots) => k \notin DOMAIN s.table
  <2>1. k \in Nat
    BY KeysAre
  <2>. QED
    BY <1>1, <2>1 DEF DegreeHalves
<1>4. DOMAIN s.table \cap DOMAIN s.hashed = {}
  BY <1>2, <1>3
<1>5. Counting(s) = Cardinality(HeldKeys(s)) /\ Counting(s) \in Nat
  BY <1>2, <1>4, Together DEF Counting, HeldKeys
<1>6. ASSUME NEW k \in Keys PROVE HasDegree(s, k) <=> k \in HeldKeys(s)
  BY <1>3, <1>6 DEF HasDegree, HeldKeys
<1>. QED
  BY <1>2, <1>3, <1>4, <1>5, <1>6 DEF HeldKeys

\* g is f with k mapped to d.
HasEntry(g, f, k, d) ==
  /\ g \in ListedDegrees /\ DOMAIN g = DOMAIN f \cup {k}
  /\ g[k] = d /\ \A h \in DOMAIN f \ {k} : g[h] = f[h]

\* A map with an entry more is such a map (a write to either half).
LEMMA EnteredDegree ==
  ASSUME NEW f \in ListedDegrees, NEW k \in Keys, NEW d \in Nat
  PROVE  HasEntry(Entered(f, k, d), f, k, d)
<1>1. DOMAIN f \in SUBSET Keys /\ f \in [DOMAIN f -> Nat]
  BY DegreesListedAre
<1>. DEFINE g == [h \in DOMAIN f \cup {k} |-> IF h = k THEN d ELSE f[h]]
<1>2. /\ g \in [DOMAIN g -> Nat] /\ DOMAIN g = DOMAIN f \cup {k} /\ g[k] = d
      /\ \A h \in DOMAIN f \ {k} : g[h] = f[h]
  BY <1>1
<1>3. Entered(f, k, d) = g
  BY DEF Entered
<1>. HIDE DEF g
<1>4. g \in ListedDegrees
  BY <1>1, <1>2, DegreesListedAre
<1>. QED
  BY <1>2, <1>3, <1>4 DEF HasEntry

\* A map with an entry less is such a map (InDegrees::remove).
LEMMA RemovedDegree ==
  ASSUME NEW f \in ListedDegrees, NEW k
  PROVE  /\ Removed(f, k) \in ListedDegrees /\ DOMAIN Removed(f, k) = DOMAIN f \ {k}
         /\ \A h \in DOMAIN f \ {k} : Removed(f, k)[h] = f[h]
<1>1. DOMAIN f \in SUBSET Keys /\ f \in [DOMAIN f -> Nat]
  BY DegreesListedAre
<1>. DEFINE g == [h \in DOMAIN f \ {k} |-> f[h]]
<1>2. /\ g \in [DOMAIN g -> Nat] /\ DOMAIN g = DOMAIN f \ {k}
      /\ \A h \in DOMAIN f \ {k} : g[h] = f[h]
  BY <1>1
<1>3. Removed(f, k) = g
  BY DEF Removed
<1>. HIDE DEF g
<1>4. g \in ListedDegrees
  BY <1>1, <1>2, DegreesListedAre
<1>. QED
  BY <1>2, <1>3, <1>4

\* A write goes to one half, and changes no other key's number (get_mut, insert).
LEMMA WrittenDegree ==
  ASSUME NEW s, DegreeHalves(s), NEW k \in Keys, NEW d \in Nat
  PROVE  /\ DegreeHalves(InDegreesSet(s, k, d)) /\ InDegreesSet(s, k, d).len = s.len
         /\ InDegreesSet(s, k, d).sizedFor = s.sizedFor
         /\ HeldKeys(InDegreesSet(s, k, d)) = HeldKeys(s) \cup {k}
         /\ DegreeOf(InDegreesSet(s, k, d), k) = d
         /\ \A h \in HeldKeys(s) \ {k} : DegreeOf(InDegreesSet(s, k, d), h) = DegreeOf(s, h)
<1>. DEFINE t == InDegreesSet(s, k, d)
            tab == Entered(s.table, k, d)
            hash == Entered(s.hashed, k, d)
<1>1. /\ s \in [kind : {"InDegrees"}, slots : Nat, table : ListedDegrees, hashed : ListedDegrees,
                len : Nat, sizedFor : SUBSET Keys]
      /\ s.table \in ListedDegrees /\ s.hashed \in ListedDegrees /\ s.slots \in Nat
      /\ s.slots <= TableBudget(Cardinality(s.sizedFor))
  BY DEF DegreeHalves
<1>2. t = IF k < s.slots THEN [s EXCEPT !.table = tab] ELSE [s EXCEPT !.hashed = hash]
  BY DEF InDegreesSet
<1>3. k \in Nat /\ DOMAIN s.table \in SUBSET Keys /\ DOMAIN s.hashed \in SUBSET Keys
      /\ DOMAIN s.table \cap DOMAIN s.hashed = {} /\ Keys \subseteq Nat
  BY KeysAre, DegreeFound
<1>4. /\ tab \in ListedDegrees /\ DOMAIN tab = DOMAIN s.table \cup {k}
      /\ tab[k] = d /\ \A h \in DOMAIN s.table \ {k} : tab[h] = s.table[h]
      /\ hash \in ListedDegrees /\ DOMAIN hash = DOMAIN s.hashed \cup {k}
      /\ hash[k] = d /\ \A h \in DOMAIN s.hashed \ {k} : hash[h] = s.hashed[h]
  <2>1. HasEntry(tab, s.table, k, d) /\ HasEntry(hash, s.hashed, k, d)
    BY <1>1, EnteredDegree
  <2>. HIDE DEF tab, hash
  <2>. QED
    BY <2>1 DEF HasEntry
<1>5. /\ \A h \in DOMAIN s.table : h < s.slots
      /\ \A h \in DOMAIN s.hashed : h >= s.slots
  BY DEF DegreeHalves
<1>. HIDE DEF t, tab, hash
<1>6. CASE k < s.slots
  <2>1. /\ t \in [kind : {"InDegrees"}, slots : Nat, table : ListedDegrees, hashed : ListedDegrees,
                  len : Nat, sizedFor : SUBSET Keys]
        /\ t.slots = s.slots /\ t.table = tab /\ t.hashed = s.hashed /\ t.len = s.len
        /\ t.sizedFor = s.sizedFor
    BY <1>1, <1>2, <1>4, <1>6
  <2>2. DegreeHalves(t)
    BY <1>1, <1>4, <1>5, <1>6, <2>1 DEF DegreeHalves
  <2>3. HeldKeys(t) = HeldKeys(s) \cup {k}
    BY <1>4, <2>1 DEF HeldKeys
  <2>4. DegreeOf(t, k) = d
    BY <1>4, <1>6, <2>1 DEF DegreeOf
  <2>5. ASSUME NEW h \in HeldKeys(s) \ {k} PROVE DegreeOf(t, h) = DegreeOf(s, h)
    <3>1. CASE h \in DOMAIN s.table
      BY <1>4, <1>5, <2>1, <2>5, <3>1 DEF DegreeOf
    <3>2. CASE h \in DOMAIN s.hashed
      <4>1. h \in Nat /\ h >= s.slots
        BY <1>3, <1>5, <3>2
      <4>2. ~(h < s.slots)
        BY <1>1, <4>1
      <4>. QED
        BY <2>1, <4>2 DEF DegreeOf
    <3>. QED
      BY <2>5, <3>1, <3>2 DEF HeldKeys
  <2>. QED
    BY <2>1, <2>2, <2>3, <2>4, <2>5 DEF t
<1>7. CASE ~(k < s.slots)
  <2>1. /\ t \in [kind : {"InDegrees"}, slots : Nat, table : ListedDegrees, hashed : ListedDegrees,
                  len : Nat, sizedFor : SUBSET Keys]
        /\ t.slots = s.slots /\ t.table = s.table /\ t.hashed = hash /\ t.len = s.len
        /\ t.sizedFor = s.sizedFor
    BY <1>1, <1>2, <1>4, <1>7
  <2>2. DegreeHalves(t)
    BY <1>1, <1>3, <1>4, <1>5, <1>7, <2>1 DEF DegreeHalves
  <2>3. HeldKeys(t) = HeldKeys(s) \cup {k}
    BY <1>4, <2>1 DEF HeldKeys
  <2>4. DegreeOf(t, k) = d
    BY <1>4, <1>7, <2>1 DEF DegreeOf
  <2>5. ASSUME NEW h \in HeldKeys(s) \ {k} PROVE DegreeOf(t, h) = DegreeOf(s, h)
    <3>1. CASE h \in DOMAIN s.table
      BY <1>5, <2>1, <3>1 DEF DegreeOf
    <3>2. CASE h \in DOMAIN s.hashed
      <4>1. h \in Nat /\ h >= s.slots
        BY <1>3, <1>5, <3>2
      <4>2. ~(h < s.slots)
        BY <1>1, <4>1
      <4>. QED
        BY <1>4, <2>1, <2>5, <3>2, <4>2 DEF DegreeOf
    <3>. QED
      BY <2>5, <3>1, <3>2 DEF HeldKeys
  <2>. QED
    BY <2>1, <2>2, <2>3, <2>4, <2>5 DEF t
<1>. QED
  BY <1>6, <1>7

\* A key listed again keeps its number, a new one starts at zero
\* (InDegrees::for_keys).
LEMMA InsertedDegree ==
  ASSUME NEW s, IsInDegrees(s), NEW k \in Keys
  PROVE  /\ IsInDegrees(InDegreesInsert(s, k))
         /\ k \in HeldKeys(s) => InDegreesInsert(s, k) = s
         /\ k \notin HeldKeys(s) =>
              /\ HeldKeys(InDegreesInsert(s, k)) = HeldKeys(s) \cup {k}
              /\ DegreeOf(InDegreesInsert(s, k), k) = 0
              /\ \A h \in HeldKeys(s) : DegreeOf(InDegreesInsert(s, k), h) = DegreeOf(s, h)
<1>. DEFINE t == InDegreesSet(s, k, 0)
            u == InDegreesInsert(s, k)
<1>1. DegreeHalves(s) /\ s.len = Counting(s)
  BY DEF IsInDegrees
<1>2. HasDegree(s, k) <=> k \in HeldKeys(s)
  BY <1>1, DegreeFound
<1>3. CASE k \in HeldKeys(s)
  BY <1>2, <1>3 DEF InDegreesInsert
<1>4. CASE k \notin HeldKeys(s)
  <2>1. u = [t EXCEPT !.len = @ + 1]
    BY <1>2, <1>4 DEF InDegreesInsert
  <2>2. /\ DegreeHalves(t) /\ t.len = s.len
        /\ HeldKeys(t) = HeldKeys(s) \cup {k} /\ DegreeOf(t, k) = 0
        /\ \A h \in HeldKeys(s) \ {k} : DegreeOf(t, h) = DegreeOf(s, h)
    BY <1>1, WrittenDegree
  <2>. HIDE DEF t, u
  <2>3. /\ t \in [kind : {"InDegrees"}, slots : Nat, table : ListedDegrees,
                  hashed : ListedDegrees, len : Nat, sizedFor : SUBSET Keys]
        /\ t.len \in Nat
    BY <2>2 DEF DegreeHalves
  <2>4. /\ u \in [kind : {"InDegrees"}, slots : Nat, table : ListedDegrees,
                  hashed : ListedDegrees, len : Nat, sizedFor : SUBSET Keys]
        /\ u.slots = t.slots /\ u.table = t.table /\ u.hashed = t.hashed
        /\ u.sizedFor = t.sizedFor /\ u.len = t.len + 1
    BY <2>1, <2>3
  <2>5. DegreeHalves(u)
    BY <2>2, <2>4 DEF DegreeHalves
  <2>6. HeldKeys(u) = HeldKeys(t) /\ \A h \in Keys : DegreeOf(u, h) = DegreeOf(t, h)
    BY <2>4 DEF HeldKeys, DegreeOf
  <2>7. Counting(u) = Counting(s) + 1
    <3>1. HeldKeys(s) \in SUBSET Keys /\ Counting(s) = Cardinality(HeldKeys(s))
      BY <1>1, DegreeFound
    <3>2. Counting(u) = Cardinality(HeldKeys(u))
      BY <2>5, DegreeFound
    <3>. QED
      BY <1>4, <2>2, <2>6, <3>1, <3>2, OneMoreKey
  <2>8. IsInDegrees(u)
    BY <1>1, <2>2, <2>4, <2>5, <2>7 DEF IsInDegrees
  <2>9. HeldKeys(s) \in SUBSET Keys
    BY <1>1, DegreeFound
  <2>. QED
    BY <1>4, <2>2, <2>6, <2>8, <2>9 DEF u
<1>. QED
  BY <1>3, <1>4

\* A number that is counted down stays that of its key (Kahn::release).
LEMMA AdjustedDegree ==
  ASSUME NEW s, IsInDegrees(s), NEW k \in HeldKeys(s), NEW d \in Nat
  PROVE  /\ IsInDegrees(InDegreesSet(s, k, d))
         /\ HeldKeys(InDegreesSet(s, k, d)) = HeldKeys(s)
         /\ DegreeOf(InDegreesSet(s, k, d), k) = d
         /\ \A h \in HeldKeys(s) \ {k} : DegreeOf(InDegreesSet(s, k, d), h) = DegreeOf(s, h)
<1>. DEFINE t == InDegreesSet(s, k, d)
<1>1. DegreeHalves(s) /\ s.len = Counting(s) /\ k \in Keys
  BY DegreeFound DEF IsInDegrees
<1>2. /\ DegreeHalves(t) /\ t.len = s.len
      /\ HeldKeys(t) = HeldKeys(s) \cup {k} /\ DegreeOf(t, k) = d
      /\ \A h \in HeldKeys(s) \ {k} : DegreeOf(t, h) = DegreeOf(s, h)
  BY <1>1, WrittenDegree
<1>. HIDE DEF t
<1>3. HeldKeys(t) = HeldKeys(s)
  BY <1>2
<1>4. Counting(t) = Cardinality(HeldKeys(t)) /\ Counting(s) = Cardinality(HeldKeys(s))
  BY <1>1, <1>2, DegreeFound
<1>5. IsInDegrees(t)
  BY <1>1, <1>2, <1>3, <1>4 DEF IsInDegrees
<1>. QED
  BY <1>2, <1>3, <1>5 DEF t

\* A removal takes out the key, from whichever half has it, and no other
\* (InDegrees::remove).
LEMMA RemovedKey ==
  ASSUME NEW s, IsInDegrees(s), NEW k \in Keys
  PROVE  /\ IsInDegrees(InDegreesRemove(s, k))
         /\ HeldKeys(InDegreesRemove(s, k)) = HeldKeys(s) \ {k}
         /\ \A h \in HeldKeys(s) \ {k} : DegreeOf(InDegreesRemove(s, k), h) = DegreeOf(s, h)
<1>. DEFINE u == InDegreesRemove(s, k)
            tab == Removed(s.table, k)
            hash == Removed(s.hashed, k)
<1>1. /\ DegreeHalves(s) /\ s.len = Counting(s)
      /\ s \in [kind : {"InDegrees"}, slots : Nat, table : ListedDegrees, hashed : ListedDegrees,
                len : Nat, sizedFor : SUBSET Keys]
      /\ s.table \in ListedDegrees /\ s.hashed \in ListedDegrees
      /\ s.slots <= TableBudget(Cardinality(s.sizedFor))
      /\ \A h \in DOMAIN s.table : h < s.slots
      /\ \A h \in DOMAIN s.hashed : h >= s.slots
  BY DEF IsInDegrees, DegreeHalves
<1>2. /\ HasDegree(s, k) <=> k \in HeldKeys(s)
      /\ k < s.slots => k \notin DOMAIN s.hashed
      /\ ~(k < s.slots) => k \notin DOMAIN s.table
      /\ HeldKeys(s) \in SUBSET Keys /\ Counting(s) = Cardinality(HeldKeys(s)) /\ Counting(s) \in Nat
  BY <1>1, DegreeFound
<1>3. CASE k \notin HeldKeys(s)
  <2>1. u = s
    BY <1>2, <1>3 DEF InDegreesRemove
  <2>. HIDE DEF u
  <2>2. HeldKeys(s) = HeldKeys(s) \ {k}
    BY <1>3
  <2>. QED
    BY <2>1, <2>2 DEF u
<1>4. CASE k \in HeldKeys(s)
  <2>1. Cardinality(HeldKeys(s)) = Cardinality(HeldKeys(s) \ {k}) + 1
        /\ Cardinality(HeldKeys(s) \ {k}) \in Nat
    <3>1. HeldKeys(s) \ {k} \in SUBSET Keys /\ (HeldKeys(s) \ {k}) \cup {k} = HeldKeys(s)
          /\ k \notin HeldKeys(s) \ {k}
      BY <1>2, <1>4
    <3>. QED
      BY <3>1, OneMoreKey
  <2>2. s.len - 1 \in Nat
    BY <1>1, <1>2, <2>1
  <2>3. /\ tab \in ListedDegrees /\ DOMAIN tab = DOMAIN s.table \ {k}
        /\ \A h \in DOMAIN s.table \ {k} : tab[h] = s.table[h]
    BY <1>1, RemovedDegree
  <2>4. /\ hash \in ListedDegrees /\ DOMAIN hash = DOMAIN s.hashed \ {k}
        /\ \A h \in DOMAIN s.hashed \ {k} : hash[h] = s.hashed[h]
    BY <1>1, RemovedDegree
  <2>5. u = IF k < s.slots THEN [s EXCEPT !.table = tab, !.len = @ - 1]
                           ELSE [s EXCEPT !.hashed = hash, !.len = @ - 1]
    BY <1>2, <1>4 DEF InDegreesRemove
  <2>. HIDE DEF u, tab, hash
  <2>6. /\ u \in [kind : {"InDegrees"}, slots : Nat, table : ListedDegrees,
                  hashed : ListedDegrees, len : Nat, sizedFor : SUBSET Keys]
        /\ u.slots = s.slots /\ u.sizedFor = s.sizedFor /\ u.len = s.len - 1
        /\ u.table = (IF k < s.slots THEN tab ELSE s.table)
        /\ u.hashed = (IF k < s.slots THEN s.hashed ELSE hash)
    <3>1. CASE k < s.slots
      BY <1>1, <2>2, <2>3, <2>5, <3>1
    <3>2. CASE ~(k < s.slots)
      BY <1>1, <2>2, <2>4, <2>5, <3>2
    <3>. QED
      BY <3>1, <3>2
  <2>7. /\ DOMAIN u.table = DOMAIN s.table \ {k} /\ DOMAIN u.hashed = DOMAIN s.hashed \ {k}
        /\ \A h \in DOMAIN s.table \ {k} : u.table[h] = s.table[h]
        /\ \A h \in DOMAIN s.hashed \ {k} : u.hashed[h] = s.hashed[h]
    <3>1. CASE k < s.slots
      BY <1>2, <2>3, <2>6, <3>1
    <3>2. CASE ~(k < s.slots)
      BY <1>2, <2>4, <2>6, <3>2
    <3>. QED
      BY <3>1, <3>2
  <2>8. DegreeHalves(u)
    BY <1>1, <2>6, <2>7 DEF DegreeHalves
  <2>9. HeldKeys(u) = HeldKeys(s) \ {k}
    BY <2>7 DEF HeldKeys
  <2>10. IsInDegrees(u)
    <3>1. Counting(u) = Cardinality(HeldKeys(u))
      BY <2>8, DegreeFound
    <3>. QED
      BY <1>1, <1>2, <2>1, <2>6, <2>8, <2>9, <3>1 DEF IsInDegrees
  <2>11. ASSUME NEW h \in HeldKeys(s) \ {k} PROVE DegreeOf(u, h) = DegreeOf(s, h)
    <3>1. /\ h < s.slots => h \notin DOMAIN s.hashed
          /\ ~(h < s.slots) => h \notin DOMAIN s.table
      BY <1>1, <1>2, <2>11, DegreeFound
    <3>2. h \in DOMAIN s.table \/ h \in DOMAIN s.hashed
      BY <2>11 DEF HeldKeys
    <3>. QED
      BY <2>6, <2>7, <2>11, <3>1, <3>2 DEF DegreeOf
  <2>. QED
    BY <2>9, <2>10, <2>11 DEF u
<1>. QED
  BY <1>3, <1>4

\* A table for some keys is empty, and within its budget (InDegrees::for_keys).
LEMMA SizedForKeys ==
  ASSUME NEW listed \in SUBSET Keys
  PROVE  IsInDegrees(InDegreesFor(listed)) /\ InDegreesFor(listed).kind = "InDegrees"
<1>. DEFINE s == InDegreesFor(listed)
            wanted == IF listed = {} THEN 0 ELSE Greatest(listed) + 1
            budget == TableBudget(Cardinality(listed))
            slots == Smaller(wanted, budget)
            none == [k \in {} |-> 0]
<1>1. s = [kind |-> "InDegrees", slots |-> slots, table |-> none, hashed |-> none, len |-> 0,
           sizedFor |-> listed]
  BY DEF InDegreesFor
<1>2. wanted \in Nat
  <2>1. CASE listed = {}
    BY <2>1
  <2>2. CASE listed # {}
    <3>1. Greatest(listed) \in Nat
      BY <2>2, GreatestIs, KeysAre
    <3>. QED
      BY <2>2, <3>1
  <2>. QED
    BY <2>1, <2>2
<1>3. budget \in Nat
  <2>1. Cardinality(listed) \in Nat
    BY KeysAre, FS_Subset, FS_CardinalityType
  <2>. QED
    BY <2>1, BudgetGrows
<1>. HIDE DEF wanted, budget
<1>4. slots \in Nat /\ slots <= budget
  BY <1>2, <1>3 DEF Smaller
<1>5. none \in ListedDegrees /\ DOMAIN none = {}
  <2>1. DOMAIN none \in SUBSET Keys /\ none \in [DOMAIN none -> Nat]
    OBVIOUS
  <2>. QED
    BY <2>1, DegreesListedAre
<1>. HIDE DEF s, slots, none
<1>6. /\ s \in [kind : {"InDegrees"}, slots : Nat, table : ListedDegrees, hashed : ListedDegrees,
                len : Nat, sizedFor : SUBSET Keys]
      /\ s.slots = slots /\ s.table = none /\ s.hashed = none /\ s.len = 0
      /\ s.sizedFor = listed /\ s.kind = "InDegrees"
  BY <1>1, <1>4, <1>5
<1>7. DegreeHalves(s)
  BY <1>4, <1>5, <1>6 DEF DegreeHalves, budget
<1>8. Counting(s) = 0
  <2>1. Cardinality({}) = 0
    BY FS_EmptySet
  <2>. QED
    BY <1>5, <1>6, <2>1 DEF Counting
<1>. QED
  BY <1>6, <1>7, <1>8 DEF IsInDegrees, s

-----------------------------------------------------------------------------
(* The container in use. *)

\* It is a sound one of its kind.
Sound(t) == IsKeySet(t) \/ IsPairSet(t) \/ IsInDegrees(t)

\* A container's kind is one of the three.
LEMMA KindOf ==
  ASSUME NEW t
  PROVE  /\ IsKeySet(t) => t.kind = "KeySet"
         /\ IsPairSet(t) => t.kind = "PairSet"
         /\ IsInDegrees(t) => t.kind = "InDegrees"
<1>1. ASSUME IsKeySet(t) PROVE t.kind = "KeySet"
  BY <1>1 DEF IsKeySet, KeyHalves
<1>2. ASSUME IsPairSet(t) PROVE t.kind = "PairSet"
  BY <1>2 DEF IsPairSet, PairHalves
<1>3. ASSUME IsInDegrees(t) PROVE t.kind = "InDegrees"
  BY <1>3 DEF IsInDegrees, DegreeHalves
<1>. QED
  BY <1>1, <1>2, <1>3

\* What the container t says it holds: Content, of any container.
Holds(t) ==
  CASE t.kind = "KeySet"  -> {k \in Keys : KeySetContains(t, k)}
    [] t.kind = "PairSet" -> {p \in Keys \X Channels : PairSetContains(t, p[1], p[2])}
    [] OTHER -> {<<k, IF k < t.slots THEN t.table[k] ELSE t.hashed[k]>> :
                   k \in {h \in Keys : HasDegree(t, h)}}

\* Content is that of `table`, before a call and after it.
LEMMA ContentIsHeld == Content = Holds(table) /\ Content' = Holds(table')
BY DEF Content, Holds

\* What a key set says it holds (contains).
LEMMA HeldByKeySet ==
  ASSUME NEW t, IsKeySet(t)
  PROVE  Holds(t) = Members(t)
<1>1. t.kind = "KeySet" /\ Members(t) \in SUBSET Keys /\ KeyHalves(t)
  BY DEF IsKeySet, KeyHalves, Members
<1>2. Holds(t) = {k \in Keys : KeySetContains(t, k)}
  BY <1>1 DEF Holds
<1>. QED
  BY <1>1, <1>2, LookupFinds

\* The same for pairs (contains).
LEMMA HeldByPairSet ==
  ASSUME NEW t, IsPairSet(t)
  PROVE  Holds(t) = {p \in Keys \X Channels : p[2] \in ChannelsFound(t, p[1])}
<1>1. t.kind = "PairSet"
  BY KindOf
<1>. QED
  BY <1>1 DEF Holds, PairSetContains

\* The same for degrees (get).
LEMMA HeldByInDegrees ==
  ASSUME NEW t, IsInDegrees(t)
  PROVE  Holds(t) = {<<k, DegreeOf(t, k)>> : k \in HeldKeys(t)}
<1>1. t.kind = "InDegrees"
  BY KindOf
<1>2. Holds(t) = {<<k, DegreeOf(t, k)>> : k \in {h \in Keys : HasDegree(t, h)}}
  BY <1>1 DEF Holds, DegreeOf
<1>3. {h \in Keys : HasDegree(t, h)} = HeldKeys(t)
  BY DegreeFound DEF IsInDegrees
<1>. QED
  BY <1>2, <1>3

\* The parts of TablesSound that speak of the container.
TableChecks ==
  /\ table.kind \in {"KeySet", "PairSet", "InDegrees"}
  /\ TabledKeys \subseteq Keys /\ HashedKeys \subseteq Keys
  /\ KeptWhereLookedUp /\ BookkeepingExact /\ WithinBudget

\* A sound container passes them.
LEMMA SoundIsChecked ==
  ASSUME Sound(table)
  PROVE  TableChecks
<1>1. CASE IsKeySet(table)
  <2>1. /\ table.kind = "KeySet" /\ table.words \in Nat
        /\ table.bits \in SUBSET Keys /\ table.hashed \in SUBSET Keys
        /\ \A k \in table.bits : Word(k) < table.words
        /\ \A k \in table.hashed : Word(k) >= table.words
        /\ table.minHashed = Least(table.hashed)
        /\ table.len = Cardinality(table.bits) + Cardinality(table.hashed)
        /\ 2 * table.words <= TableBudget(table.peak) /\ table.len <= table.peak
    BY <1>1 DEF IsKeySet, KeyHalves
  <2>2. /\ TabledKeys = table.bits /\ HashedKeys = table.hashed
        /\ Covered = table.words * WordBits
    BY <2>1 DEF TabledKeys, HashedKeys, Covered
  <2>3. ASSUME NEW k \in Keys
        PROVE  (Word(k) < table.words <=> k < Covered) /\ k \in Nat /\ Word(k) \in Nat
    <3>1. k \in Nat
      BY KeysAre
    <3>. QED
      BY <2>1, <2>2, <3>1, WordBelow
  <2>4. Covered \in Nat
    <3>1. WordBits \in Nat
      BY TableAssumption
    <3>. QED
      BY <2>1, <2>2, <3>1
  <2>5. KeptWhereLookedUp
    <3>1. ASSUME NEW k \in TabledKeys PROVE k < Covered
      BY <2>1, <2>2, <2>3, <3>1
    <3>2. ASSUME NEW k \in HashedKeys PROVE k >= Covered
      <4>1. k \in Nat /\ Word(k) \in Nat /\ Word(k) >= table.words
            /\ (Word(k) < table.words <=> k < Covered)
        BY <2>1, <2>2, <2>3, <3>2
      <4>. QED
        BY <2>1, <2>4, <4>1
    <3>. QED
      BY <3>1, <3>2 DEF KeptWhereLookedUp
  <2>6. BookkeepingExact
    BY <2>1, <2>2 DEF BookkeepingExact
  <2>. QED
    BY <2>1, <2>2, <2>5, <2>6 DEF TableChecks, WithinBudget
<1>2. CASE IsPairSet(table)
  <2>1. /\ table.kind = "PairSet" /\ table.hashed \in ListedChannels
        /\ \A k \in Tabled(table) : k < table.slots
        /\ \A k \in DOMAIN table.hashed : k >= table.slots
        /\ table.minHashed = Least(DOMAIN table.hashed)
        /\ table.keys = Cardinality(Tabled(table)) + Cardinality(DOMAIN table.hashed)
        /\ table.slots <= TableBudget(table.keys)
    BY <1>2 DEF IsPairSet, PairHalves
  <2>2. DOMAIN table.hashed \in SUBSET Keys /\ Tabled(table) \in SUBSET Keys
    BY <2>1, ChannelsListedAre DEF Tabled
  <2>3. TabledKeys = Tabled(table) /\ HashedKeys = DOMAIN table.hashed /\ Covered = table.slots
    BY <2>1 DEF TabledKeys, Tabled, HashedKeys, Covered
  <2>4. KeptWhereLookedUp
    BY <2>1, <2>3 DEF KeptWhereLookedUp
  <2>5. BookkeepingExact
    BY <2>1, <2>3 DEF BookkeepingExact
  <2>6. WithinBudget
    BY <2>1 DEF WithinBudget
  <2>. QED
    BY <2>1, <2>2, <2>3, <2>4, <2>5, <2>6 DEF TableChecks
<1>3. CASE IsInDegrees(table)
  <2>1. /\ table.kind = "InDegrees" /\ DegreeHalves(table) /\ table.len = Counting(table)
        /\ \A k \in DOMAIN table.table : k < table.slots
        /\ \A k \in DOMAIN table.hashed : k >= table.slots
        /\ table.slots <= TableBudget(Cardinality(table.sizedFor))
    BY <1>3 DEF IsInDegrees, DegreeHalves
  <2>2. DOMAIN table.hashed \in SUBSET Keys /\ DOMAIN table.table \in SUBSET Keys
    BY <2>1, DegreeFound
  <2>3. TabledKeys = DOMAIN table.table /\ HashedKeys = DOMAIN table.hashed /\ Covered = table.slots
    BY <2>1 DEF TabledKeys, HashedKeys, Covered
  <2>4. KeptWhereLookedUp
    BY <2>1, <2>3 DEF KeptWhereLookedUp
  <2>5. BookkeepingExact
    BY <2>1, <2>3 DEF BookkeepingExact, Counting
  <2>6. WithinBudget
    BY <2>1 DEF WithinBudget
  <2>. QED
    BY <2>1, <2>2, <2>3, <2>4, <2>5, <2>6 DEF TableChecks
<1>. QED
  BY <1>1, <1>2, <1>3 DEF Sound

\* A call on a PairSet or an InDegrees leaves a sound one of its kind.
LEMMA TableStepKeepsSound ==
  ASSUME Sound(table), TableStep
  PROVE  Sound(table') /\ table.kind # "KeySet" /\ table'.kind # "KeySet"
<1>1. ASSUME NEW k \in Keys, NEW c \in Channels, InsertPair(k, c)
      PROVE  Sound(table') /\ table.kind # "KeySet" /\ table'.kind # "KeySet"
  <2>1. IsPairSet(table) /\ table' = PairSetInsert(table, k, c).set /\ table.kind # "KeySet"
    BY <1>1, KindOf DEF Sound, InsertPair
  <2>2. IsPairSet(table')
    BY <2>1, InsertedPair
  <2>3. table'.kind = "PairSet"
    BY <2>2 DEF IsPairSet, PairHalves
  <2>. QED
    BY <2>1, <2>2, <2>3 DEF Sound
<1>2. ASSUME table.kind = "InDegrees", IsInDegrees(table) => IsInDegrees(table')
      PROVE  Sound(table') /\ table.kind # "KeySet" /\ table'.kind # "KeySet"
  <2>1. IsInDegrees(table) /\ table.kind # "KeySet"
    BY <1>2, KindOf DEF Sound
  <2>2. IsInDegrees(table')
    BY <1>2, <2>1
  <2>3. table'.kind = "InDegrees"
    BY <2>2 DEF IsInDegrees, DegreeHalves
  <2>. QED
    BY <2>1, <2>2, <2>3 DEF Sound
<1>3. ASSUME NEW k \in Keys, InsertDegree(k) \/ RemoveDegree(k)
      PROVE  table.kind = "InDegrees" /\ (IsInDegrees(table) => IsInDegrees(table'))
  BY <1>3, InsertedDegree, RemovedKey DEF InsertDegree, RemoveDegree
<1>4. ASSUME NEW k \in Keys, NEW d \in 0..MaxDegree, AdjustDegree(k, d)
      PROVE  table.kind = "InDegrees" /\ (IsInDegrees(table) => IsInDegrees(table'))
  <2>1. table.kind = "InDegrees" /\ HasDegree(table, k) /\ table' = InDegreesSet(table, k, d)
    BY <1>4 DEF AdjustDegree
  <2>2. ASSUME IsInDegrees(table) PROVE IsInDegrees(table')
    <3>1. k \in HeldKeys(table) /\ d \in Nat
      BY <2>1, <2>2, DegreeFound DEF IsInDegrees
    <3>. QED
      BY <2>1, <2>2, <3>1, AdjustedDegree
  <2>. QED
    BY <2>1, <2>2
<1>. QED
  BY <1>1, <1>2, <1>3, <1>4 DEF TableStep

\* The containers are the set of pairs, and the map to numbers, that their
\* callers take them for, at each call.
LEMMA CallsAreFaithful ==
  ASSUME Sound(table)
  PROVE  Faithful
<1>1. ASSUME NEW k \in Keys, NEW c \in Channels, InsertPair(k, c)
      PROVE  /\ Content' = Content \cup {<<k, c>>}
             /\ PairSetInsert(table, k, c).fresh <=> <<k, c>> \notin Content
  <2>1. IsPairSet(table) /\ table' = PairSetInsert(table, k, c).set
    BY <1>1, KindOf DEF Sound, InsertPair
  <2>2. /\ IsPairSet(table')
        /\ PairSetInsert(table, k, c).fresh <=> c \notin ChannelsFound(table, k)
        /\ ChannelsFound(table', k) = ChannelsFound(table, k) \cup {c}
        /\ \A h \in Keys \ {k} : ChannelsFound(table', h) = ChannelsFound(table, h)
    BY <2>1, InsertedPair
  <2>3. /\ Content = {p \in Keys \X Channels : p[2] \in ChannelsFound(table, p[1])}
        /\ Content' = {p \in Keys \X Channels : p[2] \in ChannelsFound(table', p[1])}
    BY <2>1, <2>2, HeldByPairSet, ContentIsHeld
  <2>4. ASSUME NEW p \in Keys \X Channels
        PROVE  p \in Content' <=> p \in Content \/ p = <<k, c>>
    <3>1. p = <<p[1], p[2]>> /\ p[1] \in Keys /\ p[2] \in Channels
      OBVIOUS
    <3>2. CASE p[1] = k
      BY <2>2, <2>3, <3>1, <3>2
    <3>3. CASE p[1] # k
      BY <2>2, <2>3, <3>1, <3>3
    <3>. QED
      BY <3>2, <3>3
  <2>5. Content' = Content \cup {<<k, c>>}
    <3>1. Content \subseteq Keys \X Channels /\ Content' \subseteq Keys \X Channels
          /\ <<k, c>> \in Keys \X Channels
      BY <2>3
    <3>. QED
      BY <2>4, <3>1
  <2>. QED
    BY <2>2, <2>3, <2>5
<1>2. ASSUME NEW k \in Keys
      PROVE  LET others == {e \in Content : e[1] # k} IN
             /\ InsertDegree(k) =>
                  Content' = IF HasDegree(table, k) THEN Content ELSE Content \cup {<<k, 0>>}
             /\ \A d \in 0..MaxDegree : AdjustDegree(k, d) => Content' = others \cup {<<k, d>>}
             /\ RemoveDegree(k) => Content' = others
  <2>. DEFINE others == {e \in Content : e[1] # k}
              held == HeldKeys(table)
  <2>1. ASSUME table.kind = "InDegrees"
        PROVE  /\ IsInDegrees(table) /\ (HasDegree(table, k) <=> k \in held)
               /\ Content = {<<h, DegreeOf(table, h)>> : h \in held}
               /\ others = {<<h, DegreeOf(table, h)>> : h \in held \ {k}}
    <3>1. IsInDegrees(table)
      BY <2>1, KindOf DEF Sound
    <3>2. HasDegree(table, k) <=> k \in held
      BY <3>1, DegreeFound DEF IsInDegrees
    <3>3. Content = {<<h, DegreeOf(table, h)>> : h \in held}
      BY <3>1, HeldByInDegrees, ContentIsHeld
    <3>. QED
      BY <3>1, <3>2, <3>3
  <2>2. ASSUME InsertDegree(k)
        PROVE  Content' = IF HasDegree(table, k) THEN Content ELSE Content \cup {<<k, 0>>}
    <3>1. table.kind = "InDegrees" /\ table' = InDegreesInsert(table, k)
      BY <2>2 DEF InsertDegree
    <3>2. /\ IsInDegrees(table')
          /\ k \in held => table' = table
          /\ k \notin held =>
               /\ HeldKeys(table') = held \cup {k} /\ DegreeOf(table', k) = 0
               /\ \A h \in held : DegreeOf(table', h) = DegreeOf(table, h)
      BY <2>1, <3>1, InsertedDegree
    <3>3. Content' = {<<h, DegreeOf(table', h)>> : h \in HeldKeys(table')}
      BY <3>2, HeldByInDegrees, ContentIsHeld
    <3>4. CASE k \in held
      BY <2>1, <3>1, <3>2, <3>3, <3>4
    <3>5. CASE k \notin held
      BY <2>1, <3>1, <3>2, <3>3, <3>5
    <3>. QED
      BY <3>4, <3>5
  <2>3. ASSUME NEW d \in 0..MaxDegree, AdjustDegree(k, d)
        PROVE  Content' = others \cup {<<k, d>>}
    <3>1. table.kind = "InDegrees" /\ HasDegree(table, k) /\ table' = InDegreesSet(table, k, d)
          /\ d \in Nat
      BY <2>3 DEF AdjustDegree
    <3>2. /\ IsInDegrees(table') /\ HeldKeys(table') = held /\ DegreeOf(table', k) = d
          /\ \A h \in held \ {k} : DegreeOf(table', h) = DegreeOf(table, h)
      BY <2>1, <3>1, AdjustedDegree
    <3>3. Content' = {<<h, DegreeOf(table', h)>> : h \in HeldKeys(table')}
      BY <3>2, HeldByInDegrees, ContentIsHeld
    <3>. QED
      BY <2>1, <3>1, <3>2, <3>3
  <2>4. ASSUME RemoveDegree(k) PROVE Content' = others
    <3>1. table.kind = "InDegrees" /\ table' = InDegreesRemove(table, k)
      BY <2>4 DEF RemoveDegree
    <3>2. /\ IsInDegrees(table') /\ HeldKeys(table') = held \ {k}
          /\ \A h \in held \ {k} : DegreeOf(table', h) = DegreeOf(table, h)
      BY <2>1, <3>1, RemovedKey
    <3>3. Content' = {<<h, DegreeOf(table', h)>> : h \in HeldKeys(table')}
      BY <3>2, HeldByInDegrees, ContentIsHeld
    <3>. QED
      BY <2>1, <3>1, <3>2, <3>3
  <2>. QED
    BY <2>2, <2>3, <2>4
<1>. QED
  BY <1>1, <1>2 DEF Faithful

-----------------------------------------------------------------------------
(* The walks.  Each kind of walk w, over the arrows D, with the visited set  *)
(* t and the stack st, has an invariant of its own.                          *)

Arrows == [Keys -> SUBSET Keys]

\* No phase but its own: what a visit remembers.
Visits == [phase : {"visit"}, root : Keys, met : SUBSET Keys]

\* What was met is what the visited set holds; what was met or is on the stack
\* is reachable, and there is nothing one arrow beyond what was met.
VisitSound(t, D, st, w) ==
  /\ w \in Visits
  /\ IsKeySet(t) /\ Members(t) = w.met
  /\ w.met \cup st \subseteq ReachableFrom(D, D[w.root])
  /\ D[w.root] \subseteq w.met \cup st
  /\ \A k \in w.met : D[k] \subseteq w.met \cup st

\* A walk begins with nothing visited, whatever the scratch holds
\* (TraversalScratch::reset).
LEMMA StartingIsEmpty ==
  ASSUME IsKeySet(table), NEW reuse \in BOOLEAN
  PROVE  IsKeySet(Starting(reuse)) /\ Members(Starting(reuse)) = {}
BY EmptyIsKeySet DEF Starting, Reset

\* A visit begins with the dependents of its root on the stack
\* (for_each_transitive_dependent).
LEMMA VisitBegins ==
  ASSUME NEW D \in Arrows, NEW root \in Keys, NEW t, IsKeySet(t), Members(t) = {}
  PROVE  VisitSound(t, D, D[root], [phase |-> "visit", root |-> root, met |-> {}])
<1>. DEFINE w == [phase |-> "visit", root |-> root, met |-> {}]
<1>1. w \in Visits /\ w.root = root /\ w.met = {}
  BY DEF Visits
<1>2. D \in [Keys -> SUBSET Keys] /\ D[root] \in SUBSET Keys
  BY DEF Arrows
<1>3. D[root] \subseteq ReachableFrom(D, D[root])
  BY <1>2, ReachableClosed
<1>. HIDE DEF w
<1>4. VisitSound(t, D, D[root], w)
  BY <1>1, <1>2, <1>3 DEF VisitSound
<1>. QED
  BY <1>4 DEF w

\* A key comes off the stack, and, if it is new, its dependents go on it.
LEMMA VisitGoesOn ==
  ASSUME NEW D \in Arrows, NEW st \in SUBSET Keys, NEW t, NEW w, VisitSound(t, D, st, w),
         NEW k \in st
  PROVE  LET inserted == KeySetInsert(t, k) IN
         VisitSound(inserted.set, D,
                    IF inserted.fresh THEN (st \ {k}) \cup D[k] ELSE st \ {k},
                    IF inserted.fresh THEN [w EXCEPT !.met = @ \cup {k}] ELSE w)
<1>. DEFINE into == KeySetInsert(t, k).set
            fresh == KeySetInsert(t, k).fresh
            all == ReachableFrom(D, D[w.root])
            further == (st \ {k}) \cup D[k]
            noted == [w EXCEPT !.met = @ \cup {k}]
<1>1. /\ w \in Visits /\ IsKeySet(t) /\ Members(t) = w.met
      /\ w.met \cup st \subseteq all
      /\ D[w.root] \subseteq w.met \cup st
      /\ \A h \in w.met : D[h] \subseteq w.met \cup st
  BY DEF VisitSound
<1>2. /\ k \in Keys /\ w.root \in Keys /\ w.met \in SUBSET Keys
      /\ D \in [Keys -> SUBSET Keys] /\ D[w.root] \in SUBSET Keys
  BY <1>1 DEF Visits, Arrows
<1>3. all \in SUBSET Keys /\ \A h \in all : D[h] \subseteq all
  BY <1>2, ReachableClosed DEF ClosedUnder
<1>4. IsKeySet(into) /\ Members(into) = w.met \cup {k} /\ (fresh <=> k \notin w.met)
  BY <1>1, <1>2, InsertedKey
<1>5. noted \in Visits /\ noted.root = w.root /\ noted.met = w.met \cup {k}
  BY <1>1, <1>2 DEF Visits
<1>. HIDE DEF into, fresh, all, further, noted
<1>6. CASE fresh
  <2>1. further = (st \ {k}) \cup D[k]
    BY DEF further
  <2>2. k \in all
    BY <1>1
  <2>3. D[k] \subseteq all
    BY <1>3, <2>2
  <2>4. noted.met \cup further \subseteq all
    BY <1>1, <1>5, <2>1, <2>2, <2>3
  <2>5. D[w.root] \subseteq noted.met \cup further
    BY <1>1, <1>5, <2>1
  <2>6. ASSUME NEW h \in noted.met PROVE D[h] \subseteq noted.met \cup further
    BY <1>1, <1>5, <2>1
  <2>7. VisitSound(into, D, further, noted)
    BY <1>4, <1>5, <2>4, <2>5, <2>6 DEF VisitSound, all
  <2>. QED
    BY <1>6, <2>7 DEF into, fresh, further, noted
<1>7. CASE ~fresh
  <2>1. k \in w.met /\ w.met \cup {k} = w.met /\ w.met \cup (st \ {k}) = w.met \cup st
    BY <1>4, <1>7
  <2>2. VisitSound(into, D, st \ {k}, w)
    BY <1>1, <1>4, <2>1 DEF VisitSound, all
  <2>. QED
    BY <1>7, <2>2 DEF into, fresh
<1>. QED
  BY <1>6, <1>7

\* When the stack is empty everything has been met.
LEMMA VisitMeetsAll ==
  ASSUME NEW D \in Arrows, NEW t, NEW w, VisitSound(t, D, {}, w)
  PROVE  w.met = ReachableFrom(D, D[w.root])
<1>1. /\ w \in Visits /\ w.met \subseteq ReachableFrom(D, D[w.root])
      /\ D[w.root] \subseteq w.met /\ \A h \in w.met : D[h] \subseteq w.met
  BY DEF VisitSound
<1>2. D \in [Keys -> SUBSET Keys] /\ w.met \in SUBSET Keys
  BY <1>1 DEF Visits, Arrows
<1>3. ReachableFrom(D, D[w.root]) \subseteq w.met
  BY <1>1, <1>2, ReachableLeast DEF ClosedUnder
<1>. QED
  BY <1>1, <1>3

\* Maps from some of the keys to keys.
ListedKeys == UNION {[S -> Keys] : S \in SUBSET Keys}

\* What such a map is.
LEMMA KeysListedAre ==
  ASSUME NEW f
  PROVE  f \in ListedKeys <=> DOMAIN f \in SUBSET Keys /\ f \in [DOMAIN f -> Keys]
  BY DEF ListedKeys

\* The arrows from the sources to what was met from them.
Leads(source) == [k \in Keys |-> {d \in DOMAIN source : source[d] = k}]

\* The sources of what was met are dependencies met before, and lead to the
\* root.
Sourced(D, met, root, source) ==
  /\ source \in ListedKeys /\ DOMAIN source = met \ {root}
  /\ \A d \in DOMAIN source : source[d] \in met /\ d \in D[source[d]]
  /\ met \subseteq ReachableFrom(Leads(source), {root})

\* A key that is new is reported with the key it was met from
\* (EagerPolicy::propagate_with_trace).
LEMMA NotedSource ==
  ASSUME NEW D \in Arrows, NEW met \in SUBSET Keys, NEW root \in met, NEW source,
         Sourced(D, met, root, source), NEW from \in met, NEW k \in Keys,
         k \in D[from], k \notin met
  PROVE  Sourced(D, met \cup {k}, root, Entered(source, k, from))
<1>. DEFINE noted == [h \in DOMAIN source \cup {k} |-> IF h = k THEN from ELSE source[h]]
            before == Leads(source)
            after == Leads(noted)
            all == ReachableFrom(after, {root})
<1>1. /\ DOMAIN source = met \ {root} /\ source \in [DOMAIN source -> Keys]
      /\ \A d \in DOMAIN source : source[d] \in met /\ d \in D[source[d]]
      /\ met \subseteq ReachableFrom(before, {root})
  BY KeysListedAre DEF Sourced
<1>2. /\ noted \in [DOMAIN noted -> Keys] /\ DOMAIN noted = DOMAIN source \cup {k}
      /\ noted[k] = from /\ k \notin DOMAIN source
      /\ \A h \in DOMAIN source : noted[h] = source[h]
  BY <1>1
<1>3. Entered(source, k, from) = noted
  BY DEF Entered
<1>4. before \in [Keys -> SUBSET Keys] /\ \A h \in Keys : before[h] = {d \in DOMAIN source : source[d] = h}
  BY <1>1 DEF Leads
<1>. HIDE DEF noted
<1>5. noted \in ListedKeys
  BY <1>1, <1>2, KeysListedAre
<1>6. after \in [Keys -> SUBSET Keys] /\ \A h \in Keys : after[h] = {d \in DOMAIN noted : noted[d] = h}
  BY <1>1, <1>2 DEF Leads
<1>. HIDE DEF before, after
<1>7. ASSUME NEW h \in Keys PROVE before[h] \subseteq after[h]
  BY <1>2, <1>4, <1>6
<1>8. k \in after[from] /\ from \in Keys /\ root \in Keys
  BY <1>2, <1>6
<1>9. all \in SUBSET Keys /\ root \in all /\ \A h \in all : after[h] \subseteq all
  <2>1. {root} \in SUBSET Keys /\ after \in [Keys -> SUBSET Keys]
    BY <1>6, <1>8
  <2>2. all \in SUBSET Keys /\ {root} \subseteq all /\ ClosedUnder(after, all)
    BY <2>1, ReachableClosed
  <2>. HIDE DEF all
  <2>. QED
    BY <2>2 DEF ClosedUnder
<1>. HIDE DEF all
<1>10. met \subseteq all
  <2>1. \A h \in all : before[h] \subseteq all
    BY <1>7, <1>9
  <2>2. ReachableFrom(before, {root}) \subseteq all
    BY <1>4, <1>9, <2>1, ReachableLeast DEF ClosedUnder
  <2>. QED
    BY <1>1, <2>2
<1>11. met \cup {k} \subseteq all
  BY <1>8, <1>9, <1>10
<1>12. DOMAIN noted = (met \cup {k}) \ {root}
  BY <1>1, <1>2
<1>13. ASSUME NEW d \in DOMAIN noted
       PROVE  noted[d] \in met \cup {k} /\ d \in D[noted[d]]
  BY <1>1, <1>2
<1>14. Sourced(D, met \cup {k}, root, noted)
  BY <1>5, <1>11, <1>12, <1>13 DEF Sourced, all, after
<1>. QED
  BY <1>3, <1>14

\* What a traced walk remembers.
Traced == [phase : {"trace"}, root : Keys, met : SUBSET Keys, at : SUBSET Keys,
           todo : SUBSET Keys, source : ListedKeys]

\* The visited set holds what was met, all of it reachable and explained;
\* what still has to be met from a key is one arrow away from it, and nothing
\* else lies one arrow beyond what was met and is off the stack.
TraceSound(t, D, st, w) ==
  /\ w \in Traced
  /\ IsKeySet(t) /\ Members(t) = w.met
  /\ w.root \in w.met /\ st \subseteq w.met /\ w.at \subseteq w.met
  /\ w.todo # {} => w.at # {}
  /\ \A k \in w.at : w.todo \subseteq D[k]
  /\ w.met \subseteq ReachableFrom(D, {w.root})
  /\ \A k \in w.met \ st : D[k] \subseteq w.met \cup w.todo
  /\ Sourced(D, w.met, w.root, w.source)

\* A traced walk begins at its root, which is visited
\* (EagerPolicy::propagate_with_trace).
LEMMA TraceBegins ==
  ASSUME NEW D \in Arrows, NEW root \in Keys, NEW t, IsKeySet(t), Members(t) = {}
  PROVE  TraceSound(KeySetInsert(t, root).set, D, {root},
                    [phase |-> "trace", root |-> root, met |-> {root}, at |-> {},
                     todo |-> {}, source |-> [k \in {} |-> root]])
<1>. DEFINE none == [k \in {} |-> root]
            w == [phase |-> "trace", root |-> root, met |-> {root}, at |-> {},
                  todo |-> {}, source |-> none]
            into == KeySetInsert(t, root).set
<1>1. DOMAIN none = {} /\ none \in [{} -> Keys]
  OBVIOUS
<1>. HIDE DEF none
<1>2. none \in ListedKeys
  BY <1>1, KeysListedAre
<1>3. w \in Traced /\ w.root = root /\ w.met = {root} /\ w.at = {} /\ w.todo = {} /\ w.source = none
  <2>1. w \in Traced
    BY <1>2 DEF Traced
  <2>. QED
    BY <2>1
<1>4. IsKeySet(into) /\ Members(into) = {root}
  BY InsertedKey, SMTT(20)
<1>5. {root} \subseteq ReachableFrom(D, {root})
  BY ReachableClosed DEF Arrows
<1>6. Leads(none) \in [Keys -> SUBSET Keys]
  BY <1>1 DEF Leads
<1>7. {root} \subseteq ReachableFrom(Leads(none), {root})
  BY <1>6, ReachableClosed
<1>8. Sourced(D, {root}, root, none)
  BY <1>1, <1>2, <1>7 DEF Sourced
<1>. HIDE DEF w, into
<1>9. TraceSound(into, D, {root}, w)
  BY <1>3, <1>4, <1>5, <1>8 DEF TraceSound
<1>. QED
  BY <1>9 DEF w, into, none

\* The outer loop.
LEMMA TraceTakesKey ==
  ASSUME NEW D \in Arrows, NEW st \in SUBSET Keys, NEW t, NEW w, TraceSound(t, D, st, w),
         w.todo = {}, NEW k \in st
  PROVE  TraceSound(t, D, st \ {k}, [w EXCEPT !.at = {k}, !.todo = D[k]])
<1>. DEFINE v == [w EXCEPT !.at = {k}, !.todo = D[k]]
<1>1. w \in Traced /\ k \in w.met /\ D[k] \in SUBSET Keys /\ k \in Keys
  BY DEF TraceSound, Arrows
<1>2. /\ v \in Traced /\ v.root = w.root /\ v.met = w.met /\ v.at = {k} /\ v.todo = D[k]
      /\ v.source = w.source
  BY <1>1 DEF Traced
<1>. HIDE DEF v
<1>3. ASSUME NEW h \in v.met \ (st \ {k}) PROVE D[h] \subseteq v.met \cup v.todo
  BY <1>2, <1>3 DEF TraceSound
<1>4. TraceSound(t, D, st \ {k}, v)
  BY <1>1, <1>2, <1>3 DEF TraceSound
<1>. QED
  BY <1>4 DEF v

\* The inner loop.
LEMMA TraceMeetsKey ==
  ASSUME NEW D \in Arrows, NEW st \in SUBSET Keys, NEW t, NEW w, TraceSound(t, D, st, w),
         NEW k \in w.todo
  PROVE  LET inserted == KeySetInsert(t, k) IN
         TraceSound(inserted.set, D,
                    IF inserted.fresh THEN st \cup {k} ELSE st,
                    IF inserted.fresh
                    THEN [w EXCEPT !.todo = @ \ {k}, !.met = @ \cup {k},
                                   !.source = Entered(@, k, CHOOSE from \in w.at : TRUE)]
                    ELSE [w EXCEPT !.todo = @ \ {k}])
<1>. DEFINE into == KeySetInsert(t, k).set
            fresh == KeySetInsert(t, k).fresh
            from == CHOOSE h \in w.at : TRUE
            told == Entered(w.source, k, from)
            noted == [w EXCEPT !.todo = @ \ {k}, !.met = @ \cup {k}, !.source = Entered(@, k, from)]
            passed == [w EXCEPT !.todo = @ \ {k}]
<1>1. /\ w \in Traced /\ IsKeySet(t) /\ Members(t) = w.met
      /\ w.root \in w.met /\ st \subseteq w.met /\ w.at \subseteq w.met /\ w.at # {}
      /\ \A h \in w.at : w.todo \subseteq D[h]
      /\ w.met \subseteq ReachableFrom(D, {w.root})
      /\ \A h \in w.met \ st : D[h] \subseteq w.met \cup w.todo
      /\ Sourced(D, w.met, w.root, w.source)
  BY DEF TraceSound
<1>2. /\ k \in Keys /\ w.root \in Keys /\ w.met \in SUBSET Keys /\ w.todo \in SUBSET Keys
      /\ D \in [Keys -> SUBSET Keys]
  BY <1>1 DEF Traced, Arrows
<1>3. IsKeySet(into) /\ Members(into) = w.met \cup {k} /\ (fresh <=> k \notin w.met)
  BY <1>1, <1>2, InsertedKey
<1>4. from \in w.at
  BY <1>1
<1>. HIDE DEF into, fresh, from
<1>5. from \in w.met /\ k \in D[from]
  BY <1>1, <1>4
<1>6. CASE fresh
  <2>1. Sourced(D, w.met \cup {k}, w.root, told)
    BY <1>1, <1>2, <1>3, <1>5, <1>6, NotedSource
  <2>2. told \in ListedKeys
    BY <2>1 DEF Sourced
  <2>3. /\ noted.root = w.root /\ noted.met = w.met \cup {k} /\ noted.at = w.at
        /\ noted.todo = w.todo \ {k} /\ noted.source = told /\ noted \in Traced
    BY <1>1, <1>2, <2>2 DEF Traced
  <2>. HIDE DEF noted, told
  <2>4. k \in ReachableFrom(D, {w.root})
    <3>1. \A h \in ReachableFrom(D, {w.root}) : D[h] \subseteq ReachableFrom(D, {w.root})
      BY <1>2, ReachableClosed DEF ClosedUnder
    <3>. QED
      BY <1>1, <1>5, <3>1
  <2>5. ASSUME NEW h \in noted.met \ (st \cup {k}) PROVE D[h] \subseteq noted.met \cup noted.todo
    BY <1>1, <2>3, <2>5
  <2>6. TraceSound(into, D, st \cup {k}, noted)
    BY <1>1, <1>3, <2>1, <2>3, <2>4, <2>5 DEF TraceSound
  <2>. QED
    BY <1>6, <2>6 DEF into, fresh, noted, from
<1>7. CASE ~fresh
  <2>1. k \in w.met /\ w.met \cup {k} = w.met
    BY <1>3, <1>7
  <2>2. /\ passed.root = w.root /\ passed.met = w.met /\ passed.at = w.at
        /\ passed.todo = w.todo \ {k} /\ passed.source = w.source /\ passed \in Traced
    BY <1>1, <1>2 DEF Traced
  <2>. HIDE DEF passed
  <2>3. TraceSound(into, D, st, passed)
    BY <1>1, <1>3, <2>1, <2>2 DEF TraceSound
  <2>. QED
    BY <1>7, <2>3 DEF into, fresh, passed
<1>. QED
  BY <1>6, <1>7

\* When the stack is empty, and nothing is left of a key, everything has been met.
LEMMA TraceMeetsAll ==
  ASSUME NEW D \in Arrows, NEW t, NEW w, TraceSound(t, D, {}, w), w.todo = {}
  PROVE  w.met = ReachableFrom(D, {w.root})
<1>1. /\ w \in Traced /\ w.met \subseteq ReachableFrom(D, {w.root})
      /\ {w.root} \subseteq w.met /\ \A h \in w.met : D[h] \subseteq w.met
  BY DEF TraceSound
<1>2. D \in [Keys -> SUBSET Keys] /\ w.met \in SUBSET Keys
  BY <1>1 DEF Traced, Arrows
<1>3. ReachableFrom(D, {w.root}) \subseteq w.met
  BY <1>1, <1>2, ReachableLeast DEF ClosedUnder
<1>. QED
  BY <1>1, <1>3

-----------------------------------------------------------------------------
(* Breadth first: how far along D a key is from where the search starts.     *)

\* f[n]: the keys that n arrows of D or fewer lead to.
IsNear(f, D, from) ==
  /\ f \in [Nat -> SUBSET Keys] /\ f[0] = {from}
  /\ \A n \in Nat : f[n + 1] = f[n] \cup UNION {D[k] : k \in f[n]}

Near(D, from) == CHOOSE f : IsNear(f, D, from)

\* k is n arrows away, and not fewer.
At(f, k, n) == n \in Nat /\ k \in f[n] /\ \A m \in Nat : k \in f[m] => n <= m

\* There is such a function (dependency_path, the levels of its frontier).
LEMMA NearIs ==
  ASSUME NEW D \in Arrows, NEW from \in Keys
  PROVE  IsNear(Near(D, from), D, from)
<1>. DEFINE S == SUBSET Keys
            first == {from}
            step == [near \in S |-> near \cup UNION {D[k] : k \in near}]
<1>1. D \in [Keys -> SUBSET Keys]
  BY DEF Arrows
<1>2. step \in [S -> S]
  BY <1>1
<1>3. \A near \in S : step[near] = near \cup UNION {D[k] : k \in near}
  OBVIOUS
<1>4. first \in S
  OBVIOUS
<1>. HIDE DEF step, S, first
<1>5. PICK f \in [Nat -> S] : f[0] = first /\ \A n \in Nat : f[n + 1] = step[f[n]]
  <2>1. \A in \in S, by \in [S -> S] :
          \E f \in [Nat -> S] : f[0] = in /\ \A n \in Nat : f[n + 1] = by[f[n]]
    BY LoopRuns
  <2>. QED
    BY <1>2, <1>4, <2>1
<1>6. ASSUME NEW n \in Nat PROVE f[n + 1] = f[n] \cup UNION {D[k] : k \in f[n]}
  <2>1. f[n] \in S
    BY <1>5
  <2>2. step[f[n]] = f[n] \cup UNION {D[k] : k \in f[n]}
    BY <1>3, <2>1
  <2>. QED
    BY <1>5, <2>2
<1>7. IsNear(f, D, from)
  BY <1>5, <1>6 DEF IsNear, S, first
<1>. QED
  BY <1>7 DEF Near

\* Further steps lead further.
LEMMA NearGrows ==
  ASSUME NEW D, NEW from, NEW f, IsNear(f, D, from), NEW m \in Nat, NEW n \in Nat, m <= n
  PROVE  f[m] \subseteq f[n]
<1>. DEFINE T == {i \in Nat : f[m] \subseteq f[m + i]}
<1>1. 0 \in T
  OBVIOUS
<1>2. ASSUME NEW i \in T PROVE i + 1 \in T
  <2>1. i \in Nat /\ m + i \in Nat /\ m + (i + 1) = (m + i) + 1
    OBVIOUS
  <2>2. f[(m + i) + 1] = f[m + i] \cup UNION {D[k] : k \in f[m + i]}
    BY <2>1 DEF IsNear
  <2>. QED
    BY <1>2, <2>1, <2>2
<1>3. T = Nat
  <2>1. T \in SUBSET Nat
    OBVIOUS
  <2>. HIDE DEF T
  <2>. QED
    BY <1>1, <1>2, <2>1, EveryTurn
<1>4. n - m \in Nat /\ m + (n - m) = n
  OBVIOUS
<1>. QED
  BY <1>3, <1>4

\* What is one arrow from a key that is n away is n + 1 away, if it is not nearer.
LEMMA NextLevel ==
  ASSUME NEW D \in Arrows, NEW from, NEW f, IsNear(f, D, from), NEW n \in Nat, NEW h \in f[n],
         NEW k \in D[h], k \notin f[n]
  PROVE  At(f, k, n + 1)
<1>1. f[n + 1] = f[n] \cup UNION {D[x] : x \in f[n]}
  BY DEF IsNear
<1>2. k \in f[n + 1]
  BY <1>1
<1>3. ASSUME NEW m \in Nat, k \in f[m] PROVE n + 1 <= m
  <2>1. CASE m <= n
    BY <1>3, <2>1, NearGrows
  <2>2. CASE ~(m <= n)
    BY <2>2
  <2>. QED
    BY <2>1, <2>2
<1>. QED
  BY <1>2, <1>3 DEF At

\* No key is as many arrows away as there are keys.
LEMMA LevelsEnd ==
  ASSUME NEW D \in Arrows, NEW from \in Keys, NEW f, IsNear(f, D, from), NEW k, NEW n,
         At(f, k, n)
  PROVE  n < Cardinality(Keys)
<1>. DEFINE all == ReachableFrom(D, {from})
            c == Cardinality(Keys)
<1>1. D \in [Keys -> SUBSET Keys] /\ IsFiniteSet(Keys) /\ c \in Nat
  BY KeysAre, FS_CardinalityType DEF Arrows
<1>2. all \in SUBSET Keys /\ from \in all /\ \A x \in all : D[x] \subseteq all
  <2>1. all \in SUBSET Keys /\ {from} \subseteq all /\ ClosedUnder(D, all)
    BY <1>1, ReachableClosed
  <2>. HIDE DEF all
  <2>. QED
    BY <2>1 DEF ClosedUnder
<1>3. n \in Nat /\ k \in f[n] /\ \A m \in Nat : k \in f[m] => n <= m
  BY DEF At
<1>4. /\ f[0] = {from}
      /\ \A i \in Nat : f[i + 1] = f[i] \cup UNION {D[x] : x \in f[i]}
  BY DEF IsNear
<1>5. k \in all
  <2>. HIDE DEF all
  <2>. DEFINE T == {i \in Nat : f[i] \subseteq all}
  <2>1. 0 \in T
    BY <1>2, <1>4
  <2>2. ASSUME NEW i \in T PROVE i + 1 \in T
    <3>1. i \in Nat /\ f[i] \subseteq all /\ f[i + 1] = f[i] \cup UNION {D[x] : x \in f[i]}
      BY <1>4
    <3>2. f[i + 1] \subseteq all
      BY <1>2, <3>1
    <3>. QED
      BY <3>1, <3>2
  <2>3. T = Nat
    <3>1. T \in SUBSET Nat
      OBVIOUS
    <3>. HIDE DEF T
    <3>. QED
      BY <2>1, <2>2, <3>1, EveryTurn
  <2>. QED
    BY <1>3, <2>3
<1>6. k \in Keys /\ Reaches(D, from, k)
  BY <1>1, <1>2, <1>5, ReachableFromOne
<1>7. PICK l \in 1 .. c : \E s \in [1 .. l -> Keys] : LeadsBy(D, s, l, from, k)
  BY <1>1, <1>6, ShortChain
<1>8. PICK s \in [1 .. l -> Keys] : LeadsBy(D, s, l, from, k)
  BY <1>7
<1>9. /\ l \in Nat /\ l >= 1 /\ l <= c /\ s[1] = from /\ s[l] = k
      /\ \A i \in 1 .. l - 1 : s[i + 1] \in D[s[i]]
  BY <1>1, <1>8 DEF LeadsBy
<1>. HIDE DEF c, all
<1>. DEFINE T == {i \in Nat : i + 1 <= l => s[i + 1] \in f[i]}
<1>10. 0 \in T
  BY <1>4, <1>9
<1>11. ASSUME NEW i \in T PROVE i + 1 \in T
  <2>. SUFFICES ASSUME i + 1 + 1 <= l PROVE s[i + 1 + 1] \in f[i + 1]
    OBVIOUS
  <2>1. i \in Nat /\ i + 1 \in 1 .. l - 1 /\ s[i + 1] \in f[i]
    BY <1>9
  <2>2. s[i + 1 + 1] \in D[s[i + 1]]
    BY <1>9, <2>1
  <2>. QED
    BY <1>4, <2>1, <2>2
<1>12. T = Nat
  <2>1. T \in SUBSET Nat
    OBVIOUS
  <2>. HIDE DEF T
  <2>. QED
    BY <1>10, <1>11, <2>1, EveryTurn
<1>13. l - 1 \in Nat /\ l - 1 + 1 = l
  BY <1>9
<1>14. k \in f[l - 1]
  BY <1>9, <1>12, <1>13
<1>. QED
  BY <1>1, <1>3, <1>9, <1>13, <1>14 DEF c

\* A set of keys, and what is one arrow further.
Beyond(D, S) == S \cup UNION {D[k] : k \in S}

\* The steps that PathIsShortest counts, as far as it counts them
\* (dependency_path).
LEMMA StepsAreNear ==
  ASSUME dependents \in Arrows, NEW from \in Keys
  PROVE  LET near == WithinSteps(from) IN
         /\ DOMAIN near = 0 .. Cardinality(Keys)
         /\ \A n \in 0 .. Cardinality(Keys) : near[n] = Near(Dependencies, from)[n]
<1>. DEFINE c == Cardinality(Keys)
            f == Near(Dependencies, from)
            Loop(g) == g = [n \in 0 .. c |->
                              IF n = 0 THEN {from} ELSE Beyond(Dependencies, g[n - 1])]
            near == WithinSteps(from)
            short == [n \in 0 .. c |-> f[n]]
<1>1. c \in Nat
  BY KeysAre, FS_CardinalityType
<1>2. Dependencies \in Arrows
  BY DEF Dependencies, Transposed, Arrows
<1>3. near = CHOOSE g : Loop(g)
  BY DEF WithinSteps, Beyond
<1>4. /\ f[0] = {from}
      /\ \A n \in Nat : f[n + 1] = Beyond(Dependencies, f[n])
  BY <1>2, NearIs DEF IsNear, Beyond
<1>. HIDE DEF c, f
<1>5. Loop(short)
  <2>1. ASSUME NEW n \in 0 .. c
        PROVE  short[n] = IF n = 0 THEN {from} ELSE Beyond(Dependencies, short[n - 1])
    <3>1. CASE n = 0
      BY <1>1, <1>4, <3>1
    <3>2. CASE n # 0
      <4>1. n - 1 \in Nat /\ n - 1 + 1 = n /\ n - 1 \in 0 .. c
        BY <1>1, <3>2
      <4>2. f[n] = Beyond(Dependencies, f[n - 1])
        BY <1>4, <4>1
      <4>. QED
        BY <3>2, <4>1, <4>2
    <3>. QED
      BY <3>1, <3>2
  <2>. QED
    BY <2>1
<1>6. Loop(near)
  <2>. HIDE DEF Loop
  <2>. QED
    BY <1>3, <1>5
<1>7. DOMAIN near = 0 .. c /\ near[0] = {from}
  <2>. HIDE DEF near
  <2>1. 0 \in 0 .. c
    BY <1>1
  <2>. QED
    BY <1>6, <2>1
<1>8. ASSUME NEW n \in 1 .. c PROVE near[n] = Beyond(Dependencies, near[n - 1])
  <2>. HIDE DEF near
  <2>1. n \in 0 .. c /\ n # 0
    BY <1>1
  <2>. QED
    BY <1>6, <2>1
<1>. HIDE DEF Loop, near, short
<1>. DEFINE T == {n \in Nat : n <= c => near[n] = f[n]}
<1>9. 0 \in T
  BY <1>4, <1>7
<1>10. ASSUME NEW n \in T PROVE n + 1 \in T
  <2>. SUFFICES ASSUME n + 1 <= c PROVE near[n + 1] = f[n + 1]
    OBVIOUS
  <2>1. n \in Nat /\ near[n] = f[n] /\ n + 1 \in 1 .. c /\ n + 1 - 1 = n
    BY <1>1
  <2>2. near[n + 1] = Beyond(Dependencies, near[n])
    BY <1>8, <2>1
  <2>. QED
    BY <1>4, <2>1, <2>2
<1>11. T = Nat
  <2>1. T \in SUBSET Nat
    OBVIOUS
  <2>. HIDE DEF T
  <2>. QED
    BY <1>9, <1>10, <2>1, EveryTurn
<1>12. \A n \in 0 .. c : near[n] = f[n]
  BY <1>1, <1>11
<1>. QED
  BY <1>7, <1>12 DEF c, f, near

\* A queue without its first item and with others behind (VecDeque).
LEMMA QueueGoesOn ==
  ASSUME NEW K, NEW q \in Seq(K), q # <<>>, NEW c \in Nat, NEW o \in [1 .. c -> K]
  PROVE  LET p == Tail(q) \o o IN
         /\ p \in Seq(K) /\ Len(p) = (Len(q) - 1) + c
         /\ \A j \in 1 .. Len(q) - 1 : p[j] = q[j + 1]
         /\ \A j \in 1 .. c : p[(Len(q) - 1) + j] = o[j]
<1>1. Len(q) \in Nat /\ Len(q) >= 1
  OBVIOUS
<1>2. /\ Tail(q) \in Seq(K) /\ Len(Tail(q)) = Len(q) - 1
      /\ \A j \in 1 .. Len(q) - 1 : Tail(q)[j] = q[j + 1]
  BY <1>1
<1>3. o \in Seq(K) /\ Len(o) = c
  OBVIOUS
<1>. DEFINE t == Tail(q)
<1>. HIDE DEF t
<1>4. /\ t \o o \in Seq(K) /\ Len(t \o o) = Len(t) + Len(o)
      /\ \A j \in 1 .. Len(t) : (t \o o)[j] = t[j]
      /\ \A j \in 1 .. Len(o) : (t \o o)[Len(t) + j] = o[j]
  BY <1>2, <1>3 DEF t
<1>. QED
  BY <1>2, <1>3, <1>4 DEF t

\* k waits to be expanded.
OnFrontier(q, k) == \E j \in 1 .. Len(q) : q[j] = k

\* The frontier q holds keys that are e arrows away, the first i of them, and
\* then keys that are one more; the keys R that were found are all that are e
\* away, and none that is further than one more.
InOrder(f, R, q, e, i) ==
  /\ e \in Nat /\ i \in Nat /\ i <= Len(q)
  /\ f[e] \subseteq R /\ R \subseteq f[e + 1]
  /\ \A j \in 1 .. Len(q) : At(f, q[j], IF j <= i THEN e ELSE e + 1)

\* The search so far: what was found and is no longer on the frontier was
\* expanded and is not what is searched for, and what a key was found from is
\* one arrow nearer.
Explored(f, D, from, to, q, r) ==
  /\ q \in Seq(Keys) /\ r \in ListedKeys /\ from \in DOMAIN r /\ r[from] = from
  /\ \A j \in 1 .. Len(q) : q[j] \in DOMAIN r
  /\ \A k \in DOMAIN r : OnFrontier(q, k) \/ (k # to /\ D[k] \subseteq DOMAIN r)
  /\ \A k \in DOMAIN r \ {from} :
       r[k] \in DOMAIN r /\ k \in D[r[k]] /\ \A n \in Nat : At(f, r[k], n) => At(f, k, n + 1)
  /\ \E e \in Nat, i \in Nat : InOrder(f, DOMAIN r, q, e, i)

\* A search begins with its start on the frontier (dependency_path).
LEMMA SearchBegins ==
  ASSUME NEW D \in Arrows, NEW from \in Keys, NEW to \in Keys, NEW f, IsNear(f, D, from)
  PROVE  Explored(f, D, from, to, <<from>>, [k \in {from} |-> from])
<1>. DEFINE r == [k \in {from} |-> from]
            q == <<from>>
<1>1. DOMAIN r = {from} /\ r[from] = from /\ r \in [DOMAIN r -> Keys]
  OBVIOUS
<1>2. q \in Seq(Keys) /\ Len(q) = 1 /\ q[1] = from
  OBVIOUS
<1>3. f[0] = {from} /\ f \in [Nat -> SUBSET Keys]
  BY DEF IsNear
<1>4. f[0] \subseteq f[0 + 1]
  BY NearGrows
<1>. HIDE DEF r, q
<1>5. r \in ListedKeys
  BY <1>1, KeysListedAre
<1>6. At(f, from, 0)
  BY <1>3 DEF At
<1>7. InOrder(f, DOMAIN r, q, 0, 1)
  BY <1>1, <1>2, <1>3, <1>4, <1>6 DEF InOrder
<1>8. OnFrontier(q, from)
  BY <1>2 DEF OnFrontier
<1>9. \E e \in Nat, i \in Nat : InOrder(f, DOMAIN r, q, e, i)
  <2>1. 0 \in Nat /\ 1 \in Nat
    OBVIOUS
  <2>. QED
    BY <1>7, <2>1
<1>10. \A j \in 1 .. Len(q) : q[j] \in DOMAIN r
  BY <1>1, <1>2
<1>11. Explored(f, D, from, to, q, r)
  BY <1>1, <1>2, <1>5, <1>8, <1>9, <1>10 DEF Explored
<1>. QED
  BY <1>11 DEF r, q

\* The frontier begins with a key of the nearer of its two levels; when that
\* is used up, the next one has been found whole.
LEMMA LevelGoesOn ==
  ASSUME NEW D \in Arrows, NEW from \in Keys, NEW to \in Keys, NEW f, IsNear(f, D, from),
         NEW q, NEW r, Explored(f, D, from, to, q, r), q # <<>>
  PROVE  \E e \in Nat, i \in Nat : i >= 1 /\ InOrder(f, DOMAIN r, q, e, i)
<1>1. PICK e \in Nat, i \in Nat : InOrder(f, DOMAIN r, q, e, i)
  BY DEF Explored
<1>2. q \in Seq(Keys) /\ Len(q) \in Nat /\ Len(q) >= 1 /\ r \in ListedKeys
  BY DEF Explored
<1>. DEFINE R == DOMAIN r
<1>3. /\ f[e] \subseteq R /\ R \subseteq f[e + 1]
      /\ \A j \in 1 .. Len(q) : At(f, q[j], IF j <= i THEN e ELSE e + 1)
  BY <1>1 DEF InOrder
<1>4. CASE i >= 1
  BY <1>1, <1>4
<1>5. CASE i = 0
  <2>1. \A j \in 1 .. Len(q) : At(f, q[j], e + 1)
    BY <1>3, <1>5
  <2>2. ASSUME NEW k \in f[e] PROVE D[k] \subseteq R
    <3>1. ~OnFrontier(q, k)
      <4>. SUFFICES ASSUME NEW j \in 1 .. Len(q), q[j] = k PROVE FALSE
        BY DEF OnFrontier
      <4>1. At(f, k, e + 1)
        BY <2>1
      <4>2. e + 1 <= e
        BY <2>2, <4>1 DEF At
      <4>. QED
        BY <4>2
    <3>2. k \in R
      BY <1>3, <2>2
    <3>. QED
      BY <3>1, <3>2 DEF Explored
  <2>3. /\ f[e + 1] = f[e] \cup UNION {D[k] : k \in f[e]}
        /\ f[(e + 1) + 1] = f[e + 1] \cup UNION {D[k] : k \in f[e + 1]}
    BY DEF IsNear
  <2>4. f[e + 1] \subseteq R /\ R \subseteq f[(e + 1) + 1]
    BY <1>3, <2>2, <2>3
  <2>5. InOrder(f, R, q, e + 1, Len(q))
    BY <1>2, <2>1, <2>4 DEF InOrder
  <2>. QED
    BY <1>2, <2>5
<1>. QED
  BY <1>4, <1>5

\* What keys were found from, with more of them found from cur.
FoundFrom(r, found, cur) ==
  [k \in DOMAIN r \cup found |-> IF k \in found THEN cur ELSE r[k]]

\* The first key of the frontier is expanded.
LEMMA SearchGoesOn ==
  ASSUME NEW D \in Arrows, NEW from \in Keys, NEW to \in Keys, NEW f, IsNear(f, D, from),
         NEW q, NEW r, Explored(f, D, from, to, q, r), q # <<>>, Head(q) # to,
         NEW found, found = D[Head(q)] \ DOMAIN r,
         NEW c \in Nat, NEW o \in [1 .. c -> found], {o[i] : i \in 1 .. c} = found
  PROVE  Explored(f, D, from, to, Tail(q) \o o, FoundFrom(r, found, Head(q)))
<1>. DEFINE p == Tail(q) \o o
            cur == Head(q)
            R == DOMAIN r
            s == [k \in R \cup found |-> IF k \in found THEN cur ELSE r[k]]
            l == Len(q) - 1
<1>1. /\ q \in Seq(Keys) /\ r \in ListedKeys /\ from \in R /\ r[from] = from
      /\ \A j \in 1 .. Len(q) : q[j] \in R
      /\ \A k \in R : OnFrontier(q, k) \/ (k # to /\ D[k] \subseteq R)
      /\ \A k \in R \ {from} :
           r[k] \in R /\ k \in D[r[k]] /\ \A n \in Nat : At(f, r[k], n) => At(f, k, n + 1)
  BY DEF Explored
<1>2. R \in SUBSET Keys /\ r \in [R -> Keys]
  BY <1>1, KeysListedAre
<1>3. cur = q[1] /\ Len(q) \in Nat /\ Len(q) >= 1 /\ l \in Nat /\ cur \in R /\ cur \in Keys
  BY <1>1, <1>2
<1>4. found \in SUBSET Keys /\ found \cap R = {} /\ found = D[cur] \ R
  BY <1>3 DEF Arrows
<1>5. /\ p \in Seq(Keys) /\ Len(p) = l + c
      /\ \A j \in 1 .. l : p[j] = q[j + 1]
      /\ \A j \in 1 .. c : p[l + j] = o[j]
  <2>1. o \in [1 .. c -> Keys]
    BY <1>4
  <2>. QED
    BY <1>1, <2>1, QueueGoesOn
<1>6. /\ DOMAIN s = R \cup found /\ s \in [DOMAIN s -> Keys]
      /\ \A k \in found : s[k] = cur
      /\ \A k \in R : s[k] = r[k]
  BY <1>2, <1>3, <1>4
<1>7. PICK e \in Nat, i \in Nat : i >= 1 /\ InOrder(f, R, q, e, i)
  BY LevelGoesOn
<1>8. /\ i <= Len(q) /\ f[e] \subseteq R /\ R \subseteq f[e + 1]
      /\ \A j \in 1 .. Len(q) : At(f, q[j], IF j <= i THEN e ELSE e + 1)
  BY <1>7 DEF InOrder
<1>. HIDE DEF p, s, l, cur
<1>9. s \in ListedKeys
  BY <1>2, <1>4, <1>6, KeysListedAre
<1>10. At(f, cur, e)
  BY <1>3, <1>7, <1>8
<1>11. ASSUME NEW k \in found PROVE At(f, k, e + 1) /\ k \in f[e + 1]
  <2>1. cur \in f[e] /\ k \in D[cur] /\ k \notin f[e]
    BY <1>4, <1>8, <1>10 DEF At
  <2>2. At(f, k, e + 1)
    BY <2>1, NextLevel
  <2>. QED
    BY <2>2 DEF At
<1>12. \A j \in 1 .. c : o[j] \in found
  OBVIOUS
<1>13. ASSUME NEW j \in 1 .. Len(p)
       PROVE  \/ j \in 1 .. l /\ j + 1 \in 1 .. Len(q) /\ p[j] = q[j + 1]
              \/ j > l /\ p[j] \in found
  <2>1. CASE j <= l
    <3>1. j \in 1 .. l /\ j + 1 \in 1 .. Len(q)
      BY <1>3, <2>1 DEF l
    <3>. QED
      BY <1>5, <3>1
  <2>2. CASE j > l
    <3>1. j - l \in 1 .. c /\ l + (j - l) = j
      BY <1>3, <1>5, <2>2
    <3>. QED
      BY <1>5, <1>12, <2>2, <3>1
  <2>. QED
    BY <1>3, <2>1, <2>2
<1>14. \A j \in 1 .. Len(p) : p[j] \in DOMAIN s
  BY <1>1, <1>6, <1>13
<1>15. ASSUME NEW k \in DOMAIN s
       PROVE  OnFrontier(p, k) \/ (k # to /\ D[k] \subseteq DOMAIN s)
  <2>1. CASE k \in found
    <3>1. PICK j \in 1 .. c : o[j] = k
      BY <2>1
    <3>2. l + j \in 1 .. Len(p) /\ p[l + j] = k
      BY <1>3, <1>5, <3>1
    <3>. QED
      BY <3>2 DEF OnFrontier
  <2>2. CASE k \in R /\ OnFrontier(q, k)
    <3>1. PICK j \in 1 .. Len(q) : q[j] = k
      BY <2>2 DEF OnFrontier
    <3>2. CASE j = 1
      BY <1>3, <1>4, <1>6, <3>1, <3>2 DEF cur
    <3>3. CASE j # 1
      <4>1. j - 1 \in 1 .. l /\ j - 1 + 1 = j /\ j - 1 \in 1 .. Len(p)
        BY <1>3, <1>5, <3>3 DEF l
      <4>2. p[j - 1] = k
        BY <1>5, <3>1, <4>1
      <4>. QED
        BY <4>1, <4>2 DEF OnFrontier
    <3>. QED
      BY <3>2, <3>3
  <2>3. CASE k \in R /\ ~OnFrontier(q, k)
    BY <1>1, <1>6, <2>3
  <2>. QED
    BY <1>6, <2>1, <2>2, <2>3
<1>16. ASSUME NEW k \in DOMAIN s \ {from}
       PROVE  s[k] \in DOMAIN s /\ k \in D[s[k]] /\ \A n \in Nat : At(f, s[k], n) => At(f, k, n + 1)
  <2>1. CASE k \in found
    <3>1. s[k] = cur /\ k \in D[cur] /\ cur \in DOMAIN s
      BY <1>3, <1>4, <1>6, <2>1
    <3>2. ASSUME NEW n \in Nat, At(f, cur, n) PROVE n = e
      BY <1>10, <3>2 DEF At
    <3>. QED
      BY <1>11, <2>1, <3>1, <3>2
  <2>2. CASE k \in R
    BY <1>1, <1>6, <2>2
  <2>. QED
    BY <1>6, <2>1, <2>2
<1>17. InOrder(f, DOMAIN s, p, e, i - 1)
  <2>1. i - 1 \in Nat /\ i - 1 <= Len(p) /\ i - 1 <= l
    BY <1>3, <1>5, <1>7, <1>8 DEF l
  <2>2. f[e] \subseteq DOMAIN s /\ DOMAIN s \subseteq f[e + 1]
    BY <1>6, <1>8, <1>11
  <2>3. ASSUME NEW j \in 1 .. Len(p) PROVE At(f, p[j], IF j <= i - 1 THEN e ELSE e + 1)
    <3>1. CASE j \in 1 .. l /\ j + 1 \in 1 .. Len(q) /\ p[j] = q[j + 1]
      <4>1. At(f, q[j + 1], IF j + 1 <= i THEN e ELSE e + 1)
        BY <1>8, <3>1
      <4>2. j + 1 <= i <=> j <= i - 1
        BY <1>7
      <4>. QED
        BY <3>1, <4>1, <4>2
    <3>2. CASE j > l /\ p[j] \in found
      <4>1. ~(j <= i - 1)
        BY <1>3, <2>1, <3>2
      <4>. QED
        BY <1>11, <3>2, <4>1
    <3>. QED
      BY <1>13, <3>1, <3>2
  <2>. QED
    BY <2>1, <2>2, <2>3 DEF InOrder
<1>18. s[from] = from /\ from \in DOMAIN s
  BY <1>1, <1>6
<1>19. Explored(f, D, from, to, p, s)
  <2>1. i - 1 \in Nat
    BY <1>7
  <2>. QED
    BY <1>5, <1>9, <1>14, <1>15, <1>16, <1>17, <1>18, <2>1 DEF Explored
<1>. QED
  BY <1>19 DEF p, s, cur, FoundFrom

\* When the frontier has run out, what is searched for cannot be reached.
LEMMA SearchEnds ==
  ASSUME NEW D \in Arrows, NEW from \in Keys, NEW to \in Keys, NEW f, IsNear(f, D, from),
         NEW q, NEW r, Explored(f, D, from, to, q, r), q = <<>>
  PROVE  \A n \in Nat : to \notin f[n]
<1>. DEFINE R == DOMAIN r
<1>1. \A k : ~OnFrontier(q, k)
  BY DEF OnFrontier
<1>2. from \in R /\ \A k \in R : k # to /\ D[k] \subseteq R
  BY <1>1 DEF Explored
<1>3. /\ f[0] = {from}
      /\ \A n \in Nat : f[n + 1] = f[n] \cup UNION {D[k] : k \in f[n]}
  BY DEF IsNear
<1>. HIDE DEF R
<1>. DEFINE T == {n \in Nat : f[n] \subseteq R}
<1>4. 0 \in T
  BY <1>2, <1>3
<1>5. ASSUME NEW n \in T PROVE n + 1 \in T
  <2>1. n \in Nat /\ f[n] \subseteq R /\ f[n + 1] = f[n] \cup UNION {D[k] : k \in f[n]}
    BY <1>3
  <2>2. f[n + 1] \subseteq R
    BY <1>2, <2>1
  <2>. QED
    BY <2>1, <2>2
<1>6. T = Nat
  <2>1. T \in SUBSET Nat
    OBVIOUS
  <2>. HIDE DEF T
  <2>. QED
    BY <1>4, <1>5, <2>1, EveryTurn
<1>. QED
  BY <1>2, <1>6

\* The chain back from a key, along what each key was found from.
Back(to, r) ==
  LET back[n \in 0..Cardinality(Keys)] == IF n = 0 THEN to ELSE r[back[n - 1]]
  IN  back

\* It is followed key by key (dependency_path, the loop over reached_from).
LEMMA BackStepByStep ==
  ASSUME NEW R \in SUBSET Keys, NEW r \in [R -> R], NEW to \in R
  PROVE  /\ DOMAIN Back(to, r) = 0 .. Cardinality(Keys) /\ Back(to, r)[0] = to
         /\ \A n \in 1 .. Cardinality(Keys) : Back(to, r)[n] = r[Back(to, r)[n - 1]]
<1>. DEFINE c == Cardinality(Keys)
            Loop(g) == g = [n \in 0 .. c |-> IF n = 0 THEN to ELSE r[g[n - 1]]]
            back == Back(to, r)
            step == [n \in 1 .. c |-> r]
<1>1. c \in Nat
  BY KeysAre, FS_CardinalityType
<1>2. back = CHOOSE g : Loop(g)
  BY DEF Back
<1>. HIDE DEF c
<1>3. step \in [1 .. c -> [R -> R]]
  OBVIOUS
<1>4. \A n \in 1 .. c : step[n] = r
  OBVIOUS
<1>. HIDE DEF step
<1>5. PICK f \in [0 .. c -> R] : GoesBy(f, to, c, step)
  BY <1>1, <1>3, TurnsRun
<1>6. f[0] = to /\ \A n \in 1 .. c : f[n] = r[f[n - 1]]
  BY <1>4, <1>5 DEF GoesBy
<1>7. Loop(f)
  <2>1. ASSUME NEW n \in 0 .. c PROVE f[n] = IF n = 0 THEN to ELSE r[f[n - 1]]
    <3>1. CASE n = 0
      BY <1>6, <3>1
    <3>2. CASE n # 0
      <4>1. n \in 1 .. c
        BY <1>1, <3>2
      <4>. QED
        BY <1>6, <3>2, <4>1
    <3>. QED
      BY <3>1, <3>2
  <2>. QED
    BY <1>5, <2>1
<1>8. Loop(back)
  <2>. HIDE DEF Loop
  <2>. QED
    BY <1>2, <1>7
<1>. HIDE DEF back
<1>9. DOMAIN back = 0 .. c /\ back[0] = to
  <2>1. 0 \in 0 .. c
    BY <1>1
  <2>. QED
    BY <1>8, <2>1
<1>10. ASSUME NEW n \in 1 .. c PROVE back[n] = r[back[n - 1]]
  <2>1. n \in 0 .. c /\ n # 0
    BY <1>1
  <2>. QED
    BY <1>8, <2>1
<1>. QED
  BY <1>9, <1>10 DEF c, back

\* Everything found is so many arrows away.
LEMMA FoundAtLevel ==
  ASSUME NEW D \in Arrows, NEW from \in Keys, NEW to \in Keys, NEW f, IsNear(f, D, from),
         NEW q, NEW r, Explored(f, D, from, to, q, r), NEW k \in DOMAIN r
  PROVE  \E n \in Nat : At(f, k, n)
<1>1. PICK e \in Nat, i \in Nat : InOrder(f, DOMAIN r, q, e, i)
  BY DEF Explored
<1>2. k \in f[e + 1] /\ e + 1 \in Nat
  BY <1>1 DEF InOrder
<1>. DEFINE T == {n \in Nat : k \in f[n]}
<1>3. T \in SUBSET Nat /\ T # {}
  BY <1>2
<1>4. PICK n \in T : \A m \in T : n <= m
  <2>. HIDE DEF T
  <2>. QED
    BY <1>3, LeastNumber
<1>5. At(f, k, n)
  BY <1>4 DEF At
<1>. QED
  BY <1>4, <1>5

\* The chain back from what was found comes to the start in as many steps as
\* it is arrows away, and not before.
LEMMA BackLeads ==
  ASSUME NEW D \in Arrows, NEW from \in Keys, NEW to \in Keys, NEW f, IsNear(f, D, from),
         NEW q, NEW r, Explored(f, D, from, to, q, r), to \in DOMAIN r,
         NEW l, At(f, to, l)
  PROVE  LET back == Back(to, r) IN
         /\ l \in 0 .. Cardinality(Keys) /\ DOMAIN back = 0 .. Cardinality(Keys)
         /\ back[0] = to /\ back[l] = from
         /\ \A n \in 0 .. l : back[n] \in Keys
         /\ \A n \in 0 .. l - 1 : back[n] # from /\ back[n] \in D[back[n + 1]]
<1>. DEFINE c == Cardinality(Keys)
            R == DOMAIN r
            back == Back(to, r)
<1>1. c \in Nat
  BY KeysAre, FS_CardinalityType
<1>2. l \in Nat /\ l < c
  BY LevelsEnd DEF At
<1>3. /\ from \in R /\ r[from] = from
      /\ \A k \in R \ {from} :
           r[k] \in R /\ k \in D[r[k]] /\ \A n \in Nat : At(f, r[k], n) => At(f, k, n + 1)
      /\ r \in ListedKeys
  BY DEF Explored
<1>4. R \in SUBSET Keys /\ r \in [R -> R]
  <2>1. R \in SUBSET Keys /\ r \in [R -> Keys]
    BY <1>3, KeysListedAre
  <2>2. \A k \in R : r[k] \in R
    BY <1>3
  <2>. QED
    BY <2>1, <2>2
<1>5. \A k \in R : \E n \in Nat : At(f, k, n)
  BY FoundAtLevel
<1>. HIDE DEF R
<1>6. to \in R
  BY DEF R
<1>7. /\ DOMAIN back = 0 .. c /\ back[0] = to
      /\ \A n \in 1 .. c : back[n] = r[back[n - 1]]
  BY <1>4, <1>6, BackStepByStep
<1>. HIDE DEF c, back
<1>8. f[0] = {from}
  BY DEF IsNear
<1>9. ASSUME NEW n \in Nat, At(f, from, n) PROVE n = 0
  BY <1>8, <1>9 DEF At
<1>. DEFINE T == {n \in Nat : n <= l => back[n] \in R /\ At(f, back[n], l - n)}
<1>10. 0 \in T
  BY <1>2, <1>6, <1>7
<1>11. ASSUME NEW n \in Nat, n + 1 <= l, back[n] \in R, At(f, back[n], l - n)
       PROVE  /\ back[n] # from /\ back[n] \in D[back[n + 1]]
              /\ back[n + 1] \in R /\ At(f, back[n + 1], l - (n + 1))
  <2>1. l - n \in Nat /\ l - n # 0
    BY <1>2, <1>11
  <2>2. back[n] # from
    BY <1>9, <1>11, <2>1
  <2>3. n + 1 \in 1 .. c /\ n + 1 - 1 = n
    BY <1>1, <1>2, <1>11
  <2>4. back[n + 1] = r[back[n]]
    BY <1>7, <2>3
  <2>5. /\ r[back[n]] \in R /\ back[n] \in D[r[back[n]]]
        /\ \A m \in Nat : At(f, r[back[n]], m) => At(f, back[n], m + 1)
    BY <1>3, <1>11, <2>2
  <2>6. PICK m \in Nat : At(f, r[back[n]], m)
    BY <1>5, <2>5
  <2>7. At(f, back[n], m + 1)
    BY <2>5, <2>6
  <2>8. m + 1 <= l - n /\ l - n <= m + 1
    BY <1>11, <2>1, <2>7 DEF At
  <2>9. m = l - (n + 1)
    BY <1>2, <2>8
  <2>. QED
    BY <2>2, <2>4, <2>5, <2>6, <2>9
<1>12. ASSUME NEW n \in T PROVE n + 1 \in T
  <2>. SUFFICES ASSUME n + 1 <= l PROVE back[n + 1] \in R /\ At(f, back[n + 1], l - (n + 1))
    OBVIOUS
  <2>1. n \in Nat /\ back[n] \in R /\ At(f, back[n], l - n)
    BY <1>2
  <2>. QED
    BY <1>11, <2>1
<1>13. T = Nat
  <2>1. T \in SUBSET Nat
    OBVIOUS
  <2>. HIDE DEF T
  <2>. QED
    BY <1>10, <1>12, <2>1, EveryTurn
<1>14. ASSUME NEW n \in 0 .. l PROVE back[n] \in R /\ At(f, back[n], l - n)
  <2>1. n \in T /\ n <= l
    BY <1>2, <1>13
  <2>. QED
    BY <2>1
<1>15. back[l] = from
  <2>1. l \in 0 .. l /\ l - l = 0
    BY <1>2
  <2>2. At(f, back[l], 0)
    BY <1>14, <2>1
  <2>. QED
    BY <1>8, <2>2 DEF At
<1>16. ASSUME NEW n \in 0 .. l - 1 PROVE back[n] # from /\ back[n] \in D[back[n + 1]]
  <2>1. n \in 0 .. l /\ n \in Nat /\ n + 1 <= l
    BY <1>2
  <2>2. back[n] \in R /\ At(f, back[n], l - n)
    BY <1>14, <2>1
  <2>. QED
    BY <1>11, <2>1, <2>2
<1>17. l \in 0 .. c /\ \A n \in 0 .. l : back[n] \in Keys
  BY <1>1, <1>2, <1>4, <1>14
<1>. QED
  BY <1>7, <1>15, <1>16, <1>17 DEF c, back

\* What a search remembers.
Searches == [phase : {"path"}, from : Keys, to : Keys, frontier : Seq(Keys),
             reachedFrom : ListedKeys]

PathSound(t, D, w) ==
  /\ w \in Searches /\ IsKeySet(t)
  /\ Explored(Near(D, w.from), D, w.from, w.to, w.frontier, w.reachedFrom)

\* The path that is answered leads from end to end, and has as many steps as
\* the one key is arrows away from the other (dependency_path).
LEMMA PathLeads ==
  ASSUME dependents \in Arrows, PathSound(table, Dependencies, walk),
         walk.frontier # <<>>, Head(walk.frontier) = walk.to
  PROVE  /\ Path[1] = walk.from /\ Path[Len(Path)] = walk.to
         /\ \A i \in 1 .. (Len(Path) - 1) : Path[i + 1] \in Dependencies[Path[i]]
         /\ \E l \in Nat : At(Near(Dependencies, walk.from), walk.to, l) /\ Len(Path) = l + 1
<1>. DEFINE D == Dependencies
            from == walk.from
            to == walk.to
            q == walk.frontier
            r == walk.reachedFrom
            f == Near(D, from)
            back == Back(to, r)
            froms == {n \in DOMAIN back : back[n] = from}
            length == Least(froms)
            c == Cardinality(Keys)
<1>1. D \in Arrows
  BY DEF Dependencies, Transposed, Arrows
<1>2. from \in Keys /\ to \in Keys /\ Explored(f, D, from, to, q, r)
  BY DEF PathSound, Searches
<1>3. IsNear(f, D, from)
  BY <1>1, <1>2, NearIs
<1>4. Path = [i \in 1 .. (length + 1) |-> back[length + 1 - i]]
  BY DEF Path, Back
<1>5. q # <<>> /\ Head(q) = to
  OBVIOUS
<1>. HIDE DEF D, from, to, q, r, f
<1>6. to \in DOMAIN r
  <2>1. q \in Seq(Keys) /\ \A j \in 1 .. Len(q) : q[j] \in DOMAIN r
    BY <1>2 DEF Explored
  <2>2. 1 \in 1 .. Len(q) /\ q[1] = to
    BY <1>5, <2>1
  <2>. QED
    BY <2>1, <2>2
<1>7. PICK l \in Nat : At(f, to, l)
  BY <1>1, <1>2, <1>3, <1>6, FoundAtLevel
<1>8. /\ l \in 0 .. c /\ DOMAIN back = 0 .. c
      /\ back[0] = to /\ back[l] = from
      /\ \A n \in 0 .. l : back[n] \in Keys
      /\ \A n \in 0 .. l - 1 : back[n] # from /\ back[n] \in D[back[n + 1]]
  BY <1>1, <1>2, <1>3, <1>6, <1>7, BackLeads
<1>. HIDE DEF back
<1>9. length = l
  <2>1. c \in Nat
    BY KeysAre, FS_CardinalityType
  <2>2. froms \in SUBSET Nat /\ l \in froms
    BY <1>8, <2>1
  <2>3. \A n \in froms : n >= l
    BY <1>8, <2>1
  <2>. HIDE DEF froms
  <2>4. length \in froms /\ length <= l
    BY <2>2, LeastIs
  <2>. HIDE DEF length
  <2>5. length \in Nat /\ length >= l
    BY <2>2, <2>3, <2>4
  <2>. QED
    BY <2>4, <2>5
<1>. HIDE DEF length
<1>10. Path = [i \in 1 .. (l + 1) |-> back[l + 1 - i]]
  BY <1>4, <1>9
<1>11. Len(Path) = l + 1
  <2>1. \A i \in 1 .. (l + 1) : back[l + 1 - i] \in Keys
    BY <1>8
  <2>2. Path \in [1 .. (l + 1) -> Keys]
    BY <1>10, <2>1
  <2>3. Path \in Seq(Keys) /\ l + 1 \in Nat
    BY <1>8, <2>2
  <2>. QED
    BY <1>10, <2>2, <2>3
<1>12. Path[1] = from /\ Path[Len(Path)] = to
  BY <1>8, <1>10, <1>11
<1>13. ASSUME NEW i \in 1 .. (Len(Path) - 1) PROVE Path[i + 1] \in D[Path[i]]
  <2>1. i \in 1 .. l
    BY <1>11
  <2>2. l - i \in 0 .. l - 1 /\ l - i + 1 = l + 1 - i
    BY <2>1
  <2>3. Path[i + 1] = back[l - i] /\ Path[i] = back[l + 1 - i]
    BY <1>10, <2>1
  <2>. QED
    BY <1>8, <2>2, <2>3
<1>. QED
  BY <1>7, <1>11, <1>12, <1>13 DEF D, from, to, f

\* What dependency_path answers: None only if there is no chain, and otherwise
\* one than which none is shorter.
LEMMA AnswersShortest ==
  ASSUME dependents \in Arrows, PathSound(table, Dependencies, walk), AnswerPath
  PROVE  LET near == WithinSteps(walk.from) IN
         IF walk.frontier = <<>> THEN walk.to \notin near[Cardinality(Keys)]
         ELSE /\ Path[1] = walk.from /\ Path[Len(Path)] = walk.to
              /\ \A i \in 1..(Len(Path) - 1) : Path[i + 1] \in Dependencies[Path[i]]
              /\ \A n \in DOMAIN near : walk.to \in near[n] => Len(Path) <= n + 1
<1>. DEFINE f == Near(Dependencies, walk.from)
            near == WithinSteps(walk.from)
            c == Cardinality(Keys)
<1>1. walk.from \in Keys /\ walk.to \in Keys /\ Dependencies \in Arrows /\ c \in Nat
  BY KeysAre, FS_CardinalityType DEF PathSound, Searches, Dependencies, Transposed, Arrows
<1>2. DOMAIN near = 0 .. c /\ \A n \in 0 .. c : near[n] = f[n]
  BY <1>1, StepsAreNear
<1>3. IsNear(f, Dependencies, walk.from)
  BY <1>1, NearIs
<1>4. Explored(f, Dependencies, walk.from, walk.to, walk.frontier, walk.reachedFrom)
  BY DEF PathSound
<1>. HIDE DEF near, c, f
<1>5. CASE walk.frontier = <<>>
  <2>1. \A n \in Nat : walk.to \notin f[n]
    BY <1>1, <1>3, <1>4, <1>5, SearchEnds
  <2>2. walk.to \notin near[c]
    BY <1>1, <1>2, <2>1
  <2>. QED
    BY <1>5, <2>2 DEF near, c
<1>6. CASE walk.frontier # <<>>
  <2>1. Head(walk.frontier) = walk.to
    BY <1>6 DEF AnswerPath
  <2>2. /\ Path[1] = walk.from /\ Path[Len(Path)] = walk.to
        /\ \A i \in 1 .. (Len(Path) - 1) : Path[i + 1] \in Dependencies[Path[i]]
        /\ \E l \in Nat : At(f, walk.to, l) /\ Len(Path) = l + 1
    BY <1>6, <2>1, PathLeads DEF f
  <2>3. ASSUME NEW n \in DOMAIN near, walk.to \in near[n] PROVE Len(Path) <= n + 1
    <3>1. n \in Nat /\ walk.to \in f[n]
      BY <1>1, <1>2, <2>3
    <3>. QED
      BY <2>2, <3>1 DEF At
  <2>. QED
    BY <1>6, <2>2, <2>3 DEF near
<1>. QED
  BY <1>5, <1>6

-----------------------------------------------------------------------------
(* The inductive invariant: the container is sound, and so is the walk.      *)

WalkSound(t, D, st, w) ==
  \/ w = Nowhere
  \/ VisitSound(t, D, st, w) \/ TraceSound(t, D, st, w) \/ PathSound(t, Transposed(D), w)

WalkInv ==
  /\ dependents \in Arrows /\ stack \in SUBSET Keys
  /\ Sound(table) /\ WalkSound(table, dependents, stack, walk)

\* One phase at a time; a walk has a key set.
LEMMA PhaseOf ==
  ASSUME WalkInv
  PROVE  /\ walk.phase = "visit" => VisitSound(table, dependents, stack, walk)
         /\ walk.phase = "trace" => TraceSound(table, dependents, stack, walk)
         /\ walk.phase = "path" => PathSound(table, Dependencies, walk)
         /\ walk.phase \notin {"visit", "trace", "path"} => walk = Nowhere
         /\ table.kind # "KeySet" => walk = Nowhere
<1>1. Nowhere.phase = "none"
  BY DEF Nowhere
<1>2. VisitSound(table, dependents, stack, walk) => walk.phase = "visit" /\ table.kind = "KeySet"
  BY KindOf DEF VisitSound, Visits
<1>3. TraceSound(table, dependents, stack, walk) => walk.phase = "trace" /\ table.kind = "KeySet"
  BY KindOf DEF TraceSound, Traced
<1>4. PathSound(table, Dependencies, walk) => walk.phase = "path" /\ table.kind = "KeySet"
  BY KindOf DEF PathSound, Searches
<1>. QED
  BY <1>1, <1>2, <1>3, <1>4 DEF WalkInv, WalkSound, Dependencies

\* It holds at first.
LEMMA WalkInvAtFirst == Init => WalkInv
<1>. SUFFICES ASSUME Init PROVE WalkInv
  OBVIOUS
<1>1. stack = {} /\ walk = Nowhere
  BY DEF Init
<1>2. CASE table = EmptyKeySet /\ dependents \in Graphs
  <2>1. dependents \in Arrows
    BY <1>2 DEF Graphs, Arrows
  <2>. QED
    BY <1>1, <1>2, <2>1, EmptyIsKeySet DEF WalkInv, Sound, WalkSound
<1>3. CASE /\ dependents = [k \in Keys |-> {}]
           /\ table \in {EmptyPairSet} \cup {InDegreesFor(listed) : listed \in SUBSET Keys}
  <2>1. dependents \in Arrows
    BY <1>3 DEF Arrows
  <2>2. Sound(table)
    <3>1. CASE table = EmptyPairSet
      BY <3>1, EmptyIsPairSet DEF Sound
    <3>2. CASE \E listed \in SUBSET Keys : table = InDegreesFor(listed)
      BY <3>2, SizedForKeys DEF Sound
    <3>. QED
      BY <1>3, <3>1, <3>2
  <2>. QED
    BY <1>1, <2>1, <2>2 DEF WalkInv, WalkSound
<1>. QED
  BY <1>2, <1>3 DEF Init

\* Every step keeps it.
LEMMA WalkInvKept == WalkInv /\ [Next]_vars => WalkInv'
<1>. SUFFICES ASSUME WalkInv, [Next]_vars PROVE WalkInv'
  OBVIOUS
<1>. USE DEF WalkInv
<1>1. dependents \in Arrows /\ stack \in SUBSET Keys /\ Sound(table)
  OBVIOUS
<1>2. ASSUME TableStep, UNCHANGED walkVars PROVE WalkInv'
  <2>1. Sound(table') /\ table.kind # "KeySet"
    BY <1>1, <1>2, TableStepKeepsSound
  <2>2. walk' = Nowhere /\ dependents' = dependents /\ stack' = stack
    BY <1>2, <2>1, PhaseOf DEF walkVars
  <2>. QED
    BY <1>1, <2>1, <2>2 DEF WalkSound
<1>3. ASSUME Idle, NEW reuse \in BOOLEAN
      PROVE  IsKeySet(Starting(reuse)) /\ Members(Starting(reuse)) = {}
  <2>1. IsKeySet(table)
    BY <1>1, <1>3, KindOf DEF Idle, Sound
  <2>. QED
    BY <2>1, StartingIsEmpty
<1>4. ASSUME NEW root \in Keys, NEW reuse \in BOOLEAN, BeginVisit(root, reuse) PROVE WalkInv'
  <2>1. IsKeySet(table') /\ Members(table') = {} /\ dependents' = dependents
        /\ stack' = dependents[root]
        /\ walk' = [phase |-> "visit", root |-> root, met |-> {}]
    BY <1>3, <1>4 DEF BeginVisit
  <2>2. VisitSound(table', dependents, dependents[root], [phase |-> "visit", root |-> root, met |-> {}])
    BY <1>1, <2>1, VisitBegins
  <2>3. stack' \in SUBSET Keys
    BY <1>1, <2>1 DEF Arrows
  <2>. QED
    BY <1>1, <2>1, <2>2, <2>3 DEF Sound, WalkSound
<1>5. ASSUME NEW k \in Keys, Visit(k) PROVE WalkInv'
  <2>1. VisitSound(table, dependents, stack, walk) /\ k \in stack /\ dependents' = dependents
    BY <1>5, PhaseOf DEF Visit
  <2>2. VisitSound(table', dependents, stack', walk')
    <3>1. LET inserted == KeySetInsert(table, k) IN
          VisitSound(inserted.set, dependents,
                     IF inserted.fresh THEN (stack \ {k}) \cup dependents[k] ELSE stack \ {k},
                     IF inserted.fresh THEN [walk EXCEPT !.met = @ \cup {k}] ELSE walk)
      BY <1>1, <2>1, VisitGoesOn
    <3>. QED
      BY <1>5, <3>1 DEF Visit
  <2>3. stack' \in SUBSET Keys
    BY <1>1, <1>5 DEF Visit, Arrows
  <2>4. IsKeySet(table')
    BY <2>2 DEF VisitSound
  <2>. QED
    BY <1>1, <2>1, <2>2, <2>3, <2>4 DEF Sound, WalkSound
<1>6. ASSUME NEW root \in Keys, NEW reuse \in BOOLEAN, BeginTrace(root, reuse) PROVE WalkInv'
  <2>1. /\ table' = KeySetInsert(Starting(reuse), root).set /\ dependents' = dependents
        /\ stack' = {root}
        /\ walk' = [phase |-> "trace", root |-> root, met |-> {root}, at |-> {},
                    todo |-> {}, source |-> [k \in {} |-> root]]
    BY <1>6 DEF BeginTrace
  <2>2. IsKeySet(Starting(reuse)) /\ Members(Starting(reuse)) = {}
    BY <1>3, <1>6 DEF BeginTrace
  <2>3. TraceSound(table', dependents, stack', walk')
    BY <1>1, <2>1, <2>2, TraceBegins
  <2>4. IsKeySet(table') /\ stack' \in SUBSET Keys
    BY <2>1, <2>3 DEF TraceSound
  <2>. QED
    BY <1>1, <2>1, <2>3, <2>4 DEF Sound, WalkSound
<1>7. ASSUME NEW k \in Keys, TraceFrom(k) PROVE WalkInv'
  <2>1. /\ TraceSound(table, dependents, stack, walk) /\ walk.todo = {} /\ k \in stack
        /\ dependents' = dependents /\ table' = table /\ stack' = stack \ {k}
        /\ walk' = [walk EXCEPT !.at = {k}, !.todo = dependents[k]]
    BY <1>7, PhaseOf DEF TraceFrom
  <2>2. TraceSound(table', dependents, stack', walk')
    BY <1>1, <2>1, TraceTakesKey
  <2>. QED
    BY <1>1, <2>1, <2>2 DEF WalkSound
<1>8. ASSUME NEW k \in Keys, Trace(k) PROVE WalkInv'
  <2>1. TraceSound(table, dependents, stack, walk) /\ k \in walk.todo /\ dependents' = dependents
    BY <1>8, PhaseOf DEF Trace
  <2>2. TraceSound(table', dependents, stack', walk')
    <3>1. LET inserted == KeySetInsert(table, k) IN
          TraceSound(inserted.set, dependents,
                     IF inserted.fresh THEN stack \cup {k} ELSE stack,
                     IF inserted.fresh
                     THEN [walk EXCEPT !.todo = @ \ {k}, !.met = @ \cup {k},
                                       !.source = Entered(@, k, CHOOSE from \in walk.at : TRUE)]
                     ELSE [walk EXCEPT !.todo = @ \ {k}])
      BY <1>1, <2>1, TraceMeetsKey
    <3>. QED
      BY <1>8, <3>1 DEF Trace
  <2>3. stack' \in SUBSET Keys
    BY <1>1, <1>8 DEF Trace
  <2>4. IsKeySet(table')
    BY <2>2 DEF TraceSound
  <2>. QED
    BY <1>1, <2>1, <2>2, <2>3, <2>4 DEF Sound, WalkSound
<1>9. ASSUME Return \/ Abandon \/ AnswerPath PROVE WalkInv'
  BY <1>1, <1>9 DEF Return, Abandon, AnswerPath, WalkSound
<1>10. ASSUME NEW from \in Keys, NEW to \in Keys, BeginPath(from, to) PROVE WalkInv'
  <2>. DEFINE D == Transposed(dependents)
              q == <<from>>
              r == [k \in {from} |-> from]
              w == [phase |-> "path", from |-> from, to |-> to, frontier |-> q, reachedFrom |-> r]
  <2>1. walk' = w /\ UNCHANGED <<table, dependents, stack>> /\ Idle
    BY <1>10 DEF BeginPath
  <2>2. D \in Arrows
    BY <1>1 DEF Transposed, Arrows
  <2>3. IsKeySet(table)
    BY <1>1, <2>1, KindOf DEF Idle, Sound
  <2>4. Explored(Near(D, from), D, from, to, q, r)
    BY <2>2, NearIs, SearchBegins
  <2>5. q \in Seq(Keys) /\ r \in ListedKeys
    BY <2>4 DEF Explored
  <2>. HIDE DEF D, q, r
  <2>6. /\ w \in Searches /\ w.from = from /\ w.to = to /\ w.frontier = q /\ w.reachedFrom = r
    BY <2>5 DEF Searches
  <2>. HIDE DEF w
  <2>7. PathSound(table, D, w)
    BY <2>3, <2>4, <2>6 DEF PathSound
  <2>. QED
    BY <1>1, <2>1, <2>7 DEF WalkSound, D
<1>11. ASSUME Search PROVE WalkInv'
  <2>. DEFINE D == Dependencies
              q == walk.frontier
              r == walk.reachedFrom
              found == D[Head(q)] \ DOMAIN r
              c == Cardinality(found)
  <2>1. /\ PathSound(table, D, walk) /\ q # <<>> /\ Head(q) # walk.to
        /\ UNCHANGED <<table, dependents, stack>>
    BY <1>11, PhaseOf DEF Search
  <2>2. D \in Arrows
    BY <1>1 DEF Dependencies, Transposed, Arrows
  <2>3. PICK o \in {s \in [1 .. c -> found] : {s[i] : i \in DOMAIN s} = found} :
          walk' = [walk EXCEPT
                     !.frontier = Tail(@) \o o,
                     !.reachedFrom = [k \in DOMAIN @ \cup found |->
                                        IF k \in found THEN Head(q) ELSE @[k]]]
    BY <1>11 DEF Search
  <2>. DEFINE p == Tail(q) \o o
              s == FoundFrom(r, found, Head(q))
              f == Near(D, walk.from)
              w == [walk EXCEPT !.frontier = p, !.reachedFrom = s]
  <2>4. walk' = w
    BY <2>3 DEF FoundFrom
  <2>5. /\ walk \in Searches /\ IsKeySet(table)
        /\ Explored(f, D, walk.from, walk.to, q, r)
    BY <2>1 DEF PathSound
  <2>6. walk.from \in Keys /\ walk.to \in Keys
    BY <2>5 DEF Searches
  <2>7. IsNear(f, D, walk.from)
    BY <2>2, <2>6, NearIs
  <2>8. c \in Nat /\ o \in [1 .. c -> found] /\ {o[i] : i \in 1 .. c} = found
    <3>1. Head(q) \in Keys
      <4>1. q \in Seq(Keys)
        BY <2>5 DEF Explored
      <4>. QED
        BY <2>1, <4>1
    <3>2. found \in SUBSET Keys
      BY <2>2, <3>1 DEF Arrows
    <3>. HIDE DEF found
    <3>3. IsFiniteSet(found)
      BY <3>2, KeysAre, FS_Subset
    <3>4. c \in Nat
      BY <3>3, FS_CardinalityType
    <3>. QED
      BY <2>3, <3>4
  <2>9. Explored(f, D, walk.from, walk.to, p, s)
    <3>1. found = D[Head(q)] \ DOMAIN r
      OBVIOUS
    <3>. HIDE DEF D, q, r, found, c, f
    <3>. QED
      BY <2>1, <2>2, <2>5, <2>6, <2>7, <2>8, <3>1, SearchGoesOn
  <2>10. p \in Seq(Keys) /\ s \in ListedKeys
    BY <2>9 DEF Explored
  <2>. HIDE DEF p, s, f
  <2>11. /\ w \in Searches /\ w.from = walk.from /\ w.to = walk.to
         /\ w.frontier = p /\ w.reachedFrom = s
    BY <2>5, <2>10 DEF Searches
  <2>. HIDE DEF w
  <2>12. PathSound(table, D, w)
    BY <2>5, <2>9, <2>11 DEF PathSound, f
  <2>. QED
    BY <1>1, <2>1, <2>4, <2>12 DEF WalkSound, Dependencies
<1>12. ASSUME UNCHANGED vars PROVE WalkInv'
  BY <1>1, <1>12 DEF vars
<1>13. ASSUME NEW root \in Keys, TransitiveDependents(root) \/ PropagateWithScratch(root)
       PROVE  WalkInv'
  BY <1>4, <1>13 DEF TransitiveDependents, PropagateWithScratch
<1>14. ASSUME WalkStep PROVE WalkInv'
  <2>. HIDE DEF WalkInv
  <2>. QED
    BY <1>5, <1>6, <1>7, <1>8, <1>9, <1>10, <1>11, <1>13, <1>14 DEF WalkStep
<1>. HIDE DEF WalkInv
<1>. QED
  BY <1>2, <1>12, <1>14 DEF Next

-----------------------------------------------------------------------------
(* What the runs check, of every instance.                                   *)

\* The invariant is one of the specification.
LEMMA AlwaysWalkInv == Spec => []WalkInv
BY WalkInvAtFirst, WalkInvKept, PTL DEF Spec

\* Under the invariant the types hold.
LEMMA InvGivesTypes == WalkInv => TypeOK
<1>. SUFFICES ASSUME WalkInv PROVE TypeOK
  OBVIOUS
<1>1. /\ table.kind \in {"KeySet", "PairSet", "InDegrees"}
      /\ TabledKeys \subseteq Keys /\ HashedKeys \subseteq Keys
      /\ dependents \in [Keys -> SUBSET Keys] /\ stack \subseteq Keys
  BY SoundIsChecked DEF WalkInv, TableChecks, Arrows
<1>2. CASE walk.phase = "visit"
  <2>1. walk.met \subseteq Keys
    BY <1>2, PhaseOf DEF VisitSound, Visits
  <2>. QED
    BY <1>1, <1>2, <2>1 DEF TypeOK
<1>3. CASE walk.phase = "trace"
  <2>1. /\ walk \in Traced /\ Sourced(dependents, walk.met, walk.root, walk.source)
    BY <1>3, PhaseOf DEF TraceSound
  <2>2. walk.met \subseteq Keys /\ walk.todo \subseteq Keys
    BY <2>1 DEF Traced
  <2>3. /\ DOMAIN walk.source = walk.met \ {walk.root}
        /\ walk.source \in [DOMAIN walk.source -> Keys]
        /\ \A d \in DOMAIN walk.source : walk.source[d] \in walk.met
    BY <2>1, KeysListedAre DEF Sourced
  <2>4. walk.source \in [walk.met \ {walk.root} -> walk.met]
    BY <2>3
  <2>. QED
    BY <1>1, <1>3, <2>2, <2>4 DEF TypeOK
<1>4. CASE walk.phase = "path"
  <2>1. walk.reachedFrom \in ListedKeys
    BY <1>4, PhaseOf DEF PathSound, Searches
  <2>2. walk.reachedFrom \in [DOMAIN walk.reachedFrom -> Keys]
    BY <2>1, KeysListedAre
  <2>. QED
    BY <1>1, <1>4, <2>2 DEF TypeOK
<1>5. CASE walk.phase \notin {"visit", "trace", "path"}
  BY <1>1, <1>5, PhaseOf DEF TypeOK
<1>. QED
  BY <1>2, <1>3, <1>4, <1>5

(***************************************************************************)
(* Through walks that are finished, abandoned and begun again, and through *)
(* every growth, each half of the container has what lookups expect of it, *)
(* the bookkeeping is exact and the table stays within its budget          *)
(* (adaptive.rs, grow_for and the inserts; TraversalScratch).              *)
(***************************************************************************)
THEOREM AlwaysTablesSound == Spec => []TablesSound
<1>1. WalkInv => TablesSound
  BY InvGivesTypes, SoundIsChecked DEF WalkInv, TableChecks, TablesSound
<1>. QED
  BY <1>1, AlwaysWalkInv, PTL

(***************************************************************************)
(* The visited set holds exactly what the callback was given, so that no   *)
(* key is given twice, and the sources reported are dependencies that were *)
(* met before and lead to the root (for_each_transitive_dependent,         *)
(* propagate_with_trace).                                                  *)
(***************************************************************************)
THEOREM AlwaysWalkRemembers == Spec => []WalkRemembers
<1>1. WalkInv => MeetsOnce
  <2>. SUFFICES ASSUME WalkInv, walk.phase \in {"visit", "trace"} PROVE Content = walk.met
    BY DEF MeetsOnce
  <2>1. IsKeySet(table) /\ Members(table) = walk.met
    BY PhaseOf DEF VisitSound, TraceSound
  <2>. QED
    BY <2>1, ContentIsHeld, HeldByKeySet
<1>2. WalkInv => SourcesLeadToRoot
  <2>. SUFFICES ASSUME WalkInv, walk.phase = "trace"
                PROVE  /\ walk.met \subseteq ReachableFrom(Leads(walk.source), {walk.root})
                       /\ \A d \in DOMAIN walk.source : d \in dependents[walk.source[d]]
    BY DEF SourcesLeadToRoot, Leads
  <2>. QED
    BY PhaseOf DEF TraceSound, Sourced
<1>3. WalkInv => WalkRemembers
  BY <1>1, <1>2 DEF WalkRemembers
<1>. QED
  BY <1>3, AlwaysWalkInv, PTL

(***************************************************************************)
(* Each call on a PairSet or an InDegrees does to the set of pairs, or to  *)
(* the map of numbers, what its caller takes it to do, and tells truly     *)
(* whether it added (adaptive.rs).                                         *)
(***************************************************************************)
THEOREM AlwaysTablesFaithful == Spec => TablesFaithful
<1>1. WalkInv => [Faithful]_table
  BY CallsAreFaithful DEF WalkInv
<1>. QED
  BY <1>1, AlwaysWalkInv, PTL DEF TablesFaithful

\* What a walk has met when it returns.
MetAll == walk.met = ReachableFrom(dependents, IF walk.phase = "visit"
                                               THEN dependents[walk.root]
                                               ELSE {walk.root})

\* What a search answers.
Shortest ==
  LET near == WithinSteps(walk.from) IN
  IF walk.frontier = <<>> THEN walk.to \notin near[Cardinality(Keys)]
  ELSE /\ Path[1] = walk.from /\ Path[Len(Path)] = walk.to
       /\ \A i \in 1..(Len(Path) - 1) : Path[i + 1] \in Dependencies[Path[i]]
       /\ \A n \in DOMAIN near : walk.to \in near[n] => Len(Path) <= n + 1

(***************************************************************************)
(* A walk that returns has met the transitive dependents of its root, all  *)
(* of them and nothing else, whatever it found in its scratch; and a path  *)
(* that is answered is one of dependencies from end to end, than which     *)
(* none is shorter, while None is answered only if there is no path        *)
(* (graph.rs, for_each_transitive_dependent and dependency_path).          *)
(***************************************************************************)
THEOREM AlwaysWalksAnswer == Spec => WalksAnswer
<1>1. WalkInv => [Return => MetAll]_vars
  <2>. SUFFICES ASSUME WalkInv, Return PROVE MetAll
    OBVIOUS
  <2>1. dependents \in Arrows /\ stack = {} /\ (walk.phase = "trace" => walk.todo = {})
        /\ walk.phase \in {"visit", "trace"}
    BY DEF WalkInv, Return
  <2>2. CASE walk.phase = "visit"
    <3>1. VisitSound(table, dependents, {}, walk)
      BY <2>1, <2>2, PhaseOf
    <3>. QED
      BY <2>1, <2>2, <3>1, VisitMeetsAll DEF MetAll
  <2>3. CASE walk.phase = "trace"
    <3>1. TraceSound(table, dependents, {}, walk) /\ walk.todo = {}
      BY <2>1, <2>3, PhaseOf
    <3>. QED
      BY <2>1, <2>3, <3>1, TraceMeetsAll DEF MetAll
  <2>. QED
    BY <2>1, <2>2, <2>3
<1>2. WalkInv => [AnswerPath => Shortest]_vars
  <2>. SUFFICES ASSUME WalkInv, AnswerPath PROVE Shortest
    OBVIOUS
  <2>1. PathSound(table, Dependencies, walk) /\ dependents \in Arrows
    BY PhaseOf DEF AnswerPath, WalkInv
  <2>. QED
    BY <2>1, AnswersShortest DEF Shortest
<1>3. Spec => [][Return => MetAll]_vars /\ [][AnswerPath => Shortest]_vars
  BY <1>1, <1>2, AlwaysWalkInv, PTL
<1>. QED
  BY <1>3 DEF WalksAnswer, MeetsAll, PathIsShortest, MetAll, Shortest

-----------------------------------------------------------------------------
(* The interner and the marks of its ids. *)

\* The interner has each key once and its index all of their ids, for which
\* there is room; every id a caller has is its key's.
InternerInv ==
  /\ keys \in Seq(OwnedKeys)
  /\ index = 0..(Len(keys) - 1)
  /\ \A i, j \in 1..Len(keys) : keys[i] = keys[j] => i = j
  /\ Len(keys) <= IdLimit
  /\ capacity \in 0..MaxCapacity /\ Len(keys) <= capacity
  /\ DOMAIN known \subseteq OwnedKeys
  /\ \A key \in DOMAIN known :
       /\ known[key] \in 0..(Len(keys) - 1)
       /\ keys[known[key] + 1] = key
  /\ lapsed \subseteq Nat

\* Sets of marks, with nothing in channels that no call names.
MarkSets ==
  {s \in [channels : [AllChannels -> SUBSET Nat], generation : 0..(Generations - 1)] :
     \A c \in AllChannels : c \notin ChannelsMarked => s.channels[c] = {}}

\* The set has ids, of keys the interner has or had or of none.
SetInv == set \in MarkSets

\* How far one generation is behind another.
Behind(g, h) == IF h >= g THEN h - g ELSE h - g + Generations

\* While the reader knows of too few calls to make the counter come round, it
\* is behind by no more than those, and if it is not behind it saw these marks.
ReaderInv ==
  /\ seen \in [set : MarkSets, calls : 0..Generations]
  /\ seen.calls < Generations =>
       /\ Behind(seen.set.generation, set.generation) <= seen.calls
       /\ Behind(seen.set.generation, set.generation) = 0 => seen.set.channels = set.channels

TokensInv == InternerInv /\ SetInv /\ ReaderInv

\* A generation is followed by the next, and the last by the first
\* (InvalidationSet, wrapping_add).
LEMMA AdvancedIs ==
  ASSUME NEW g \in 0..(Generations - 1)
  PROVE  /\ Advanced(g) = IF g + 1 = Generations THEN 0 ELSE g + 1
         /\ Advanced(g) \in 0..(Generations - 1)
  BY InternedMarksAssumption DEF Advanced

\* What a reader may tell from two generations, after one more call: if it
\* advances the counter, the reader is behind by one more.
LEMMA OneMoreBehind ==
  ASSUME NEW g \in 0..(Generations - 1), NEW h \in 0..(Generations - 1),
         NEW n \in Nat, n + 1 < Generations, Behind(g, h) <= n
  PROVE  Behind(g, Advanced(h)) <= n + 1 /\ Behind(g, Advanced(h)) # 0
<1>1. Generations \in Nat /\ Generations > 0
  BY InternedMarksAssumption
<1>. QED
  BY <1>1, AdvancedIs DEF Behind

\* A set without marks is a set of marks (InvalidationSet::new).
LEMMA EmptyIsMarkSet == EmptySet \in MarkSets
<1>1. Generations \in Nat /\ Generations > 0
  BY InternedMarksAssumption
<1>. QED
  BY <1>1 DEF EmptySet, MarkSets

\* A call leaves the set as it is, or advances its generation
\* (every operation of InvalidationSet).
LEMMA CallKeeps ==
  ASSUME TokensInv, NEW s \in MarkSets, Call(s),
         s = set \/ s.generation = Advanced(set.generation)
  PROVE  TokensInv'
<1>1. InternerInv' /\ keys' = keys
  BY DEF Call, TokensInv, InternerInv, internerVars
<1>2. SetInv'
  BY <1>1 DEF Call, SetInv, MarkSets
<1>3. ReaderInv'
  <2>1. /\ seen \in [set : MarkSets, calls : 0..Generations]
        /\ seen' = IF seen.calls + 1 < Generations THEN [seen EXCEPT !.calls = @ + 1]
                   ELSE [set |-> EmptySet, calls |-> Generations]
        /\ set' = s /\ set \in MarkSets
    BY DEF Call, TokensInv, ReaderInv, SetInv
  <2>2. Generations \in Nat /\ seen.calls \in 0..Generations
    BY <2>1, InternedMarksAssumption
  <2>3. /\ seen' \in [set : MarkSets, calls : 0..Generations]
        /\ seen'.calls < Generations =>
             seen'.set = seen.set /\ seen'.calls = seen.calls + 1 /\ seen.calls + 1 < Generations
    <3>1. CASE seen.calls + 1 < Generations
      BY <2>1, <2>2, <3>1
    <3>2. CASE ~(seen.calls + 1 < Generations)
      BY <2>1, <2>2, <3>2, EmptyIsMarkSet
    <3>. QED
      BY <3>1, <3>2
  <2>. SUFFICES ASSUME seen'.calls < Generations
                PROVE  /\ Behind(seen.set.generation, s.generation) <= seen'.calls
                       /\ Behind(seen.set.generation, s.generation) = 0 => seen.set.channels = s.channels
    BY <2>1, <2>3 DEF ReaderInv
  <2>4. seen.calls + 1 < Generations /\ seen.calls \in Nat /\ seen'.calls = seen.calls + 1
    BY <2>2, <2>3
  <2>5. /\ Behind(seen.set.generation, set.generation) <= seen.calls
        /\ Behind(seen.set.generation, set.generation) = 0 => seen.set.channels = set.channels
    BY <2>2, <2>4 DEF TokensInv, ReaderInv
  <2>6. seen.set.generation \in 0..(Generations - 1) /\ set.generation \in 0..(Generations - 1)
    BY <2>1 DEF MarkSets
  <2>7. Behind(seen.set.generation, set.generation) \in Int
    BY <2>2, <2>6 DEF Behind
  <2>8. CASE s = set
    BY <2>4, <2>5, <2>7, <2>8
  <2>9. CASE s.generation = Advanced(set.generation)
    BY <2>4, <2>5, <2>6, <2>9, OneMoreBehind
  <2>. QED
    BY <2>8, <2>9
<1>. QED
  BY <1>1, <1>2, <1>3 DEF TokensInv

\* Nothing is marked to begin with, and nothing interned (InvalidationSet::new,
\* Interner::new).
LEMMA TokensInit == MarksInit => TokensInv
<1>. SUFFICES ASSUME MarksInit PROVE TokensInv
  OBVIOUS
<1>. USE DEF MarksInit
<1>1. IdLimit \in Nat /\ Generations \in Nat /\ Generations > 0 /\ MaxCapacity \in Nat
  BY InternedMarksAssumption
<1>2. InternerInv
  <2>1. keys = <<>> /\ Len(keys) = 0 /\ keys \in Seq(OwnedKeys)
    OBVIOUS
  <2>2. 0..(Len(keys) - 1) = {} /\ 1..Len(keys) = {}
    BY <2>1
  <2>3. DOMAIN known = {}
    OBVIOUS
  <2>. QED
    BY <1>1, <2>1, <2>2, <2>3 DEF InternerInv
<1>3. EmptySet \in MarkSets
  BY EmptyIsMarkSet
<1>4. SetInv
  BY <1>3 DEF SetInv
<1>5. ReaderInv
  <2>1. seen \in [set : MarkSets, calls : 0..Generations] /\ seen.set = set /\ seen.calls = 0
    BY <1>1, <1>3
  <2>2. Behind(set.generation, set.generation) = 0
    BY DEF Behind, EmptySet
  <2>. QED
    BY <2>1, <2>2 DEF ReaderInv
<1>. QED
  BY <1>2, <1>4, <1>5 DEF TokensInv

\* The ids of a key are those that stand for it; there is one, if any
\* (Interner::intern).
LEMMA FoundIs ==
  ASSUME InternerInv, NEW key \in OwnedKeys
  PROVE  Found(key) = {id \in 0..(Len(keys) - 1) : keys[id + 1] = key}
  BY DEF InternerInv, Found

\* A caller who is given the id of a key has that for it, and what it had for
\* the others (Interner::intern).
LEMMA GivenIs ==
  ASSUME NEW key \in OwnedKeys, NEW id, Given(key, id)
  PROVE  /\ DOMAIN known' = DOMAIN known \cup {key}
         /\ known'[key] = id
         /\ \A k \in DOMAIN known : k # key => known'[k] = known[k]
  BY DEF Given

\* There are as many ids as the next one says (Interner::intern).
LEMMA IdsCount ==
  ASSUME NEW n \in Nat
  PROVE  Cardinality(0..(n - 1)) = n
<1>1. Cardinality(0..(n - 1)) = IF 0 > n - 1 THEN 0 ELSE n - 1 - 0 + 1
  <2>1. 0 \in Int /\ n - 1 \in Int
    OBVIOUS
  <2>. QED
    BY <2>1, FS_Interval
<1>. QED
  BY <1>1

\* Interning a key that is there (Interner::intern).
LEMMA InternAgainKeeps ==
  ASSUME TokensInv, NEW key \in OwnedKeys, InternAgain(key)
  PROVE  TokensInv'
<1>1. PICK id \in Found(key) : Given(key, id)
  BY DEF InternAgain
<1>2. id \in 0..(Len(keys) - 1) /\ keys[id + 1] = key
  BY <1>1, FoundIs DEF TokensInv
<1>3. UNCHANGED <<keys, index, capacity, lapsed, set, seen>>
  BY DEF InternAgain
<1>4. InternerInv'
  <2>1. /\ DOMAIN known' = DOMAIN known \cup {key} /\ known'[key] = id
        /\ \A k \in DOMAIN known : k # key => known'[k] = known[k]
    BY <1>1, GivenIs
  <2>2. ASSUME NEW k \in DOMAIN known'
        PROVE  known'[k] \in 0..(Len(keys) - 1) /\ keys[known'[k] + 1] = k
    BY <1>2, <2>1 DEF TokensInv, InternerInv
  <2>. QED
    BY <1>3, <2>1, <2>2 DEF TokensInv, InternerInv
<1>5. SetInv' /\ ReaderInv'
  BY <1>3 DEF TokensInv, SetInv, ReaderInv
<1>. QED
  BY <1>4, <1>5 DEF TokensInv

\* Interning a new key: it gets the next id (Interner::intern).
LEMMA InternKeeps ==
  ASSUME TokensInv, NEW key \in OwnedKeys, Intern(key)
  PROVE  TokensInv'
<1>. DEFINE n == Len(keys)
<1>1. /\ keys \in Seq(OwnedKeys) /\ n \in Nat /\ index = 0..(n - 1) /\ n < IdLimit
      /\ keys' = Append(keys, key) /\ index' = index \cup {n} /\ Given(key, n)
      /\ UNCHANGED <<lapsed, set, seen>>
      /\ Found(key) = {}
  <2>1. keys \in Seq(OwnedKeys) /\ index = 0..(n - 1)
    BY DEF TokensInv, InternerInv
  <2>2. n \in Nat
    BY <2>1
  <2>3. /\ n < IdLimit /\ keys' = Append(keys, key) /\ index' = index \cup {n}
        /\ Given(key, n) /\ UNCHANGED <<lapsed, set, seen>> /\ Found(key) = {}
    BY DEF Intern
  <2>. QED
    BY <2>1, <2>2, <2>3
<1>2. /\ keys' \in Seq(OwnedKeys) /\ Len(keys') = n + 1 /\ keys'[n + 1] = key
      /\ \A i \in 1..n : keys'[i] = keys[i]
  BY <1>1
<1>3. \A i \in 1..n : keys[i] # key
  <2>1. ASSUME NEW i \in 1..n PROVE keys[i] # key
    <3>1. i - 1 \in 0..(n - 1) /\ (i - 1) + 1 = i
      BY <1>1
    <3>2. i - 1 \notin {id \in 0..(n - 1) : keys[id + 1] = key}
      BY <1>1, FoundIs DEF TokensInv
    <3>. QED
      BY <3>1, <3>2
  <2>. QED
    BY <2>1
<1>4. IdLimit \in Nat /\ MaxCapacity \in Nat
  BY InternedMarksAssumption
<1>5. capacity' \in 0..MaxCapacity /\ n + 1 <= capacity'
  <2>1. Cardinality(index) = n
    <3>1. Cardinality(0..(n - 1)) = n
      BY <1>1, IdsCount
    <3>. QED
      BY <1>1, <3>1
  <2>2. capacity \in 0..MaxCapacity
    BY DEF TokensInv, InternerInv
  <2>3. IF n < capacity THEN capacity' = capacity
        ELSE capacity' \in {m \in 1..MaxCapacity : m > n}
    BY <2>1 DEF Intern
  <2>4. CASE n < capacity
    BY <1>1, <2>2, <2>3, <2>4
  <2>5. CASE ~(n < capacity)
    BY <1>1, <1>4, <2>2, <2>3, <2>5
  <2>. QED
    BY <2>4, <2>5
<1>6. /\ \A i, j \in 1..n : keys[i] = keys[j] => i = j
      /\ DOMAIN known \subseteq OwnedKeys
      /\ \A k \in DOMAIN known : known[k] \in 0..(n - 1) /\ keys[known[k] + 1] = k
      /\ lapsed \subseteq Nat
  BY DEF TokensInv, InternerInv
<1>7. /\ DOMAIN known' = DOMAIN known \cup {key} /\ known'[key] = n
      /\ \A k \in DOMAIN known : k # key => known'[k] = known[k]
  BY <1>1, GivenIs
<1>. HIDE DEF n
<1>9. InternerInv'
  <2>1. index' = 0..(Len(keys') - 1)
    BY <1>1, <1>2
  <2>2. ASSUME NEW i \in 1..(n + 1), NEW j \in 1..(n + 1), keys'[i] = keys'[j] PROVE i = j
    <3>1. i = n + 1 \/ i \in 1..n
      BY <1>1
    <3>2. j = n + 1 \/ j \in 1..n
      BY <1>1
    <3>. QED
      BY <1>2, <1>3, <1>6, <2>2, <3>1, <3>2
  <2>3. ASSUME NEW k \in DOMAIN known'
        PROVE  known'[k] \in 0..(Len(keys') - 1) /\ keys'[known'[k] + 1] = k
    <3>1. CASE k = key
      BY <1>1, <1>2, <1>7, <3>1
    <3>2. CASE k # key
      <4>1. known'[k] = known[k] /\ known[k] \in 0..(n - 1) /\ keys[known[k] + 1] = k
        BY <1>6, <1>7, <3>2
      <4>. QED
        BY <1>1, <1>2, <4>1
    <3>. QED
      BY <3>1, <3>2
  <2>4. DOMAIN known' \subseteq OwnedKeys
    BY <1>6, <1>7
  <2>5. n + 1 <= IdLimit
    BY <1>1, <1>4
  <2>. QED
    BY <1>1, <1>2, <1>5, <1>6, <2>1, <2>2, <2>3, <2>4, <2>5 DEF InternerInv
<1>10. SetInv'
  BY <1>1 DEF TokensInv, SetInv
<1>11. ReaderInv'
  BY <1>1 DEF TokensInv, ReaderInv
<1>. QED
  BY <1>9, <1>10, <1>11 DEF TokensInv

\* Growing the index (Interner::reserve).
LEMMA ReserveKeeps ==
  ASSUME TokensInv, NEW additional \in 1..MaxCapacity, Reserve(additional)
  PROVE  TokensInv'
<1>1. MaxCapacity \in Nat /\ Len(keys) \in Nat
  BY InternedMarksAssumption DEF TokensInv, InternerInv
<1>2. /\ capacity' \in 1..MaxCapacity /\ capacity' >= Len(keys) + additional
      /\ UNCHANGED <<keys, index, known, lapsed, set, seen>>
  BY DEF Reserve
<1>3. capacity' \in 0..MaxCapacity /\ Len(keys) <= capacity'
  BY <1>1, <1>2
<1>4. InternerInv'
  BY <1>2, <1>3 DEF TokensInv, InternerInv
<1>5. SetInv' /\ ReaderInv'
  BY <1>2 DEF TokensInv, SetInv, ReaderInv
<1>. QED
  BY <1>4, <1>5 DEF TokensInv

\* Clearing the interner, wherever its ids still are (Interner::clear).
LEMMA ClearInternerKeeps ==
  ASSUME TokensInv, ClearInterner
  PROVE  TokensInv'
<1>1. /\ keys' = <<>> /\ index' = {} /\ known' = [k \in {} |-> 0]
      /\ lapsed' = lapsed \cup {known[key] : key \in DOMAIN known}
      /\ UNCHANGED <<capacity, set, seen>>
  BY DEF ClearInterner
<1>2. keys' \in Seq(OwnedKeys) /\ Len(keys') = 0
  BY <1>1
<1>3. 0..(Len(keys') - 1) = {} /\ 1..Len(keys') = {} /\ DOMAIN known' = {}
  BY <1>1, <1>2
<1>4. IdLimit \in Nat /\ MaxCapacity \in Nat /\ capacity \in 0..MaxCapacity
  BY InternedMarksAssumption DEF TokensInv, InternerInv
<1>5. lapsed' \subseteq Nat
  <2>1. lapsed \subseteq Nat /\ \A key \in DOMAIN known : known[key] \in Nat
    BY DEF TokensInv, InternerInv
  <2>. QED
    BY <1>1, <2>1
<1>6. InternerInv'
  BY <1>1, <1>2, <1>3, <1>4, <1>5 DEF InternerInv
<1>7. SetInv' /\ ReaderInv'
  BY <1>1 DEF TokensInv, SetInv, ReaderInv
<1>. QED
  BY <1>6, <1>7 DEF TokensInv

\* Reading the set and its generation (InvalidationSet::clone, generation).
LEMMA ObserveKeeps ==
  ASSUME TokensInv, Observe
  PROVE  TokensInv'
<1>1. seen' = [set |-> set, calls |-> 0] /\ UNCHANGED <<keys, index, capacity, known, lapsed, set>>
  BY DEF Observe, internerVars
<1>2. InternerInv' /\ SetInv'
  BY <1>1 DEF TokensInv, InternerInv, SetInv
<1>3. ReaderInv'
  <2>1. set \in MarkSets /\ Generations \in Nat
    BY InternedMarksAssumption DEF TokensInv, SetInv
  <2>2. set.generation \in 0..(Generations - 1)
    BY <2>1 DEF MarkSets
  <2>3. Behind(set.generation, set.generation) = 0
    BY <2>1, <2>2 DEF Behind
  <2>4. seen' \in [set : MarkSets, calls : 0..Generations] /\ seen'.set = set' /\ seen'.calls = 0
    BY <1>1, <2>1
  <2>. QED
    BY <1>1, <2>3, <2>4 DEF ReaderInv
<1>. QED
  BY <1>2, <1>3 DEF TokensInv

\* A set with other marks and another generation (InvalidationSet's fields).
LEMMA Remade ==
  ASSUME NEW C, NEW G, NEW s \in [channels : C, generation : G], NEW marks \in C, NEW g \in G
  PROVE  [s EXCEPT !.channels = marks, !.generation = g] = [channels |-> marks, generation |-> g]
<1>. DEFINE t == [s EXCEPT !.channels = marks]
<1>1. t \in [channels : C, generation : G] /\ t.channels = marks
  OBVIOUS
<1>. DEFINE u == [t EXCEPT !.generation = g]
<1>. HIDE DEF t
<1>2. u \in [channels : C, generation : G] /\ u.generation = g /\ u.channels = marks
  BY <1>1
<1>. HIDE DEF u
<1>3. u = [channels |-> marks, generation |-> g]
  BY <1>2
<1>. QED
  BY <1>3 DEF u, t

\* What the calls make of the set: sets of marks again, and another generation
\* unless nothing changes.  Marking adds one id to one channel
\* (InvalidationSet::mark).
LEMMA MarkedIs ==
  ASSUME NEW s \in MarkSets, NEW id \in Nat, NEW c \in ChannelsMarked
  PROVE  /\ Marked(s, id, c) \in MarkSets
         /\ Marked(s, id, c).generation = Advanced(s.generation)
         /\ \A d \in AllChannels :
              Marked(s, id, c).channels[d] = IF d = c THEN s.channels[d] \cup {id} ELSE s.channels[d]
<1>1. c \in AllChannels /\ s \in [channels : [AllChannels -> SUBSET Nat], generation : 0..(Generations - 1)]
  BY InternedMarksAssumption DEF MarkSets
<1>. DEFINE m == Marked(s, id, c)
            ch == [s.channels EXCEPT ![c] = @ \cup {id}]
            g == Advanced(s.generation)
<1>2. s.generation \in 0..(Generations - 1) /\ s.channels \in [AllChannels -> SUBSET Nat]
  BY <1>1
<1>3. g \in 0..(Generations - 1)
  BY <1>2, AdvancedIs
<1>4. /\ ch \in [AllChannels -> SUBSET Nat]
      /\ \A d \in AllChannels : ch[d] = IF d = c THEN s.channels[d] \cup {id} ELSE s.channels[d]
  BY <1>1, <1>2
<1>. HIDE DEF ch, g
<1>5. m = [s EXCEPT !.channels = ch, !.generation = g]
  BY Zenon DEF Marked, ch, g
<1>. HIDE DEF m
<1>6. m = [channels |-> ch, generation |-> g]
  BY <1>1, <1>3, <1>4, <1>5, Remade
<1>7. m \in MarkSets
  BY <1>1, <1>3, <1>4, <1>6 DEF MarkSets
<1>. QED
  BY <1>4, <1>6, <1>7 DEF m, g

\* Taking an id takes it from one channel, if it is there
\* (InvalidationSet::take).
LEMMA TakenIs ==
  ASSUME NEW s \in MarkSets, NEW id \in Nat, NEW c \in ChannelsMarked
  PROVE  /\ Taken(s, id, c) \in MarkSets
         /\ Taken(s, id, c) = s \/ Taken(s, id, c).generation = Advanced(s.generation)
         /\ \A d \in AllChannels :
              Taken(s, id, c).channels[d] = IF d = c THEN s.channels[d] \ {id} ELSE s.channels[d]
<1>1. c \in AllChannels /\ s \in [channels : [AllChannels -> SUBSET Nat], generation : 0..(Generations - 1)]
  BY InternedMarksAssumption DEF MarkSets
<1>2. CASE id \in s.channels[c]
  <2>. DEFINE m == Taken(s, id, c)
              ch == [s.channels EXCEPT ![c] = @ \ {id}]
              g == Advanced(s.generation)
  <2>2. s.generation \in 0..(Generations - 1) /\ s.channels \in [AllChannels -> SUBSET Nat]
    BY <1>1
  <2>3. g \in 0..(Generations - 1)
    BY <2>2, AdvancedIs
  <2>4. /\ ch \in [AllChannels -> SUBSET Nat]
        /\ \A d \in AllChannels : ch[d] = IF d = c THEN s.channels[d] \ {id} ELSE s.channels[d]
    BY <1>1, <2>2
  <2>. HIDE DEF ch, g
  <2>5. m = [s EXCEPT !.channels = ch, !.generation = g]
    BY <1>2, Zenon DEF Taken, ch, g
  <2>. HIDE DEF m
  <2>6. m = [channels |-> ch, generation |-> g]
    BY <1>1, <2>3, <2>4, <2>5, Remade
  <2>7. m \in MarkSets
    BY <1>1, <2>3, <2>4, <2>6 DEF MarkSets
  <2>. QED
    BY <2>4, <2>6, <2>7 DEF m, g
<1>3. CASE id \notin s.channels[c]
  <2>1. Taken(s, id, c) = s
    BY <1>3 DEF Taken
  <2>. QED
    BY <1>3, <2>1
<1>. QED
  BY <1>2, <1>3

\* Draining or clearing a channel leaves nothing in it and the others as they
\* are (InvalidationSet::drain, clear).
LEMMA ClearedIs ==
  ASSUME NEW s \in MarkSets, NEW c \in ChannelsMarked
  PROVE  /\ Drained(s, c) = Cleared(s, c)
         /\ Cleared(s, c) \in MarkSets
         /\ Cleared(s, c).generation = Advanced(s.generation)
         /\ \A d \in AllChannels :
              Cleared(s, c).channels[d] = IF d = c THEN {} ELSE s.channels[d]
<1>1. c \in AllChannels /\ s \in [channels : [AllChannels -> SUBSET Nat], generation : 0..(Generations - 1)]
  BY InternedMarksAssumption DEF MarkSets
<1>. DEFINE m == Cleared(s, c)
            ch == [s.channels EXCEPT ![c] = {}]
            g == Advanced(s.generation)
<1>2. s.generation \in 0..(Generations - 1) /\ s.channels \in [AllChannels -> SUBSET Nat]
  BY <1>1
<1>3. g \in 0..(Generations - 1)
  BY <1>2, AdvancedIs
<1>4. /\ ch \in [AllChannels -> SUBSET Nat]
      /\ \A d \in AllChannels : ch[d] = IF d = c THEN {} ELSE s.channels[d]
  BY <1>1, <1>2
<1>. HIDE DEF ch, g
<1>5. m = [s EXCEPT !.channels = ch, !.generation = g]
  BY Zenon DEF Cleared, ch, g
<1>. HIDE DEF m
<1>6. m = [channels |-> ch, generation |-> g]
  BY <1>1, <1>3, <1>4, <1>5, Remade
<1>7. m \in MarkSets
  BY <1>1, <1>3, <1>4, <1>6 DEF MarkSets
<1>8. Drained(s, c) = m
  BY DEF Drained, Cleared, m
<1>. QED
  BY <1>4, <1>6, <1>7, <1>8 DEF m, g

\* Clearing all channels (InvalidationSet::clear_all).
LEMMA AllClearedIs ==
  ASSUME NEW s \in MarkSets
  PROVE  /\ AllCleared(s) \in MarkSets
         /\ AllCleared(s).generation = Advanced(s.generation)
         /\ \A d \in AllChannels : AllCleared(s).channels[d] = {}
<1>1. s.generation \in 0..(Generations - 1)
  BY DEF MarkSets
<1>. QED
  BY <1>1, AdvancedIs DEF AllCleared, MarkSets

\* Removing an id takes it from every channel (InvalidationSet::remove_key).
LEMMA KeyRemovedIs ==
  ASSUME NEW s \in MarkSets, NEW id \in Nat
  PROVE  /\ KeyRemoved(s, id) \in MarkSets
         /\ KeyRemoved(s, id) = s \/ KeyRemoved(s, id).generation = Advanced(s.generation)
         /\ \A d \in AllChannels : KeyRemoved(s, id).channels[d] = s.channels[d] \ {id}
<1>1. /\ s.generation \in 0..(Generations - 1) /\ s.channels \in [AllChannels -> SUBSET Nat]
      /\ \A c \in AllChannels : c \notin ChannelsMarked => s.channels[c] = {}
  BY DEF MarkSets
<1>2. CASE \E c \in AllChannels : id \in s.channels[c]
  BY <1>1, <1>2, AdvancedIs DEF KeyRemoved, MarkSets
<1>3. CASE ~\E c \in AllChannels : id \in s.channels[c]
  BY <1>3 DEF KeyRemoved
<1>. QED
  BY <1>2, <1>3

\* So does every call that names an id, whatever the id stands for
\* (InvalidationSet::mark, take, remove_key).
LEMMA IdCallKeeps ==
  ASSUME TokensInv, NEW id \in Nat
  PROVE  /\ \A c \in ChannelsMarked : Call(Marked(set, id, c)) \/ Call(Taken(set, id, c)) => TokensInv'
         /\ Call(KeyRemoved(set, id)) => TokensInv'
<1>1. set \in MarkSets
  BY DEF TokensInv, SetInv
<1>2. ASSUME NEW c \in ChannelsMarked, Call(Marked(set, id, c)) PROVE TokensInv'
  <2>1. PICK s \in MarkSets : s = Marked(set, id, c) /\ s.generation = Advanced(set.generation)
    BY <1>1, MarkedIs
  <2>. QED
    BY <1>2, <2>1, CallKeeps
<1>3. ASSUME NEW c \in ChannelsMarked, Call(Taken(set, id, c)) PROVE TokensInv'
  <2>1. PICK s \in MarkSets :
          s = Taken(set, id, c) /\ (s = set \/ s.generation = Advanced(set.generation))
    BY <1>1, TakenIs
  <2>. QED
    BY <1>3, <2>1, CallKeeps
<1>4. ASSUME Call(KeyRemoved(set, id)) PROVE TokensInv'
  <2>1. PICK s \in MarkSets :
          s = KeyRemoved(set, id) /\ (s = set \/ s.generation = Advanced(set.generation))
    BY <1>1, KeyRemovedIs
  <2>. QED
    BY <1>4, <2>1, CallKeeps
<1>. QED
  BY <1>2, <1>3, <1>4

\* Every call keeps what is known of tokens (InvalidationSet, Interner).
LEMMA TokensNext == TokensInv /\ [MarksNext]_marksVars => TokensInv'
<1>. SUFFICES ASSUME TokensInv, [MarksNext]_marksVars PROVE TokensInv'
  OBVIOUS
<1>1. set \in MarkSets /\ ChannelsMarked \subseteq AllChannels
  BY InternedMarksAssumption DEF TokensInv, SetInv
<1>2. (\A key \in DOMAIN known : known[key] \in Nat) /\ lapsed \subseteq Nat
  BY DEF TokensInv, InternerInv
<1>3. CASE UNCHANGED marksVars
  BY <1>3 DEF marksVars, TokensInv, InternerInv, SetInv, ReaderInv
<1>4. ASSUME NEW key \in OwnedKeys, InternUnwinds(key) PROVE TokensInv'
  <2>1. UNCHANGED marksVars
    BY <1>4 DEF InternUnwinds
  <2>. QED
    BY <1>3, <2>1
<1>5. CASE Interning
  BY <1>4, <1>5, InternAgainKeeps, InternKeeps, ReserveKeeps, ClearInternerKeeps DEF Interning
<1>6. ASSUME NEW key \in OwnedKeys, NEW c \in ChannelsMarked, Mark(key, c) \/ Take(key, c)
      PROVE  TokensInv'
  <2>1. PICK id \in Nat : id = known[key]
    BY <1>2, <1>6 DEF Mark, Take
  <2>2. Call(Marked(set, id, c)) \/ Call(Taken(set, id, c))
    BY <1>6, <2>1 DEF Mark, Take
  <2>. QED
    BY <2>2, IdCallKeeps
<1>7. ASSUME NEW key \in OwnedKeys, RemoveKey(key) PROVE TokensInv'
  <2>1. PICK id \in Nat : id = known[key]
    BY <1>2, <1>7 DEF RemoveKey
  <2>2. Call(KeyRemoved(set, id))
    BY <1>7, <2>1 DEF RemoveKey
  <2>. QED
    BY <2>2, IdCallKeeps
<1>8. ASSUME NEW id \in lapsed, NEW c \in ChannelsMarked, MarkLapsed(id, c) \/ TakeLapsed(id, c)
      PROVE  TokensInv'
  <2>1. PICK i \in Nat : i = id
    BY <1>2
  <2>2. Call(Marked(set, i, c)) \/ Call(Taken(set, i, c))
    BY <1>8, <2>1 DEF MarkLapsed, TakeLapsed, CallLapsed
  <2>. QED
    BY <2>2, IdCallKeeps
<1>9. ASSUME NEW id \in lapsed, RemoveLapsed(id) PROVE TokensInv'
  <2>1. PICK i \in Nat : i = id
    BY <1>2
  <2>2. Call(KeyRemoved(set, i))
    BY <1>9, <2>1 DEF RemoveLapsed, CallLapsed
  <2>. QED
    BY <2>2, IdCallKeeps
<1>10. ASSUME NEW c \in ChannelsMarked, Drain(c) \/ Clear(c) PROVE TokensInv'
  <2>1. PICK s \in MarkSets : s = Cleared(set, c) /\ s.generation = Advanced(set.generation)
    BY <1>1, ClearedIs
  <2>2. Call(s)
    BY <1>1, <1>10, <2>1, ClearedIs DEF Drain, Clear
  <2>. QED
    BY <2>1, <2>2, CallKeeps
<1>11. CASE ClearAll
  <2>1. PICK s \in MarkSets : s = AllCleared(set) /\ s.generation = Advanced(set.generation)
    BY <1>1, AllClearedIs
  <2>. QED
    BY <1>11, <2>1, CallKeeps DEF ClearAll
<1>12. CASE Observe
  BY <1>12, ObserveKeeps
<1>. QED
  BY <1>3, <1>5, <1>6, <1>7, <1>8, <1>9, <1>10, <1>11, <1>12 DEF MarksNext

\* The invariant holds of every behaviour of the set and the interner.
LEMMA AlwaysTokensInv == MarksSpec => []TokensInv
<1>1. MarksInit => TokensInv
  BY TokensInit
<1>2. TokensInv /\ [MarksNext]_marksVars => TokensInv'
  BY TokensNext
<1>. QED
  BY <1>1, <1>2, PTL DEF MarksSpec

\* An id stays that of its key, whatever hashes collide and wherever growing
\* the index unwinds, and there is one for each key; a generation found again
\* stands for the marks it was read with, until the counter comes round
\* (Interner::intern, InvalidationSet::generation).
THEOREM AlwaysTokensHold == MarksSpec => []TokensHold
<1>1. ASSUME TokensInv PROVE TokensHold
  <2>. USE <1>1 DEF TokensInv
  <2>1. Len(keys) \in Nat /\ IdLimit \in Nat /\ Generations \in Nat
    BY InternedMarksAssumption DEF InternerInv
  <2>2. MarksTypeOK
    <3>1. Cardinality(index) = Len(keys)
      <4>1. Cardinality(0..(Len(keys) - 1)) = Len(keys)
        BY <2>1, IdsCount
      <4>. QED
        BY <4>1 DEF InternerInv
    <3>2. capacity \in 0..MaxCapacity /\ Cardinality(index) <= capacity /\ DOMAIN known \subseteq OwnedKeys
      BY <3>1 DEF InternerInv
    <3>3. index \subseteq 0..(IdLimit - 1)
      BY <2>1 DEF InternerInv
    <3>4. /\ set.generation \in 0..(Generations - 1)
          /\ \A c \in AllChannels : c \notin ChannelsMarked => set.channels[c] = {}
      BY DEF SetInv, MarkSets
    <3>. QED
      BY <3>2, <3>3, <3>4 DEF MarksTypeOK
  <2>3. InternedOnce
    <3>1. ASSUME NEW key \in DOMAIN known PROVE KeyOf(known[key]) = {key}
      BY <2>1 DEF InternerInv, KeyOf
    <3>. QED
      BY <3>1 DEF InternerInv, InternedOnce
  <2>4. GenerationTells
    <3>. SUFFICES ASSUME seen.calls < Generations, seen.set.generation = set.generation
                  PROVE  seen.set.channels = set.channels
      BY DEF GenerationTells
    <3>1. set.generation \in 0..(Generations - 1)
      BY DEF SetInv, MarkSets
    <3>2. Behind(seen.set.generation, set.generation) = 0
      BY <2>1, <3>1 DEF Behind
    <3>. QED
      BY <3>2 DEF ReaderInv
  <2>. QED
    BY <2>2, <2>3, <2>4 DEF TokensHold
<1>2. MarksSpec => []TokensInv
  BY AlwaysTokensInv
<1>. QED
  BY <1>1, <1>2, PTL

-----------------------------------------------------------------------------
(* What the marks in the set were meant for. *)

\* The ids that f gives the keys of some pairs in a channel: MeantIds, of any
\* ids and pairs.
IdsOf(f, pairs, c) == {f[key] : key \in {k \in DOMAIN f : <<k, c>> \in pairs}}

\* MarksMeant, of any marks, ids, pairs and channels.
Meaning(marks, f, pairs, more, less) ==
  \A c \in ChannelsMarked :
    /\ c \notin more => marks[c] \subseteq IdsOf(f, pairs, c)
    /\ c \notin less => IdsOf(f, pairs, c) \subseteq marks[c]
    /\ \A key \in OwnedKeys : <<key, c>> \in pairs => key \in DOMAIN f

\* That is what MarksMeant says, before a step and after it.
LEMMA MeaningIs ==
  /\ MarksMeant <=> Meaning(set.channels, known, meant, extra, lacking)
  /\ MarksMeant' <=> Meaning(set'.channels, known', meant', extra', lacking')
BY DEF MarksMeant, MeantIds, Meaning, IdsOf

\* A pair more is the id of its key more, in its channel (InvalidationSet::mark).
LEMMA IdsWithOneMore ==
  ASSUME NEW f, NEW pairs, NEW key \in DOMAIN f, NEW c
  PROVE  IdsOf(f, pairs \cup {<<key, c>>}, c) = IdsOf(f, pairs, c) \cup {f[key]}
BY DEF IdsOf

\* All pairs of a key less is its id less in every channel, if it is no other
\* key's (InvalidationSet::remove_key).
LEMMA IdsWithoutKey ==
  ASSUME NEW f, NEW pairs, NEW key \in DOMAIN f, NEW d,
         \A k \in DOMAIN f : f[k] = f[key] => k = key
  PROVE  IdsOf(f, {p \in pairs : p[1] # key}, d) = IdsOf(f, pairs, d) \ {f[key]}
<1>1. \A k : <<k, d>> \in {p \in pairs : p[1] # key} <=> <<k, d>> \in pairs /\ k # key
  OBVIOUS
<1>. QED
  BY <1>1 DEF IdsOf

\* Ids of more keys change nothing for the pairs of those there are
\* (Interner::intern).
LEMMA IdsOfMoreKeys ==
  ASSUME NEW f, NEW g, NEW pairs, NEW c,
         DOMAIN f \subseteq DOMAIN g, \A k \in DOMAIN f : g[k] = f[k],
         DOMAIN g \subseteq OwnedKeys,
         \A k \in OwnedKeys : <<k, c>> \in pairs => k \in DOMAIN f
  PROVE  IdsOf(g, pairs, c) = IdsOf(f, pairs, c)
BY DEF IdsOf

\* A key's id is no other key's (Interner::intern).
LEMMA IdsApart ==
  ASSUME InternerInv, NEW key \in DOMAIN known
  PROVE  \A k \in DOMAIN known : known[k] = known[key] => k = key
  BY DEF InternerInv

\* Interning changes no meaning: the ids there were stay those of their keys,
\* whatever marks the new one's number has (Interner::intern).
LEMMA InternMeaning ==
  ASSUME TokensInv, MarksMeant, NEW key \in OwnedKeys, NEW id, Given(key, id),
         key \in DOMAIN known => id = known[key],
         UNCHANGED <<set, history>>
  PROVE  MarksMeant'
<1>1. /\ DOMAIN known' = DOMAIN known \cup {key} /\ known'[key] = id
      /\ \A k \in DOMAIN known : k # key => known'[k] = known[k]
  BY GivenIs
<1>2. /\ set' = set /\ meant' = meant /\ extra' = extra /\ lacking' = lacking
      /\ Meaning(set.channels, known, meant, extra, lacking)
      /\ DOMAIN known \subseteq OwnedKeys
  BY MeaningIs DEF history, TokensInv, InternerInv
<1>3. \A k \in DOMAIN known : known'[k] = known[k]
  BY <1>1
<1>4. ASSUME NEW c \in ChannelsMarked PROVE IdsOf(known', meant, c) = IdsOf(known, meant, c)
  <2>1. \A k \in OwnedKeys : <<k, c>> \in meant => k \in DOMAIN known
    BY <1>2 DEF Meaning
  <2>. QED
    BY <1>1, <1>2, <1>3, <2>1, IdsOfMoreKeys
<1>5. Meaning(set.channels, known', meant, extra, lacking)
  BY <1>1, <1>2, <1>4 DEF Meaning
<1>. QED
  BY <1>2, <1>5, MeaningIs

\* A call by a key's own id (InvalidationSet::mark, take, remove_key).
LEMMA KeyCallMeaning ==
  ASSUME TokensInv, MarksMeant, NEW key \in OwnedKeys
  PROVE  /\ \A c \in ChannelsMarked : Mark(key, c) \/ Take(key, c) => MarksMeant'
         /\ RemoveKey(key) => MarksMeant'
<1>. SUFFICES ASSUME key \in DOMAIN known
              PROVE  /\ \A c \in ChannelsMarked : Mark(key, c) \/ Take(key, c) => MarksMeant'
                     /\ RemoveKey(key) => MarksMeant'
  BY DEF Mark, Take, RemoveKey
<1>1. /\ set \in MarkSets /\ InternerInv /\ ChannelsMarked \subseteq AllChannels
      /\ Meaning(set.channels, known, meant, extra, lacking)
  BY MeaningIs, InternedMarksAssumption DEF TokensInv, SetInv
<1>2. PICK id \in Nat : id = known[key]
  BY <1>1 DEF InternerInv
<1>3. \A k \in DOMAIN known : known[k] = known[key] => k = key
  BY <1>1, IdsApart
<1>4. ASSUME NEW c \in ChannelsMarked, Mark(key, c) PROVE MarksMeant'
  <2>1. /\ set' = Marked(set, id, c) /\ known' = known /\ meant' = meant \cup {<<key, c>>}
        /\ extra' = extra \ {} /\ lacking' = lacking \ {}
    BY <1>2, <1>4 DEF Mark, Call, internerVars, Means
  <2>. DEFINE s == Marked(set, id, c)
  <2>2. set' = s
    BY <2>1
  <2>3. \A d \in AllChannels : s.channels[d] = IF d = c THEN set.channels[d] \cup {id} ELSE set.channels[d]
    BY <1>1, MarkedIs
  <2>. HIDE DEF s
  <2>4. ASSUME NEW d \in ChannelsMarked
        PROVE  IdsOf(known, meant \cup {<<key, c>>}, d)
                 = IF d = c THEN IdsOf(known, meant, d) \cup {id} ELSE IdsOf(known, meant, d)
    <3>1. IdsOf(known, meant \cup {<<key, c>>}, c) = IdsOf(known, meant, c) \cup {known[key]}
      BY IdsWithOneMore
    <3>2. d # c => IdsOf(known, meant \cup {<<key, c>>}, d) = IdsOf(known, meant, d)
      BY DEF IdsOf
    <3>. QED
      BY <1>2, <3>1, <3>2
  <2>5. ASSUME NEW d \in ChannelsMarked
        PROVE  /\ d \notin extra => set.channels[d] \subseteq IdsOf(known, meant, d)
               /\ d \notin lacking => IdsOf(known, meant, d) \subseteq set.channels[d]
               /\ \A k \in OwnedKeys : <<k, d>> \in meant => k \in DOMAIN known
    BY <1>1 DEF Meaning
  <2>6. ASSUME NEW d \in ChannelsMarked
        PROVE  /\ d \notin extra => s.channels[d] \subseteq IdsOf(known, meant \cup {<<key, c>>}, d)
               /\ d \notin lacking => IdsOf(known, meant \cup {<<key, c>>}, d) \subseteq s.channels[d]
    <3>1. s.channels[d] = IF d = c THEN set.channels[d] \cup {id} ELSE set.channels[d]
      BY <1>1, <2>3
    <3>. QED
      BY <2>4, <2>5, <3>1
  <2>7. \A d \in ChannelsMarked, k \in OwnedKeys :
          <<k, d>> \in meant \cup {<<key, c>>} => k \in DOMAIN known
    BY <2>5
  <2>8. Meaning(s.channels, known, meant \cup {<<key, c>>}, extra, lacking)
    BY <2>6, <2>7 DEF Meaning
  <2>. QED
    BY <2>1, <2>2, <2>8, MeaningIs
<1>5. ASSUME NEW c \in ChannelsMarked, Take(key, c) PROVE MarksMeant'
  <2>1. /\ set' = Taken(set, id, c) /\ known' = known /\ meant' = meant \ {<<key, c>>}
        /\ extra' = extra \ {} /\ lacking' = lacking \ {}
    BY <1>2, <1>5 DEF Take, Call, internerVars, Means
  <2>. DEFINE s == Taken(set, id, c)
  <2>2. set' = s
    BY <2>1
  <2>3. \A d \in AllChannels : s.channels[d] = IF d = c THEN set.channels[d] \ {id} ELSE set.channels[d]
    BY <1>1, TakenIs
  <2>. HIDE DEF s
  <2>4. ASSUME NEW d \in ChannelsMarked
        PROVE  IdsOf(known, meant \ {<<key, c>>}, d)
                 = IF d = c THEN IdsOf(known, meant, d) \ {id} ELSE IdsOf(known, meant, d)
    <3>1. d = c => IdsOf(known, meant \ {<<key, c>>}, d) = IdsOf(known, meant, d) \ {id}
      BY <1>2, <1>3 DEF IdsOf
    <3>2. d # c => IdsOf(known, meant \ {<<key, c>>}, d) = IdsOf(known, meant, d)
      BY DEF IdsOf
    <3>. QED
      BY <3>1, <3>2
  <2>5. Meaning(s.channels, known, meant \ {<<key, c>>}, extra, lacking)
    BY <1>1, <2>3, <2>4 DEF Meaning
  <2>. QED
    BY <2>1, <2>2, <2>5, MeaningIs
<1>6. ASSUME RemoveKey(key) PROVE MarksMeant'
  <2>. DEFINE others == {p \in meant : p[1] # key}
  <2>1. /\ set' = KeyRemoved(set, id) /\ known' = known /\ meant' = others
        /\ extra' = extra \ {} /\ lacking' = lacking \ {}
    BY <1>2, <1>6 DEF RemoveKey, Call, internerVars, Means
  <2>. DEFINE s == KeyRemoved(set, id)
  <2>2. set' = s
    BY <2>1
  <2>3. \A d \in AllChannels : s.channels[d] = set.channels[d] \ {id}
    BY <1>1, KeyRemovedIs
  <2>. HIDE DEF s
  <2>4. ASSUME NEW d \in ChannelsMarked PROVE IdsOf(known, others, d) = IdsOf(known, meant, d) \ {id}
    <3>1. IdsOf(known, {p \in meant : p[1] # key}, d) = IdsOf(known, meant, d) \ {known[key]}
      BY <1>3, IdsWithoutKey
    <3>. QED
      BY <1>2, <3>1
  <2>5. others \subseteq meant
    OBVIOUS
  <2>. HIDE DEF others
  <2>6. Meaning(s.channels, known, others, extra, lacking)
    BY <1>1, <2>3, <2>4, <2>5 DEF Meaning
  <2>. QED
    BY <2>1, <2>2, <2>6, MeaningIs
<1>. QED
  BY <1>4, <1>5, <1>6

\* A call by an id from before a clear adds nothing to what was meant: a
\* channel where it adds a mark may have too many, and one where it takes a
\* mark too few (InvalidationSet::mark, take, remove_key).
LEMMA LapsedMeaning ==
  ASSUME TokensInv, MarksMeant, NEW s, CallLapsed(s)
  PROVE  MarksMeant'
<1>1. /\ set' = s /\ known' = known /\ meant' = meant
      /\ extra' = extra \cup {c \in ChannelsMarked : s.channels[c] \ set.channels[c] # {}}
      /\ lacking' = lacking \cup {c \in ChannelsMarked : set.channels[c] \ s.channels[c] # {}}
  BY DEF CallLapsed, Call, internerVars
<1>2. Meaning(set.channels, known, meant, extra, lacking)
  BY MeaningIs
<1>. DEFINE more == extra \cup {c \in ChannelsMarked : s.channels[c] \ set.channels[c] # {}}
            less == lacking \cup {c \in ChannelsMarked : set.channels[c] \ s.channels[c] # {}}
<1>3. ASSUME NEW c \in ChannelsMarked
      PROVE  /\ c \notin more => c \notin extra /\ s.channels[c] \subseteq set.channels[c]
             /\ c \notin less => c \notin lacking /\ set.channels[c] \subseteq s.channels[c]
  OBVIOUS
<1>4. extra' = more /\ lacking' = less
  BY <1>1
<1>. HIDE DEF more, less
<1>5. Meaning(s.channels, known, meant, more, less)
  BY <1>2, <1>3 DEF Meaning
<1>. QED
  BY <1>1, <1>4, <1>5, MeaningIs

\* A channel that is emptied has all that was meant for it since, and nothing
\* else (InvalidationSet::clear, drain, clear_all).
LEMMA EmptiedMeaning ==
  ASSUME TokensInv, MarksMeant
  PROVE  /\ \A c \in ChannelsMarked : Drain(c) \/ Clear(c) => MarksMeant'
         /\ ClearAll => MarksMeant'
<1>1. /\ set \in MarkSets /\ ChannelsMarked \subseteq AllChannels
      /\ Meaning(set.channels, known, meant, extra, lacking)
  BY MeaningIs, InternedMarksAssumption DEF TokensInv, SetInv
<1>2. ASSUME NEW c \in ChannelsMarked, Drain(c) \/ Clear(c) PROVE MarksMeant'
  <2>. DEFINE others == {p \in meant : p[2] # c}
  <2>1. /\ set' = Cleared(set, c) /\ known' = known /\ meant' = others
        /\ extra' = extra \ {c} /\ lacking' = lacking \ {c}
    BY <1>1, <1>2, ClearedIs DEF Drain, Clear, Call, internerVars, Means
  <2>. DEFINE s == Cleared(set, c)
  <2>2. set' = s
    BY <2>1
  <2>3. \A d \in AllChannels : s.channels[d] = IF d = c THEN {} ELSE set.channels[d]
    BY <1>1, ClearedIs
  <2>. HIDE DEF s
  <2>4. ASSUME NEW d \in ChannelsMarked
        PROVE  IdsOf(known, others, d) = IF d = c THEN {} ELSE IdsOf(known, meant, d)
    BY DEF IdsOf
  <2>5. others \subseteq meant
    OBVIOUS
  <2>. HIDE DEF others
  <2>6. Meaning(s.channels, known, others, extra \ {c}, lacking \ {c})
    BY <1>1, <2>3, <2>4, <2>5 DEF Meaning
  <2>. QED
    BY <2>1, <2>2, <2>6, MeaningIs
<1>3. ASSUME ClearAll PROVE MarksMeant'
  <2>1. /\ set' = AllCleared(set) /\ known' = known /\ meant' = {}
    BY <1>3 DEF ClearAll, Call, internerVars, Means
  <2>2. \A d \in AllChannels : set'.channels[d] = {}
    BY <1>1, <2>1, AllClearedIs
  <2>3. ASSUME NEW d \in ChannelsMarked PROVE IdsOf(known, {}, d) = {}
    BY DEF IdsOf
  <2>4. Meaning(set'.channels, known', meant', extra', lacking')
    BY <1>1, <2>1, <2>2, <2>3 DEF Meaning
  <2>. QED
    BY <2>4, MeaningIs
<1>. QED
  BY <1>2, <1>3

\* After the interner is cleared nothing is meant, and only the channels that
\* have marks have too many (Interner::clear).
LEMMA ClearInternerMeaning ==
  ASSUME TokensInv, ClearInterner
  PROVE  MarksMeant'
<1>1. /\ known' = [k \in {} |-> 0] /\ set' = set /\ meant' = {}
      /\ extra' = {c \in ChannelsMarked : set.channels[c] # {}}
  BY DEF ClearInterner, HasInvalidated
<1>2. ASSUME NEW c \in ChannelsMarked PROVE IdsOf(known', meant', c) = {}
  BY <1>1 DEF IdsOf
<1>3. Meaning(set'.channels, known', meant', extra', lacking')
  BY <1>1, <1>2 DEF Meaning
<1>. QED
  BY <1>3, MeaningIs

\* An id is a key's own exactly if the interner has the key there
\* (Interner::get).
LEMMA IdOfKey ==
  ASSUME InternerInv, NEW key \in DOMAIN known, NEW id \in Nat
  PROVE  id < Len(keys) /\ keys[id + 1] = key <=> id = known[key]
<1>. DEFINE n == Len(keys)
<1>1. /\ n \in Nat /\ known[key] \in 0..(n - 1) /\ keys[known[key] + 1] = key
      /\ \A i, j \in 1..n : keys[i] = keys[j] => i = j
  BY DEF InternerInv
<1>2. ASSUME id < n, keys[id + 1] = key PROVE id = known[key]
  <2>1. id + 1 \in 1..n /\ known[key] + 1 \in 1..n
    BY <1>1, <1>2
  <2>2. id + 1 = known[key] + 1
    BY <1>1, <1>2, <2>1
  <2>. QED
    BY <1>1, <2>2
<1>3. known[key] < n
  BY <1>1
<1>. QED
  BY <1>1, <1>2, <1>3

\* No step takes the marks away from what they were meant for (Interner,
\* InvalidationSet).
LEMMA MeaningNext == TokensInv /\ MarksMeant /\ [MarksNext]_marksVars => MarksMeant'
<1>. SUFFICES ASSUME TokensInv, MarksMeant, [MarksNext]_marksVars PROVE MarksMeant'
  OBVIOUS
<1>1. ASSUME UNCHANGED <<known, set, history>> PROVE MarksMeant'
  BY <1>1 DEF history, MarksMeant, MeantIds
<1>2. CASE UNCHANGED marksVars
  BY <1>1, <1>2 DEF marksVars, history
<1>3. CASE Observe
  BY <1>1, <1>3 DEF Observe, internerVars
<1>4. ASSUME NEW key \in OwnedKeys, InternAgain(key) PROVE MarksMeant'
  <2>1. PICK id \in Found(key) : Given(key, id)
    BY <1>4 DEF InternAgain
  <2>2. id \in Nat /\ id < Len(keys) /\ keys[id + 1] = key
    <3>1. Found(key) = {i \in 0..(Len(keys) - 1) : keys[i + 1] = key} /\ Len(keys) \in Nat
      BY FoundIs DEF TokensInv, InternerInv
    <3>. QED
      BY <2>1, <3>1
  <2>3. key \in DOMAIN known => id = known[key]
    BY <2>2, IdOfKey DEF TokensInv
  <2>4. UNCHANGED <<set, history>>
    BY <1>4 DEF InternAgain
  <2>. QED
    BY <2>1, <2>3, <2>4, InternMeaning
<1>5. ASSUME NEW key \in OwnedKeys, Intern(key) PROVE MarksMeant'
  <2>1. key \notin DOMAIN known
    <3>1. Found(key) = {i \in 0..(Len(keys) - 1) : keys[i + 1] = key} /\ Found(key) = {}
      BY <1>5, FoundIs DEF TokensInv, Intern
    <3>. QED
      BY <3>1 DEF TokensInv, InternerInv
  <2>2. Given(key, Len(keys)) /\ UNCHANGED <<set, history>>
    BY <1>5 DEF Intern
  <2>. DEFINE id == Len(keys)
  <2>3. Given(key, id)
    BY <2>2
  <2>4. id \in Nat
    BY DEF TokensInv, InternerInv
  <2>. HIDE DEF id
  <2>5. PICK i \in Nat : i = id
    BY <2>4
  <2>6. Given(key, i)
    BY <2>3, <2>5
  <2>. QED
    BY <2>1, <2>2, <2>6, InternMeaning
<1>6. ASSUME NEW key \in OwnedKeys, InternUnwinds(key) PROVE MarksMeant'
  BY <1>2, <1>6 DEF InternUnwinds
<1>7. ASSUME NEW additional \in 1..MaxCapacity, Reserve(additional) PROVE MarksMeant'
  BY <1>1, <1>7 DEF Reserve
<1>8. CASE Interning
  BY <1>4, <1>5, <1>6, <1>7, <1>8, ClearInternerMeaning DEF Interning
<1>9. ASSUME NEW id \in lapsed, NEW c \in ChannelsMarked, MarkLapsed(id, c) \/ TakeLapsed(id, c)
      PROVE  MarksMeant'
  <2>1. PICK i \in Nat : i = id
    BY DEF TokensInv, InternerInv
  <2>2. set \in MarkSets
    BY DEF TokensInv, SetInv
  <2>3. CASE MarkLapsed(id, c)
    <3>1. PICK s \in MarkSets : s = Marked(set, i, c)
      BY <2>2, MarkedIs
    <3>. QED
      BY <2>1, <2>3, <3>1, LapsedMeaning DEF MarkLapsed
  <2>4. CASE TakeLapsed(id, c)
    <3>1. PICK s \in MarkSets : s = Taken(set, i, c)
      BY <2>2, TakenIs
    <3>. QED
      BY <2>1, <2>4, <3>1, LapsedMeaning DEF TakeLapsed
  <2>. QED
    BY <1>9, <2>3, <2>4
<1>10. ASSUME NEW id \in lapsed, RemoveLapsed(id) PROVE MarksMeant'
  <2>1. PICK i \in Nat : i = id
    BY DEF TokensInv, InternerInv
  <2>2. PICK s \in MarkSets : s = KeyRemoved(set, i)
    BY KeyRemovedIs DEF TokensInv, SetInv
  <2>. QED
    BY <1>10, <2>1, <2>2, LapsedMeaning DEF RemoveLapsed
<1>. QED
  BY <1>2, <1>3, <1>8, <1>9, <1>10, KeyCallMeaning, EmptiedMeaning DEF MarksNext

\* The marks in the set are those that calls by the keys' own ids meant,
\* through collisions, unwinding and clears of the interner.  What a clear
\* leaves in the set can add marks to keys interned since, in channels not
\* emptied since, but hides none: only a call by an earlier id can
\* (Interner::clear, Interner::intern, InvalidationSet).
THEOREM AlwaysMarksMeant == MarksSpec => []MarksMeant
<1>1. MarksInit => MarksMeant
  <2>. SUFFICES ASSUME MarksInit PROVE MarksMeant
    OBVIOUS
  <2>1. DOMAIN known = {} /\ meant = {} /\ \A c \in ChannelsMarked : set.channels[c] = {}
    BY InternedMarksAssumption DEF MarksInit, EmptySet
  <2>2. ASSUME NEW c \in ChannelsMarked PROVE MeantIds(c) = {}
    BY <2>1 DEF MeantIds
  <2>. QED
    BY <2>1, <2>2 DEF MarksMeant
<1>2. TokensInv /\ MarksMeant /\ [MarksNext]_marksVars => MarksMeant'
  BY MeaningNext
<1>3. MarksSpec => []TokensInv
  BY AlwaysTokensInv
<1>. QED
  BY <1>1, <1>2, <1>3, PTL DEF MarksSpec
=============================================================================
