--------------------------- MODULE AdaptiveTables ----------------------------
(***************************************************************************)
(* The key-indexed containers of adaptive.rs: KeySet (the visited set of a *)
(* traversal), PairSet (the pairs a mark call has processed) and InDegrees *)
(* (the counters of a drain).  Each keeps the keys whose index is below    *)
(* the length of a table in that table and all others in a hash map, under *)
(* a budget for the table; KeySet and PairSet grow the table as keys       *)
(* arrive and then move hashed keys into it.                               *)
(*                                                                         *)
(* A container is a record that tells the two halves apart.  Keys are      *)
(* their indices, which the index contract of DenseKey allows.             *)
(***************************************************************************)
EXTENDS Naturals, FiniteSets

CONSTANTS
  Keys,           \* the dense keys in use: indices
  Channels,       \* the channels in use
  SlotsPerEntry,  \* SLOTS_PER_ENTRY, 4 in the code
  FreeSlots,      \* FREE_SLOTS, 256 in the code
  WordBits,       \* bits in a word of a KeySet, 64 in the code
  MaxIndex,       \* usize::MAX: the smallest of no indices
  MaxDegree       \* bound: in-degrees in use

ASSUME TableAssumption ==
  /\ Keys \subseteq Nat /\ IsFiniteSet(Keys)
  /\ SlotsPerEntry \in Nat /\ FreeSlots \in Nat /\ WordBits \in Nat \ {0}
  /\ MaxIndex \in Nat /\ MaxDegree \in Nat
  /\ \A k \in Keys : k < MaxIndex

VARIABLE table  \* a container of one of the three kinds

-----------------------------------------------------------------------------
Smaller(a, b) == IF a <= b THEN a ELSE b
Larger(a, b) == IF a >= b THEN a ELSE b
Least(S) == IF S = {} THEN MaxIndex ELSE CHOOSE i \in S : \A j \in S : i <= j
Greatest(S) == CHOOSE i \in S : \A j \in S : i >= j

\* The most table slots that so many entries may account for.
TableBudget(entries) == entries * SlotsPerEntry + FreeSlots

-----------------------------------------------------------------------------
(* KeySet: a bitset of so many words, and a hash set.  peak is the most      *)
(* keys it ever held, kept for the properties.                             *)

EmptyKeySet ==
  [kind |-> "KeySet", words |-> 0, bits |-> {}, hashed |-> {},
   minHashed |-> MaxIndex, len |-> 0, peak |-> 0]

\* The words stay allocated.
KeySetClear(s) == [s EXCEPT !.bits = {}, !.hashed = {}, !.minHashed = MaxIndex, !.len = 0]

Word(k) == k \div WordBits

\* Mutant: grows without moving what the bitset now covers.
KeySetGrowForOnly(s, k) ==
  LET budget == TableBudget(s.len + 1) \div 2
      words  == Smaller(Larger(Word(k) + 1, 2 * s.words), budget)
  IN IF Word(k) >= budget THEN s ELSE [s EXCEPT !.words = words]

\* Mutant: doubles the bitset beyond its budget.
KeySetGrowForDoubling(s, k) ==
  LET budget == TableBudget(s.len + 1) \div 2
      words  == Larger(Word(k) + 1, 2 * s.words)
      stay   == {h \in s.hashed : Word(h) >= words}
  IN IF Word(k) >= budget THEN s
     ELSE IF Word(s.minHashed) >= words THEN [s EXCEPT !.words = words]
     ELSE [s EXCEPT !.words = words, !.bits = @ \cup (s.hashed \ stay),
                    !.hashed = stay, !.minHashed = Least(stay)]

\* grow_for: the bitset made long enough for k, if the budget allows it.
KeySetGrowFor(s, k) ==
  LET budget == TableBudget(s.len + 1) \div 2
      words  == Smaller(Larger(Word(k) + 1, 2 * s.words), budget)
      stay   == {h \in s.hashed : Word(h) >= words}
  IN IF Word(k) >= budget THEN s
     ELSE IF Word(s.minHashed) >= words THEN [s EXCEPT !.words = words]
     ELSE [s EXCEPT !.words = words, !.bits = @ \cup (s.hashed \ stay),
                    !.hashed = stay, !.minHashed = Least(stay)]

KeySetContains(s, k) == IF Word(k) < s.words THEN k \in s.bits ELSE k \in s.hashed

\* insert: the set with k, and whether k was absent.
KeySetInsert(s, k) ==
  LET room  == IF Word(k) >= s.words /\ k \notin s.hashed THEN KeySetGrowFor(s, k) ELSE s
      fresh == ~KeySetContains(room, k)
      with  == IF Word(k) < room.words
               THEN [room EXCEPT !.bits = @ \cup {k}]
               ELSE [room EXCEPT !.hashed = @ \cup {k}, !.minHashed = Smaller(@, k)]
  IN [set   |-> IF fresh
                THEN [with EXCEPT !.len = @ + 1, !.peak = Larger(@, with.len + 1)]
                ELSE with,
      fresh |-> fresh]

-----------------------------------------------------------------------------
(* PairSet: the channels of each key. *)

EmptyPairSet ==
  [kind |-> "PairSet", slots |-> 0, table |-> [k \in Keys |-> {}],
   hashed |-> [k \in {} |-> {}], minHashed |-> MaxIndex, keys |-> 0]

\* Mutant: notes the key that made the table grow as the smallest hashed one.
PairSetGrowForStale(s, k) ==
  LET budget == TableBudget(s.keys + 1)
      slots  == Smaller(Larger(k + 1, 2 * s.slots), budget)
      stay   == {h \in DOMAIN s.hashed : h >= slots}
  IN IF k >= budget THEN s
     ELSE IF s.minHashed >= slots THEN [s EXCEPT !.slots = slots]
     ELSE [s EXCEPT !.slots = slots,
                    !.table = [h \in Keys |-> IF h \in (DOMAIN s.hashed) \ stay
                                              THEN s.hashed[h] ELSE s.table[h]],
                    !.hashed = [h \in stay |-> s.hashed[h]],
                    !.minHashed = MaxIndex]

PairSetGrowFor(s, k) ==
  LET budget == TableBudget(s.keys + 1)
      slots  == Smaller(Larger(k + 1, 2 * s.slots), budget)
      stay   == {h \in DOMAIN s.hashed : h >= slots}
  IN IF k >= budget THEN s
     ELSE IF s.minHashed >= slots THEN [s EXCEPT !.slots = slots]
     ELSE [s EXCEPT !.slots = slots,
                    !.table = [h \in Keys |-> IF h \in (DOMAIN s.hashed) \ stay
                                              THEN s.hashed[h] ELSE s.table[h]],
                    !.hashed = [h \in stay |-> s.hashed[h]],
                    !.minHashed = Least(stay)]

\* The channels found for a key, wherever they are looked up.
ChannelsFound(s, k) ==
  IF k < s.slots THEN s.table[k]
  ELSE IF k \in DOMAIN s.hashed THEN s.hashed[k] ELSE {}

PairSetContains(s, k, c) == c \in ChannelsFound(s, k)

PairSetInsert(s, k, c) ==
  LET room  == IF k >= s.slots /\ k \notin DOMAIN s.hashed THEN PairSetGrowFor(s, k) ELSE s
      found == ChannelsFound(room, k)
      with  == IF k < room.slots
               THEN [room EXCEPT !.table[k] = found \cup {c}]
               ELSE [room EXCEPT !.minHashed = Smaller(@, k),
                                 !.hashed = [h \in DOMAIN @ \cup {k} |->
                                               IF h = k THEN found \cup {c} ELSE @[h]]]
  IN [set   |-> IF found = {} THEN [with EXCEPT !.keys = @ + 1] ELSE with,
      fresh |-> c \notin found]

-----------------------------------------------------------------------------
(* InDegrees: sized once for the keys it is to hold. *)

\* Mutant: as long as the largest key asks for.
InDegreesForAll(listed) ==
  [kind |-> "InDegrees", slots |-> IF listed = {} THEN 0 ELSE Greatest(listed) + 1,
   table |-> [k \in {} |-> 0], hashed |-> [k \in {} |-> 0], len |-> 0, sizedFor |-> listed]

\* for_keys; a list with repeats would only get a larger budget.  sizedFor is
\* what the caller passed, kept for the properties.
InDegreesFor(listed) ==
  LET wanted == IF listed = {} THEN 0 ELSE Greatest(listed) + 1 IN
  [kind |-> "InDegrees", slots |-> Smaller(wanted, TableBudget(Cardinality(listed))),
   table |-> [k \in {} |-> 0], hashed |-> [k \in {} |-> 0], len |-> 0, sizedFor |-> listed]

\* A map with one more entry, and with one less.
Entered(f, k, d) == [h \in DOMAIN f \cup {k} |-> IF h = k THEN d ELSE f[h]]
Removed(f, k) == [h \in DOMAIN f \ {k} |-> f[h]]

\* get: the keys that have an in-degree.
HasDegree(s, k) == IF k < s.slots THEN k \in DOMAIN s.table ELSE k \in DOMAIN s.hashed

\* A write through get_mut.
InDegreesSet(s, k, d) ==
  IF k < s.slots THEN [s EXCEPT !.table = Entered(@, k, d)]
                 ELSE [s EXCEPT !.hashed = Entered(@, k, d)]

\* Mutant: a key listed twice is counted from zero again.
InDegreesInsertAgain(s, k) ==
  IF HasDegree(s, k) THEN InDegreesSet(s, k, 0) ELSE [InDegreesSet(s, k, 0) EXCEPT !.len = @ + 1]

InDegreesInsert(s, k) ==
  IF HasDegree(s, k) THEN s ELSE [InDegreesSet(s, k, 0) EXCEPT !.len = @ + 1]

InDegreesRemove(s, k) ==
  IF ~HasDegree(s, k) THEN s
  ELSE IF k < s.slots THEN [s EXCEPT !.table = Removed(@, k), !.len = @ - 1]
                      ELSE [s EXCEPT !.hashed = Removed(@, k), !.len = @ - 1]

-----------------------------------------------------------------------------
(* A PairSet grows for as long as its mark call runs; an InDegrees is      *)
(* filled, counted up and down and emptied by its drain.  What drives a    *)
(* KeySet are the traversals.                                              *)

InsertPair(k, c) ==
  /\ table.kind = "PairSet"
  /\ table' = PairSetInsert(table, k, c).set

InsertDegree(k) ==
  /\ table.kind = "InDegrees" /\ k \in table.sizedFor
  /\ table' = InDegreesInsert(table, k)

AdjustDegree(k, d) ==
  /\ table.kind = "InDegrees" /\ HasDegree(table, k)
  /\ table' = InDegreesSet(table, k, d)

RemoveDegree(k) ==
  /\ table.kind = "InDegrees"
  /\ table' = InDegreesRemove(table, k)

TableStep ==
  \E k \in Keys :
    \/ \E c \in Channels : InsertPair(k, c)
    \/ InsertDegree(k) \/ RemoveDegree(k)
    \/ \E d \in 0..MaxDegree : AdjustDegree(k, d)

-----------------------------------------------------------------------------
(* Properties. *)

\* The keys in the hash map of the container in use.
HashedKeys == IF table.kind = "KeySet" THEN table.hashed ELSE DOMAIN table.hashed

\* The keys in its table.
TabledKeys ==
  CASE table.kind = "KeySet"  -> table.bits
    [] table.kind = "PairSet" -> {k \in Keys : table.table[k] # {}}
    [] OTHER                  -> DOMAIN table.table

\* The table's length, in indices.
Covered == IF table.kind = "KeySet" THEN table.words * WordBits ELSE table.slots

\* Every key is in the half where lookups go for it, and so in one half only:
\* growing moves exactly what the longer table covers (adaptive.rs, the doc
\* comments of PairSet and KeySet).
KeptWhereLookedUp ==
  /\ \A k \in TabledKeys : k < Covered
  /\ \A k \in HashedKeys : k >= Covered

\* What lets growth skip the search for keys to move, and what the budget is
\* computed from, stay what they stand for through every move.
BookkeepingExact ==
  /\ table.kind # "InDegrees" => table.minHashed = Least(HashedKeys)
  /\ (IF table.kind = "PairSet" THEN table.keys ELSE table.len)
       = Cardinality(TabledKeys) + Cardinality(HashedKeys)

\* The table takes no more slots than the entries account for, however large
\* the indices (adaptive.rs, the doc comments of the three).  A KeySet that
\* was cleared keeps its words: its table, with two slots to a word, is
\* accounted for by the most keys it ever held.
WithinBudget ==
  /\ table.kind = "KeySet" => 2 * table.words <= TableBudget(table.peak) /\ table.len <= table.peak
  /\ table.kind = "PairSet" => table.slots <= TableBudget(table.keys)
  /\ table.kind = "InDegrees" => table.slots <= TableBudget(Cardinality(table.sizedFor))

\* What the container in use says it holds.
Content ==
  CASE table.kind = "KeySet"  -> {k \in Keys : KeySetContains(table, k)}
    [] table.kind = "PairSet" -> {p \in Keys \X Channels : PairSetContains(table, p[1], p[2])}
    [] OTHER -> {<<k, IF k < table.slots THEN table.table[k] ELSE table.hashed[k]>> :
                   k \in {h \in Keys : HasDegree(table, h)}}

\* The containers are the set of pairs, and the map to in-degrees, that their
\* users take them for: no entry is lost, found twice or changed by a move of
\* another one, and insert says truly whether it added.
Faithful ==
  /\ \A k \in Keys, c \in Channels :
       InsertPair(k, c) =>
         /\ Content' = Content \cup {<<k, c>>}
         /\ PairSetInsert(table, k, c).fresh <=> <<k, c>> \notin Content
  /\ \A k \in Keys :
       LET others == {e \in Content : e[1] # k} IN
       /\ InsertDegree(k) =>
            Content' = IF HasDegree(table, k) THEN Content ELSE Content \cup {<<k, 0>>}
       /\ \A d \in 0..MaxDegree : AdjustDegree(k, d) => Content' = others \cup {<<k, d>>}
       /\ RemoveDegree(k) => Content' = others

TablesFaithful == [][Faithful]_table

=============================================================================
