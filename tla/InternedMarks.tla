---------------------------- MODULE InternedMarks -----------------------------
(***************************************************************************)
(* InvalidationSet (set.rs) with the ids of an Interner (intern.rs) for    *)
(* keys, and a reader who compares generations.                            *)
(*                                                                         *)
(* The interner keeps owned keys in a list, and a hash table of the ids.   *)
(* Looking a key up compares it with the keys whose ids have its hash;     *)
(* growing the table hashes the keys it has, which may unwind.  The table  *)
(* itself is a library's (hashbrown): it either takes its new size with    *)
(* all its ids or, if a hash unwinds, stays as it is.                      *)
(*                                                                         *)
(* Clearing the interner does nothing to the ids given out before, in sets *)
(* or with callers: they may be used again, and their numbers are given to *)
(* other keys.                                                             *)
(*                                                                         *)
(* History variables say what the caller meant by its calls; no action's   *)
(* guard reads them.                                                       *)
(***************************************************************************)
EXTENDS ChannelIndices, FiniteSets, Sequences

CONSTANTS
  OwnedKeys,       \* keys to intern
  Hash,            \* their hashes
  ChannelsMarked,  \* the channels marked in
  IdLimit,         \* how many ids there are: 2^32 in the code
  Generations,     \* how many generations there are: 2^64 in the code
  MaxCapacity,     \* bound: the capacity of the index
  ReadsOn          \* bound: whether the reader reads again after a clear
                   \* of the interner, which changes nothing it reads

ASSUME InternedMarksAssumption ==
  /\ DOMAIN Hash = OwnedKeys
  /\ ChannelsMarked \subseteq AllChannels
  /\ IdLimit \in Nat /\ Generations \in Nat \ {0} /\ MaxCapacity \in Nat
  /\ ReadsOn \in BOOLEAN

VARIABLES
  keys,      \* the interner's keys; the id of keys[i] is i - 1
  index,     \* the ids in the interner's hash table
  capacity,  \* how many ids the table holds before it grows
  known,     \* the ids the caller was given since the last clear, by key
  lapsed,    \* the ids it was given before one
  set,       \* the InvalidationSet
  seen,      \* what a reader of the set saw, and the calls made since
  meant,     \* history: the (key, channel) pairs marked by the keys' own ids
  extra,     \* history: channels that may hold marks nobody meant
  lacking    \* history: channels where a meant mark may be gone

internerVars == <<keys, index, capacity, known, lapsed>>
history == <<meant, extra, lacking>>
marksVars == <<keys, index, capacity, known, lapsed, set, seen, meant, extra, lacking>>

-----------------------------------------------------------------------------
(* The set. *)

EmptySet == [channels |-> [c \in AllChannels |-> {}], generation |-> 0]

Advanced(g) == (g + 1) % Generations

\* Mutant: the generation stays if the channel was empty of the key.
MarkedIfNew(s, id, c) ==
  [s EXCEPT !.channels[c] = @ \cup {id},
            !.generation = IF s.channels[c] = {} THEN Advanced(@) ELSE @]

Marked(s, id, c) ==
  [s EXCEPT !.channels[c] = @ \cup {id}, !.generation = Advanced(@)]

Taken(s, id, c) ==
  IF id \in s.channels[c]
  THEN [s EXCEPT !.channels[c] = @ \ {id}, !.generation = Advanced(@)]
  ELSE s

\* drain, run to its end or dropped.
Drained(s, c) == [s EXCEPT !.channels[c] = {}, !.generation = Advanced(@)]

Cleared(s, c) == [s EXCEPT !.channels[c] = {}, !.generation = Advanced(@)]

AllCleared(s) ==
  [channels |-> [c \in AllChannels |-> {}], generation |-> Advanced(s.generation)]

\* Mutant: stops at the first channel that had the key.
KeyRemovedFromFirst(s, id) ==
  LET had == {c \in AllChannels : id \in s.channels[c]} IN
  IF had # {}
  THEN [s EXCEPT !.channels[CHOOSE c \in had : \A d \in had : c <= d] = @ \ {id},
                 !.generation = Advanced(@)]
  ELSE s

KeyRemoved(s, id) ==
  IF \E c \in AllChannels : id \in s.channels[c]
  THEN [channels   |-> [c \in AllChannels |-> s.channels[c] \ {id}],
        generation |-> Advanced(s.generation)]
  ELSE s

HasInvalidated(s, c) == s.channels[c] # {}
IsEmpty(s) == \A c \in AllChannels : s.channels[c] = {}

-----------------------------------------------------------------------------
(* The interner. *)

\* Mutant: takes a hash for the key.
FoundByHash(key) == {id \in index : Hash[keys[id + 1]] = Hash[key]}

\* index.find: an id with the key's hash, whose key equals it.
Found(key) == {id \in index : Hash[keys[id + 1]] = Hash[key] /\ keys[id + 1] = key}

\* get.
KeyOf(id) == IF id < Len(keys) THEN {keys[id + 1]} ELSE {}

MarksInit ==
  /\ keys = <<>> /\ index = {} /\ capacity \in 0..MaxCapacity
  /\ known = [k \in {} |-> 0] /\ lapsed = {}
  /\ set = EmptySet
  /\ seen = [set |-> EmptySet, calls |-> 0]
  /\ meant = {} /\ extra = {} /\ lacking = {}

\* The caller is given an id for its key.
Given(key, id) == known' = [k \in DOMAIN known \cup {key} |-> IF k = key THEN id ELSE known[k]]

\* The key is interned already: the first id found.
InternAgain(key) ==
  /\ Found(key) # {}
  /\ \E id \in Found(key) : Given(key, id)
  /\ UNCHANGED <<keys, index, capacity, lapsed, set, seen, history>>

\* Mutant: never runs out of ids.
InternWithoutEnd(key) ==
  /\ Found(key) = {}
  /\ keys' = Append(keys, key)
  /\ index' = index \cup {Len(keys)}
  /\ capacity' = IF Len(keys) < capacity THEN capacity ELSE Len(keys) + 1
  /\ Given(key, Len(keys))
  /\ UNCHANGED <<lapsed, set, seen, history>>

\* A new key, if there is an id left for it (the call panics otherwise): the
\* index makes room for it, or unwinds, before the key is stored.
Intern(key) ==
  /\ Found(key) = {}
  /\ Len(keys) < IdLimit
  /\ IF Cardinality(index) < capacity
     THEN capacity' = capacity
     ELSE capacity' \in {n \in 1..MaxCapacity : n > Cardinality(index)}
  /\ keys' = Append(keys, key)
  /\ index' = index \cup {Len(keys)}
  /\ Given(key, Len(keys))
  /\ UNCHANGED <<lapsed, set, seen, history>>

\* Mutant: the key is stored first.
InternUnwindsLate(key) ==
  /\ Found(key) = {}
  /\ Len(keys) < IdLimit
  /\ Cardinality(index) >= capacity
  /\ keys' = Append(keys, key)
  /\ UNCHANGED <<index, capacity, known, lapsed, set, seen, history>>

\* A hash of a stored key unwinds as the index grows.
InternUnwinds(key) ==
  /\ Found(key) = {}
  /\ Len(keys) < IdLimit
  /\ Cardinality(index) >= capacity
  /\ UNCHANGED marksVars

\* reserve: at least room for that many more, if it does not unwind.
Reserve(additional) ==
  /\ capacity < Len(keys) + additional
  /\ capacity' \in {n \in 1..MaxCapacity : n >= Len(keys) + additional}
  /\ UNCHANGED <<keys, index, known, lapsed, set, seen, history>>

\* clear: the ids given out are not told, nor the sets they are in.  Their
\* marks stand for no key until the numbers are given to other keys.
ClearInterner ==
  /\ keys' = <<>> /\ index' = {}
  /\ known' = [k \in {} |-> 0]
  /\ lapsed' = lapsed \cup {known[key] : key \in DOMAIN known}
  /\ meant' = {} /\ extra' = {c \in ChannelsMarked : HasInvalidated(set, c)} /\ lacking' = {}
  /\ UNCHANGED <<capacity, set, seen>>

-----------------------------------------------------------------------------
(* Calls of the set. *)

\* The set changes to s by one call that the reader does not know of.  After
\* as many as there are generations it drops what it saw.
Call(s) ==
  /\ set' = s
  /\ seen' = IF seen.calls + 1 < Generations THEN [seen EXCEPT !.calls = @ + 1]
             ELSE [set |-> EmptySet, calls |-> Generations]
  /\ UNCHANGED internerVars

\* The pairs that are meant from now on, and the channels left empty.
Means(pairs, emptied) ==
  meant' = pairs /\ extra' = extra \ emptied /\ lacking' = lacking \ emptied

\* By a key's own id.
Mark(key, c) ==
  /\ key \in DOMAIN known /\ Call(Marked(set, known[key], c))
  /\ Means(meant \cup {<<key, c>>}, {})
Take(key, c) ==
  /\ key \in DOMAIN known /\ Call(Taken(set, known[key], c))
  /\ Means(meant \ {<<key, c>>}, {})
RemoveKey(key) ==
  /\ key \in DOMAIN known /\ Call(KeyRemoved(set, known[key]))
  /\ Means({p \in meant : p[1] # key}, {})

Drain(c) == Call(Drained(set, c)) /\ Means({p \in meant : p[2] # c}, {c})
Clear(c) == Call(Cleared(set, c)) /\ Means({p \in meant : p[2] # c}, {c})
ClearAll == Call(AllCleared(set)) /\ Means({}, AllChannels)

\* By an id from before a clear, which may by now be another key's.
CallLapsed(s) ==
  /\ Call(s)
  /\ extra' = extra \cup {c \in ChannelsMarked : s.channels[c] \ set.channels[c] # {}}
  /\ lacking' = lacking \cup {c \in ChannelsMarked : set.channels[c] \ s.channels[c] # {}}
  /\ UNCHANGED meant

MarkLapsed(id, c) == CallLapsed(Marked(set, id, c))
TakeLapsed(id, c) == CallLapsed(Taken(set, id, c))
RemoveLapsed(id) == CallLapsed(KeyRemoved(set, id))

\* The reader keeps a clone of the set, which has its generation.
Observe ==
  /\ ReadsOn \/ lapsed = {}
  /\ seen' = [set |-> set, calls |-> 0]
  /\ UNCHANGED <<internerVars, set, history>>

Interning ==
  \/ \E key \in OwnedKeys : InternAgain(key) \/ Intern(key) \/ InternUnwinds(key)
  \/ \E additional \in 1..MaxCapacity : Reserve(additional)
  \/ ClearInterner

MarksNext ==
  \/ Interning
  \/ \E key \in OwnedKeys : RemoveKey(key) \/ \E c \in ChannelsMarked : Mark(key, c) \/ Take(key, c)
  \/ \E id \in lapsed : RemoveLapsed(id) \/ \E c \in ChannelsMarked : MarkLapsed(id, c) \/ TakeLapsed(id, c)
  \/ \E c \in ChannelsMarked : Drain(c) \/ Clear(c)
  \/ ClearAll
  \/ Observe

MarksSpec == MarksInit /\ [][MarksNext]_marksVars

-----------------------------------------------------------------------------
(* Properties. *)

\* Types; the table has room for its ids, ids fit their width, and nothing is
\* marked in a channel that no call names.
MarksTypeOK ==
  /\ capacity \in 0..MaxCapacity /\ Cardinality(index) <= capacity
  /\ index \subseteq 0..(IdLimit - 1)
  /\ DOMAIN known \subseteq OwnedKeys
  /\ set.generation \in 0..(Generations - 1)
  /\ \A c \in AllChannels : c \notin ChannelsMarked => set.channels[c] = {}

\* Each key has one id, each id one key, the index finds every key stored,
\* and an id once given stays that of its key until the interner is cleared,
\* whatever hashes collide and wherever growing the index unwinds
\* (Interner::intern).
InternedOnce ==
  /\ index = 0..(Len(keys) - 1)
  /\ \A i, j \in 1..Len(keys) : keys[i] = keys[j] => i = j
  /\ \A key \in DOMAIN known : KeyOf(known[key]) = {key}

\* A reader who finds the generation it saw, and knows of fewer calls since
\* than make the counter come round, finds the marks it saw
\* (InvalidationSet::generation).
GenerationTells ==
  seen.calls < Generations /\ seen.set.generation = set.generation
    => seen.set.channels = set.channels

\* What a caller was given stands for what it stood for then: an id for its
\* key, also at the end of the id space, where a key must be refused and not
\* be half stored, and a generation for the marks it was read with.
TokensHold == MarksTypeOK /\ InternedOnce /\ GenerationTells

\* The ids of the keys meant to be marked in a channel.
MeantIds(c) == {known[key] : key \in {k \in DOMAIN known : <<k, c>> \in meant}}

\* To a caller who knows its keys, the ids in a channel are the keys its calls
\* by ids given since the last clear have marked and not taken since, whatever
\* collides or unwinds and whenever the interner is cleared (intern.rs, the
\* module documentation; Interner::clear).  Marks may be too many only where a
\* clear left some or an earlier id was marked, and too few only where an
\* earlier id was used to remove one, until the channel is emptied.
MarksMeant ==
  \A c \in ChannelsMarked :
    /\ c \notin extra => set.channels[c] \subseteq MeantIds(c)
    /\ c \notin lacking => MeantIds(c) \subseteq set.channels[c]
    /\ \A key \in OwnedKeys : <<key, c>> \in meant => key \in DOMAIN known

=============================================================================
