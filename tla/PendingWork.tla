----------------------------- MODULE PendingWork -----------------------------
(***************************************************************************)
(* What one channel of an invalidation set promises its user, with drains  *)
(* reduced to the keys they hand out: the marks say which keys must be     *)
(* recomputed - the marked keys and, with lazy marking, everything that    *)
(* depends on them - and a key stops being owed only when it is handed to  *)
(* the caller, or when the caller withdraws the work.                      *)
(*                                                                         *)
(* SortedDrain implements this when every drain is an affected drain that  *)
(* covers, or retains, what lies outside its scope.                        *)
(***************************************************************************)
EXTENDS Reachability

CONSTANT Keys

VARIABLES
  dependencies,  \* dependencies[k]: the keys k depends on
  marked         \* the keys whose invalidation is recorded somewhere

workVars == <<dependencies, marked>>

\* The keys to recompute: marked, or depending on a marked key.
Owed == ReachableFrom(Transposed(dependencies), marked)

Init ==
  /\ dependencies = [k \in Keys |-> {}]
  /\ marked = {}

AddDependency(from, to) ==
  /\ dependencies' = [dependencies EXCEPT ![from] = @ \cup {to}]
  /\ UNCHANGED marked

RemoveDependency(from, to) ==
  /\ dependencies' = [dependencies EXCEPT ![from] = @ \ {to}]
  /\ UNCHANGED marked

\* The key and all its edges are gone; a key that was owed only through it
\* is owed no longer.
RemoveKey(key) ==
  /\ dependencies' = [k \in Keys |-> IF k = key THEN {} ELSE dependencies[k] \ {key}]
  /\ marked' = marked \ {key}

Mark(k) ==
  /\ marked' = marked \cup {k}
  /\ UNCHANGED dependencies

Clear ==
  /\ marked' = {}
  /\ UNCHANGED dependencies

\* The marks are rewritten, but say the same.
Restate ==
  /\ Owed' = Owed
  /\ UNCHANGED dependencies

\* One key is handed out; all the other work stays owed.
HandOut(k) ==
  /\ k \in marked
  /\ Owed \ {k} \subseteq Owed'
  /\ Owed' \subseteq Owed
  /\ UNCHANGED dependencies

Next ==
  \/ \E from, to \in Keys : AddDependency(from, to) \/ RemoveDependency(from, to)
  \/ \E k \in Keys : RemoveKey(k) \/ Mark(k) \/ HandOut(k)
  \/ Clear
  \/ Restate

Spec == Init /\ [][Next]_workVars

=============================================================================
