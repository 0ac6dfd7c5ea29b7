------------------------- MODULE DependencyContract -------------------------
(***************************************************************************)
(* What InvalidationGraph promises, without its lists and caches: one set  *)
(* of direct dependencies per key and channel, and operations that happen  *)
(* at once.  replace_dependencies in particular takes effect in one step   *)
(* or, on a cycle error, not at all.                                       *)
(*                                                                         *)
(* DependencyGraph, the module of the code, implements this one.           *)
(***************************************************************************)
EXTENDS Reachability

CONSTANTS
  Keys,       \* the dense keys in use
  Channels,   \* the invalidation channels in use
  Handlings,  \* the cycle handlings callers ask for
  DebugBuild  \* whether debug assertions are compiled in

VARIABLES
  dependencies,  \* dependencies[c][k]: the keys k depends on in channel c
  outcome        \* what the last operation returned, until the caller reads it

contractVars == <<dependencies, outcome>>

\* A returned value; the three sets are the fields of DependencyChanges.
Returned(tag, added, removed, ignored) ==
  [tag |-> tag, added |-> added, removed |-> removed, ignored |-> ignored]
Plain(tag) == Returned(tag, {}, {}, {})
NotCalled == Plain("NotCalled")

\* How an addition that would close a cycle ends.
CycleVerdict(h) ==
  CASE h = "DebugAssert" -> IF DebugBuild THEN "Panicked" ELSE "CycleIgnored"
    [] h = "Error"       -> "CycleError"
    [] OTHER             -> "CycleIgnored"

\* Whether `from -> to` may not be added to the relation D under handling h.
\* A self-dependency is refused under every handling, Allow included.
Refused(D, from, to, h) == from = to \/ (h # "Allow" /\ Reaches(D, to, from))

Init ==
  /\ dependencies = [c \in Channels |-> [k \in Keys |-> {}]]
  /\ outcome = NotCalled

\* The caller reads the value returned to it.
ReadOutcome ==
  /\ outcome # NotCalled
  /\ outcome' = NotCalled
  /\ UNCHANGED dependencies

AddDependency(from, to, c, h) ==
  /\ outcome = NotCalled
  /\ \/ /\ to \in dependencies[c][from]
        /\ outcome' = Plain("AlreadyPresent")
        /\ UNCHANGED dependencies
     \/ /\ to \notin dependencies[c][from]
        /\ Refused(dependencies[c], from, to, h)
        /\ outcome' = Plain(CycleVerdict(h))
        /\ UNCHANGED dependencies
     \/ /\ to \notin dependencies[c][from]
        /\ ~Refused(dependencies[c], from, to, h)
        /\ outcome' = Plain("Added")
        /\ dependencies' = [dependencies EXCEPT ![c][from] = @ \cup {to}]

RemoveDependency(from, to, c) ==
  /\ outcome = NotCalled
  /\ outcome' = Plain(IF to \in dependencies[c][from] THEN "Removed" ELSE "NotFound")
  /\ dependencies' = [dependencies EXCEPT ![c][from] = @ \ {to}]

\* The additions a replacement must refuse, judged with the stale
\* dependencies of `from` already gone.
RefusedAdditions(from, c, to, h) ==
  LET kept == [dependencies[c] EXCEPT ![from] = @ \cap to]
  IN  {d \in to \ dependencies[c][from] : Refused(kept, from, d, h)}

ReplaceDependencies(from, c, to, h) ==
  LET old     == dependencies[c][from]
      refused == RefusedAdditions(from, c, to, h)
  IN
  /\ outcome = NotCalled
  /\ \/ /\ refused = {} \/ CycleVerdict(h) = "CycleIgnored"
        /\ dependencies' = [dependencies EXCEPT ![c][from] = to \ refused]
        /\ outcome' = Returned("Replaced", to \ (old \cup refused), old \ to, refused)
     \/ /\ refused # {} /\ CycleVerdict(h) = "CycleError"
        /\ outcome' = Plain("CycleError")
        /\ UNCHANGED dependencies
     \* A debug panic leaves the part of the replacement made so far.
     \/ /\ refused # {} /\ CycleVerdict(h) = "Panicked"
        /\ outcome' = Plain("Panicked")
        /\ \E made \in SUBSET (to \ (old \cup refused)) :
             dependencies' = [dependencies EXCEPT ![c][from] = (old \cap to) \cup made]

RemoveKey(key) ==
  /\ outcome = NotCalled
  /\ outcome' = Plain("KeyRemoved")
  /\ dependencies' = [c \in Channels |-> [k \in Keys |->
                        IF k = key THEN {} ELSE dependencies[c][k] \ {key}]]

Next ==
  \/ ReadOutcome
  \/ \E from, to \in Keys, c \in Channels :
       \/ \E h \in Handlings : AddDependency(from, to, c, h)
       \/ RemoveDependency(from, to, c)
  \/ \E from \in Keys, c \in Channels, to \in SUBSET Keys, h \in Handlings :
       ReplaceDependencies(from, c, to, h)
  \/ \E key \in Keys : RemoveKey(key)

Spec == Init /\ [][Next]_contractVars

=============================================================================
