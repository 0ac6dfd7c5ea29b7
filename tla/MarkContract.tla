----------------------------- MODULE MarkContract -----------------------------
(***************************************************************************)
(* What InvalidationTracker::mark_with promises: a call, and one step from *)
(* the marks before it to the marks it returns with, given by the roots,   *)
(* the policy and reachability alone.  MarkClosure, the module of the      *)
(* worklist, implements this one.                                          *)
(***************************************************************************)
EXTENDS Reachability

CONSTANTS Keys, Channels, Policies

VARIABLES
  dependencies,     \* dependencies[c][k]: the keys k depends on in channel c
  cascades,         \* cascades[c]: the channels c cascades to directly
  crossDependents,  \* crossDependents[p]: the pairs that depend on p
  invalidated,      \* the invalidated (key, channel) pairs
  request           \* the mark asked for and not yet returned from

rules == <<dependencies, cascades, crossDependents>>
contractVars == <<dependencies, cascades, crossDependents, invalidated, request>>

NoRequest == [roots |-> {}, policy |-> "None"]

Pairs == Keys \X Channels

\* The pairs an invalidation of <<k, c>> is passed on to within its channel ...
Within == [p \in Pairs |-> {q \in Pairs : q[2] = p[2] /\ p[1] \in dependencies[p[2]][q[1]]}]

\* ... and by cascades and cross-channel edges.
Across == [p \in Pairs |-> {q \in Pairs : q[1] = p[1] /\ q[2] \in cascades[p[2]]}
                             \cup crossDependents[p]]

Flow == [p \in Pairs |-> Within[p] \cup Across[p]]

Init ==
  /\ dependencies = [c \in Channels |-> [k \in Keys |-> {}]]
  /\ cascades = [c \in Channels |-> {}]
  /\ crossDependents = [p \in Pairs |-> {}]
  /\ invalidated = {}
  /\ request = NoRequest

Idle == request = NoRequest /\ UNCHANGED request

\* The rules and the graph are edited, or a pair is taken out of the set.
Edit == Idle /\ UNCHANGED invalidated
Take(p) == Idle /\ invalidated' = invalidated \ {p} /\ UNCHANGED rules

\* The key is marked, and on the channels its channel cascades to.
Mark(p) ==
  /\ Idle
  /\ invalidated' = invalidated \cup ({p[1]} \X ReachableFrom(cascades, {p[2]}))
  /\ UNCHANGED rules

Ask ==
  /\ request = NoRequest
  /\ request' \in [roots : (SUBSET Pairs) \ {{}}, policy : Policies]
  /\ UNCHANGED <<rules, invalidated>>

\* An eager policy marks all that the roots reach; a lazy one only what they
\* reach without following same-channel dependents; any other policy marks at
\* least the latter and at most the former.
MarkWith ==
  LET all   == ReachableFrom(Flow, request.roots)
      least == ReachableFrom(Across, request.roots)
  IN
  /\ request # NoRequest /\ request' = NoRequest
  /\ CASE request.policy = "Eager" -> invalidated' = invalidated \cup all
       [] request.policy = "Lazy"  -> invalidated' = invalidated \cup least
       [] OTHER -> /\ invalidated \cup least \subseteq invalidated'
                   /\ invalidated' \subseteq invalidated \cup all
  /\ UNCHANGED rules

Next == Edit \/ (\E p \in Pairs : Take(p) \/ Mark(p)) \/ Ask \/ MarkWith

Spec == Init /\ [][Next]_contractVars

=============================================================================
