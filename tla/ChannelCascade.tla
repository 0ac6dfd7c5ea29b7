--------------------------- MODULE ChannelCascade ---------------------------
(***************************************************************************)
(* ChannelCascade (cascade.rs): which channels a channel cascades to, kept *)
(* as the direct rules and as a table of their transitive closure that is  *)
(* recomputed after every change.                                          *)
(*                                                                         *)
(* The two loops that compute something are written out: the frontiers of  *)
(* recompute_transitive, and the walk that finds the chain an error        *)
(* reports.  The cycle check is a search over the direct rules, modelled   *)
(* by what it finds.                                                       *)
(***************************************************************************)
EXTENDS Integers, FiniteSets, Sequences, Reachability

CONSTANT Channels  \* the channels in use, by index

ASSUME CascadeAssumption == Channels \subseteq Nat /\ IsFiniteSet(Channels)

VARIABLES
  building,    \* whether from_edges is still applying its list
  direct,      \* direct[c]: the channels c cascades to by a rule of its own
  transitive,  \* transitive[c]: the precomputed closure
  outcome      \* what the last call returned

vars == <<building, direct, transitive, outcome>>

-----------------------------------------------------------------------------
Rules == [Channels -> SUBSET Channels]
NoRules == [c \in Channels |-> {}]

\* The channel a ChannelSet yields first.
First(S) == CHOOSE c \in S : \A d \in S : c <= d

\* Mutant: the frontier is followed once.
ClosureTwoDeep(rules) == [c \in Channels |-> rules[c] \cup UNION {rules[d] : d \in rules[c]}]

\* One turn of the loop of recompute_transitive: the frontier is reachable,
\* and what it leads to and was not known becomes the frontier.
FollowFrontier(rules, s) ==
  LET reachable == s.reachable \cup s.frontier
  IN  [reachable |-> reachable,
       frontier  |-> (UNION {rules[d] : d \in s.frontier}) \ reachable]

\* The loop for channel c, turn by turn.
Turns(rules, c) ==
  LET turn[n \in Nat] == IF n = 0 THEN [reachable |-> {}, frontier |-> rules[c]]
                                  ELSE FollowFrontier(rules, turn[n - 1])
  IN  turn

\* recompute_transitive.  No channel enters the frontier twice, so it is empty
\* after as many turns as there are channels, and further turns change nothing.
Closure(rules) == [c \in Channels |-> Turns(rules, c)[Cardinality(Channels) + 1].reachable]

\* Where the code expects a next channel and there is none.
Panicked == -1

\* Mutant: any direct target will do.
AnyPath(rules, table, start, goal) ==
  LET walk[n \in Nat] ==
        IF n = 0 THEN <<start>>
        ELSE LET path == walk[n - 1]
                 last == path[Len(path)]
             IN  IF last \in {goal, Panicked} THEN path
                 ELSE Append(path, IF rules[last] = {} THEN Panicked ELSE First(rules[last]))
  IN  walk[Cardinality(Channels) + 1]

\* cascade_path steps to the first direct target that is the goal or has it
\* in the table, until the goal is reached.
StepsTowards(rules, table, goal, c) == {d \in rules[c] : d = goal \/ goal \in table[d]}

Stepped(rules, table, goal, path) ==
  LET last  == path[Len(path)]
      steps == StepsTowards(rules, table, goal, last)
  IN  IF last \in {goal, Panicked} THEN path
      ELSE Append(path, IF steps = {} THEN Panicked ELSE First(steps))

Walk(rules, table, start, goal) ==
  LET walk[n \in Nat] == IF n = 0 THEN <<start>>
                                  ELSE Stepped(rules, table, goal, walk[n - 1])
  IN  walk

CascadePath(rules, table, start, goal) ==
  Walk(rules, table, start, goal)[Cardinality(Channels) + 1]

-----------------------------------------------------------------------------
Plain(tag) == [tag |-> tag, path |-> <<>>]
CycleError(path) == [tag |-> "CascadeCycleError", path |-> path]
NotCalled == Plain("NotCalled")

\* Mutant: only looks one rule ahead.
ClosesTwoCycle(rules, from, to) == from \in rules[to]

\* is_reachable(to, from): `from -> to` would close a cycle.
ClosesCycle(rules, from, to) == Reaches(rules, to, from)

\* What add_cascade answers, in the order of its checks.
AddVerdict(rules, table, from, to) ==
  IF from = to THEN CycleError(<<from>>)
  ELSE IF to \in rules[from] THEN Plain("AlreadyPresent")
  ELSE IF ClosesCycle(rules, from, to) THEN CycleError(CascadePath(rules, table, to, from))
  ELSE Plain("Added")

\* The direct rules with `from -> to` among them.
WithRule(rules, from, to) == [rules EXCEPT ![from] = @ \cup {to}]

Init ==
  /\ building \in BOOLEAN
  /\ direct = NoRules
  /\ transitive = NoRules
  /\ outcome = NotCalled

\* Adding a rule, with what the caller is left with if it is refused.
Insert(from, to, refusedDirect, refusedTransitive) ==
  /\ outcome' = AddVerdict(direct, transitive, from, to)
  /\ \/ /\ outcome'.tag = "Added"
        /\ direct' = WithRule(direct, from, to)
        /\ transitive' = Closure(direct')
     \/ /\ outcome'.tag = "AlreadyPresent"
        /\ UNCHANGED <<direct, transitive>>
     \/ /\ outcome'.tag = "CascadeCycleError"
        /\ direct' = refusedDirect
        /\ transitive' = refusedTransitive

\* from_edges adds one edge of its list after the other.  A refused one ends
\* it; the cascade built so far is discarded, and its owner has no rules.
ApplyEdge(from, to) ==
  /\ building
  /\ Insert(from, to, NoRules, NoRules)
  /\ building' = (outcome'.tag # "CascadeCycleError")

FinishBuild ==
  /\ building
  /\ building' = FALSE
  /\ outcome' = Plain("Built")
  /\ UNCHANGED <<direct, transitive>>

AddCascade(from, to) ==
  /\ ~building
  /\ Insert(from, to, direct, transitive)
  /\ UNCHANGED building

\* Mutant: the table is left to the next addition.
RemoveWithoutRecompute(from, to) ==
  /\ ~building
  /\ outcome' = Plain(IF to \in direct[from] THEN "Removed" ELSE "NotFound")
  /\ direct' = [direct EXCEPT ![from] = @ \ {to}]
  /\ UNCHANGED <<building, transitive>>

RemoveCascade(from, to) ==
  /\ ~building
  /\ \/ /\ to \in direct[from]
        /\ outcome' = Plain("Removed")
        /\ direct' = [direct EXCEPT ![from] = @ \ {to}]
        /\ transitive' = Closure(direct')
     \/ /\ to \notin direct[from]
        /\ outcome' = Plain("NotFound")
        /\ UNCHANGED <<direct, transitive>>
  /\ UNCHANGED building

Next ==
  \/ \E from, to \in Channels :
       ApplyEdge(from, to) \/ AddCascade(from, to) \/ RemoveCascade(from, to)
  \/ FinishBuild

Spec == Init /\ [][Next]_vars

-----------------------------------------------------------------------------
(* Properties. *)

\* Both tables stay inside the channels (cascade.rs, struct ChannelCascade),
\* and no walk for an error's chain ends in a panic.
TypeOK ==
  /\ direct \in Rules
  /\ transitive \in Rules
  /\ building \in BOOLEAN
  /\ outcome.tag \in {"NotCalled", "Built", "Added", "AlreadyPresent", "Removed", "NotFound",
                      "CascadeCycleError"}
  /\ outcome.path \in Seq(Channels)

\* The direct rules never form a cycle, however rules were added, removed and
\* added again.  Marks follow cascades without looking for one.
RulesAcyclic == Acyclic(direct)

\* The table is the closure of the rules as they are now, removals included:
\* cascades_from answers from it alone, and a mark that trusts it invalidates
\* exactly the channels reachable by rules.
TransitiveExact ==
  \A c \in Channels : transitive[c] = ReachableFrom(direct, direct[c])

\* Both tables are well typed, and the second follows from the first.
TablesExact == TypeOK /\ TransitiveExact

\* A chain of rules from a to b, visiting no channel twice.
IsChain(path, rules, a, b) ==
  /\ path # <<>> /\ path[1] = a /\ path[Len(path)] = b
  /\ \A i \in 1 .. Len(path) - 1 : path[i + 1] \in rules[path[i]]
  /\ \A i, j \in 1 .. Len(path) : path[i] = path[j] => i = j

\* A refused rule really would close a cycle, and the error's path is that
\* cycle without the new rule: a chain of rules in force from `to` back to
\* `from` (cascade.rs, CascadeCycleError::path).  The walk follows the table,
\* the check the rules, so this fails if the two ever part.
ErrorNamesACycle ==
  [][\A from, to \in Channels :
       (ApplyEdge(from, to) \/ AddCascade(from, to)) /\ outcome'.tag = "CascadeCycleError"
         => IsChain(outcome'.path, direct, to, from)]_vars

=============================================================================
