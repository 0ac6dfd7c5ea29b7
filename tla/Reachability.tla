---------------------------- MODULE Reachability ----------------------------
(***************************************************************************)
(* Directed relations as adjacency functions, D[x] being the successors of *)
(* x, and what it means for one point to be reachable from another.  Every *)
(* traversal of the crate (cycle checks, transitive dependents, marking)   *)
(* computes the set of points reachable from some roots; this module is    *)
(* the definition they are all compared with.                              *)
(*                                                                         *)
(* Reachability is defined without recursion, as membership in every set   *)
(* that contains the start and is closed under the relation.  TLC          *)
(* evaluates it on small domains, and a proof about it is a choice of one  *)
(* closed set.                                                             *)
(***************************************************************************)

\* S is closed: no arrow of D leaves it.
ClosedUnder(D, S) == \A x \in S : D[x] \subseteq S

\* b can be reached from a in zero or more steps.
Reaches(D, a, b) ==
  \A S \in SUBSET DOMAIN D : (a \in S /\ ClosedUnder(D, S)) => b \in S

\* Everything reachable from a member of roots, the roots included.
ReachableFrom(D, roots) == {b \in DOMAIN D : \E a \in roots : Reaches(D, a, b)}

\* No arrow of D lies on a cycle.
Acyclic(D) == \A x \in DOMAIN D : \A y \in D[x] : ~Reaches(D, y, x)

\* The same relation with every arrow turned round.
Transposed(D) == [y \in DOMAIN D |-> {x \in DOMAIN D : y \in D[x]}]

=============================================================================
