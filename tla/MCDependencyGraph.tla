------------------------ MODULE MCDependencyGraph ---------------------------
(* Instances of DependencyGraph for TLC. *)
EXTENDS DependencyGraph, TLC

Symmetry == Permutations(Keys) \cup Permutations(Channels)

=============================================================================
