--------------------------- MODULE MCMarkClosure ----------------------------
(* Instances of MarkClosure for TLC. *)
EXTENDS MarkClosure, TLC

Symmetry == Permutations(Keys) \cup Permutations(Channels)

=============================================================================
