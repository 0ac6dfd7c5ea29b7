------------------------ MODULE MCCrossChannelEdges -------------------------
(* Instances of CrossChannelEdges for TLC. *)
EXTENDS CrossChannelEdges, TLC

Symmetry == Permutations(Keys) \cup Permutations(Channels)

=============================================================================
