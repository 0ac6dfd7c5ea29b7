------------------------ MODULE MCCrossChannelGuard -------------------------
(* Instances of CrossChannelGuard for TLC. *)
EXTENDS CrossChannelGuard, TLC

Symmetry == Permutations(Keys) \cup Permutations(Channels)

=============================================================================
