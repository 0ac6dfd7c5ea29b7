--------------------------- MODULE MCInternedMarks ---------------------------
(* Instances of InternedMarks, with the channels as bits, for TLC. *)
EXTENDS MarkedChannelSets

CONSTANTS k1, k2, k3

\* Two of the three keys collide; there are ids for two keys only.
MCHash == [k \in OwnedKeys |-> IF k = k3 THEN 1 ELSE 0]

=============================================================================
