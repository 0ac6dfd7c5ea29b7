---------------------------- MODULE MCTraversals -----------------------------
(* Instances of Traversals for TLC. *)
EXTENDS Traversals

=============================================================================
