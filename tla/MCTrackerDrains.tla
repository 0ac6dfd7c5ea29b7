--------------------------- MODULE MCTrackerDrains ---------------------------
(***************************************************************************)
(* Instances of TrackerDrains for TLC.  Channels can be renamed, and so    *)
(* can keys but for the order of deterministic drains; as TLC's SYMMETRY   *)
(* does not go with liveness, one tracker of several that are the same but *)
(* for names is chosen here: that of which the channel, and the key, that  *)
(* more rules leave from comes first.                                      *)
(***************************************************************************)
EXTENDS TrackerDrains

CONSTANTS c1, c2

\* The rules that leave from channel c, and those that leave from key k.
LeavingChannel(c) ==
  Cardinality(cascadesFrom[c])
    + Cardinality({e \in Keys \X Keys : e[1] \in dependencies[c][e[2]]})
    + Cardinality({e \in Keys \X Pairs : e[2] \in crossDependents[<<e[1], c>>]})

LeavingKey(k) ==
  Cardinality({e \in Keys \X Channels : k \in dependencies[e[2]][e[1]]})
    + Cardinality({e \in Channels \X Pairs : e[2] \in crossDependents[<<k, e[1]>>]})

MCInit ==
  /\ Init
  /\ LeavingChannel(c1) >= LeavingChannel(c2)
  /\ LeavingKey(1) >= LeavingKey(2)

MCSpec == MCInit /\ [][Next]_vars /\ Fairness

=============================================================================
