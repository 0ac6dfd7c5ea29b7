------------------------- MODULE CrossEdgesContract -------------------------
(***************************************************************************)
(* What CrossChannelEdges promises, without its maps and counters: a set   *)
(* of edges, and operations that say whether they changed it.              *)
(*                                                                         *)
(* CrossChannelEdges, the module of the code, implements this one.         *)
(***************************************************************************)

CONSTANTS
  Keys,     \* the keys in use
  Channels  \* the channels in use

VARIABLES
  edges,    \* the <<from, to>> edges between (key, channel) pairs
  returned  \* what the last operation returned

Pairs == Keys \X Channels

Init == edges = {} /\ returned = "nothing"

\* The edges become `next`, and the caller is told whether that is a change.
Becomes(next) ==
  /\ edges' = next
  /\ returned' = IF next = edges THEN "false" ELSE "true"

Add(from, to) == Becomes(edges \cup {<<from, to>>})

Replace(from, targets) == Becomes({e \in edges : e[1] # from} \cup ({from} \X targets))

Remove(from, to) == Becomes(edges \ {<<from, to>>})

ClearDependents(from) == Becomes({e \in edges : e[1] # from})

ClearDependencies(to) == Becomes({e \in edges : e[2] # to})

\* Every edge that starts or ends at the key, in whichever channels.
RemoveKey(key) ==
  /\ edges' = {e \in edges : e[1][1] # key /\ e[2][1] # key}
  /\ returned' = "nothing"

Next ==
  \/ \E from, to \in Pairs : Add(from, to) \/ Remove(from, to)
  \/ \E from \in Pairs, targets \in SUBSET Pairs : Replace(from, targets)
  \/ \E p \in Pairs : ClearDependents(p) \/ ClearDependencies(p)
  \/ \E key \in Keys : RemoveKey(key)

Spec == Init /\ [][Next]_<<edges, returned>>

=============================================================================
