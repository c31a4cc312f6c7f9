------------------------------ MODULE Membership ------------------------------
(***************************************************************************)
(* What scaling promises about the Raft group, whatever happens to the     *)
(* nodes, the operator and the spec: the voters are nodes of the           *)
(* StatefulSet, they join and leave one at a time, they leave from the top *)
(* and never the first, and the StatefulSet is resized around them.        *)
(***************************************************************************)
EXTENDS Integers

CONSTANT MaxReplicas  \* bound on the StatefulSet's replicas

VARIABLES
  size,   \* the StatefulSet's .spec.replicas
  voters  \* the Raft voters

vars == <<size, voters>>

Init == size \in 1 .. MaxReplicas /\ voters = 0 .. size - 1

Join(o) ==
  /\ o \in 0 .. size - 1
  /\ voters' = voters \cup {o}
  /\ UNCHANGED size

Leave(o) ==
  /\ o \in voters
  /\ o > 0
  /\ \A v \in voters : v <= o
  /\ voters' = voters \ {o}
  /\ UNCHANGED size

Resize(n) ==
  /\ voters \subseteq 0 .. n - 1
  /\ size' = n
  /\ UNCHANGED voters

Next ==
  \/ \E o \in 0 .. MaxReplicas - 1 : Join(o) \/ Leave(o)
  \/ \E n \in 1 .. MaxReplicas : Resize(n)

Spec == Init /\ [][Next]_vars
=============================================================================
