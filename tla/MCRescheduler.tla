--------------------------- MODULE MCRescheduler ---------------------------
(***************************************************************************)
(* Two critical pods and a node with room for two.                         *)
(***************************************************************************)
EXTENDS Rescheduler

CONSTANTS p1, p2, n1

SmallSlots == [n \in Nodes |-> 2]
=============================================================================
