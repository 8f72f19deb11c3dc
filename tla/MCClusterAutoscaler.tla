----------------------- MODULE MCClusterAutoscaler -----------------------
(***************************************************************************)
(* Small clusters with one group of nodes.                                 *)
(***************************************************************************)
EXTENDS ClusterAutoscaler

CONSTANTS n1, n2, n3, p1, p2, p3, g1

ThreeNodes == {n1, n2, n3}
OneGroup == [n \in Nodes |-> g1]

OneEach == [g \in Groups |-> 1]
ThreeEach == [g \in Groups |-> 3]

OneNode == {n1}

\* A pod on each of three nodes.
Spread == [p \in Pods |-> IF p = p1 THEN n1 ELSE IF p = p2 THEN n2 ELSE n3]
\* One pod is there, the others may come.
OnlyFirst == [p \in Pods |-> IF p = p1 THEN n1 ELSE "absent"]
==========================================================================
