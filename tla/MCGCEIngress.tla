---------------------------- MODULE MCGCEIngress ----------------------------
(* Instances of the GCE ingress controller for TLC. *)
EXTENDS GCEIngress

CONSTANTS i1, i2, p1, p2, s1, n1, n2, z1, z2

SharedService == [i \in Ingresses |-> IF i = i1 THEN {s1} ELSE Services]
FirstPort == [s \in Services |-> IF s = s1 THEN p1 ELSE None]
OneZone == [n \in Nodes |-> z1]
OneEach == [n \in Nodes |-> IF n = n1 THEN z1 ELSE z2]
=============================================================================
