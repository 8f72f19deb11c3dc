-------------------------------- MODULE MCL7 --------------------------------
(***************************************************************************)
(* One Ingress with two certificates and the addresses of two rules.       *)
(***************************************************************************)
EXTENDS L7

CONSTANTS c1, c2, e1, e2, e3
=============================================================================
