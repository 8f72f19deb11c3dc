-------------------------- MODULE MCLeaderElection --------------------------
(***************************************************************************)
(* Two candidates and a lease of eight ticks.                              *)
(***************************************************************************)
EXTENDS LeaderElection

CONSTANTS c1, c2
=============================================================================
