----------------------------- MODULE Mastership -----------------------------
(***************************************************************************)
(* What leader election promises: the record of who is the master names it *)
(* whenever there is one, it passes to another candidate only while there  *)
(* is none, and so there is never more than one.                           *)
(***************************************************************************)
CONSTANTS Candidates, None

VARIABLES
  owner,     \* the candidate that the record names
  leaders    \* the candidates that act as the master

Init == owner = None /\ leaders = {}

\* A candidate writes itself into the record.
Take(c) == leaders = {} /\ owner' = c /\ UNCHANGED leaders

\* It starts to act as the master, and stops.
Elect(c) == leaders = {} /\ owner = c /\ leaders' = {c} /\ UNCHANGED owner
Resign == leaders' = {} /\ UNCHANGED owner

Next == Resign \/ \E c \in Candidates : Take(c) \/ Elect(c)

Spec == Init /\ [][Next]_<<owner, leaders>>
=============================================================================
