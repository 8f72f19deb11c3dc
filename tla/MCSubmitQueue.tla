--------------------------- MODULE MCSubmitQueue ---------------------------
(* Instances of the submit queue for TLC. *)
EXTENDS SubmitQueue

CONSTANTS p1, p2, p3

Ready == {"lgtm", "approved", "cla"}

TwoPRs == {p1, p2}
ThreePRs == {p1, p2, p3}
ReadyLabels == [p \in PRs |-> Ready]
InOrder == [p \in PRs |-> IF p = p1 THEN 1 ELSE IF p = p2 THEN 2 ELSE 3]
============================================================================
