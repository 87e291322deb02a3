------------------------------ MODULE MCDocFlow ------------------------------
(* A document with at most two reviewers, of whom one has an assistant, two *)
(* assignments and three assignees.                                         *)
EXTENDS DocFlow, TLC

CONSTANTS rita, rob, r1, r2, a1, a2, p1, p2

MCUsers == {rita, rob}
MCAssisted == {rita}
MCListed == {{rita}}
MCReviewerIds == {r1, r2}
MCAssignmentIds == {a1, a2}
MCAssigneeIds == {p1, p2}
MCMaxChanges == [k \in {"review", "execute"} |-> IF k = "review" THEN 1 ELSE 2]
MCSymmetry == Permutations(MCReviewerIds) \cup Permutations(MCAssignmentIds) \cup Permutations(MCAssigneeIds)
=============================================================================
