-------------------------- MODULE MCComposeRequests --------------------------
(* Several requests side by side, with the people of MCComposeWorkflow: one *)
(* curator, who has an assistant, and two approvers.                        *)
EXTENDS MCComposeWorkflow, ComposeRequests
LOCAL INSTANCE TLC

MCOneCurator == {head}
MCOneAssistant == [c \in MCOneCurator |-> {aide}]
MCTwoApprovers == [i \in 1 .. 2 |-> IF i = 1 THEN ann ELSE sue]

(* A request is like any other.                                             *)
MCSymmetry == Permutations(Requests)

(* What the two properties say ends with the first old copy that is saved   *)
(* over an approver's row, and one row of a signer is enough to go wrong.   *)
(* A signature that was taken back may be given again, and registers again. *)
MCMaxDocs == 2
MCBound ==
    /\ oldApprovers = {} /\ Cardinality(oldSigners) <= 1
    /\ docs[content] <= MCMaxDocs
=============================================================================
