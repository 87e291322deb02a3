-------------------------- MODULE MCComposeWorkflow --------------------------
(* Small instances of ComposeWorkflow for TLC. *)
EXTENDS ComposeWorkflow

CONSTANTS sam, sue, ann, head, chief, aide

MCUsers == {sam, sue, ann, head, chief, aide}
MCCurators == {head, chief}
MCAssistants == [c \in MCCurators |-> IF c = head THEN {aide} ELSE {}]
MCNone == {}
MCNoAssistants == [c \in MCNone |-> {}]
MCSignerIds == 1 .. 3
MCApproverIds == 1 .. 3
MCRowIds == 1 .. 4
MCAskedSigners == [i \in 1 .. 2 |-> IF i = 1 THEN sam ELSE sue]
MCAskedApprovers == [i \in {1} |-> ann]
MCLateApprovers == {ann, aide}
MCCallers == {sam, ann}
=============================================================================
