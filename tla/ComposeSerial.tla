---------------------------- MODULE ComposeSerial ----------------------------
(* ComposeRequests seen between requests: "before" is the database as the   *)
(* last quiet moment left it.  With one request at a time this is exactly   *)
(* ComposeWorkflow, where a handler is one step.                            *)
EXTENDS ComposeRequests

VARIABLE before

Database ==
    [signers |-> signers, approvers |-> approvers, curator |-> curator,
     content |-> content, status |-> status, isSigned |-> isSigned, docs |-> docs,
     updates |-> updates, late |-> late, failed |-> failed]

SerialInit == RequestInit /\ before = Database
SerialNext == RequestNext /\ before' = IF Quiet' THEN Database' ELSE before
SerialSpec == SerialInit /\ [][SerialNext]_<<requestVars, before>>

Workflow == INSTANCE ComposeWorkflow WITH
    signers <- before.signers, approvers <- before.approvers, curator <- before.curator,
    content <- before.content, status <- before.status, isSigned <- before.isSigned,
    docs <- before.docs, updates <- before.updates, late <- before.late,
    failed <- before.failed

(* One request at a time, the statements of a handler add up to the one     *)
(* step that ComposeWorkflow takes for it.                                  *)
ImplementsWorkflow == Workflow!Spec
=============================================================================
