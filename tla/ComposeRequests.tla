--------------------------- MODULE ComposeRequests ---------------------------
(****************************************************************************)
(* The handlers of ComposeWorkflow as the server really runs them: several  *)
(* requests at a time, each a sequence of database statements.  No          *)
(* transaction spans a request (ATOMIC_REQUESTS is off) and no row is       *)
(* locked, so other requests run between any two statements.  A request     *)
(* works on the copies it loaded: saving a copied row writes every column   *)
(* of it, and inserts the row again if it was deleted in the meantime.      *)
(*                                                                          *)
(* The reads of one check, and a read with the update it guards, are one    *)
(* step.  The author's update and the restore are not among the requests.   *)
(*                                                                          *)
(* The column read_time is not kept.  A save of an old copy may empty it    *)
(* again, so a reading may find it empty at any time and save the row; one  *)
(* that finds it set changes nothing.                                       *)
(****************************************************************************)
EXTENDS ComposeWorkflow

CONSTANT Requests   \* the requests the server handles at the same time

VARIABLES
    req,            \* request -> where it stands and the copies it holds
    oldSigners,     \* signer rows over which an old copy was saved (history)
    oldApprovers    \* approver rows over which an old copy was saved (history)

old == <<oldSigners, oldApprovers>>
requestVars == <<vars, req, old>>

Idle == [pc |-> "idle"]
Quiet == \A t \in Requests : req[t] = Idle

At(t, pc) == req[t].pc = pc
Begin(t, r) == req[t] = Idle /\ req' = [req EXCEPT ![t] = r]
Goto(t, pc) == req' = [req EXCEPT ![t].pc = pc]
Finish(t) == req' = [req EXCEPT ![t] = Idle]

(* The columns of the compose that a later full save writes back.           *)
ComposeRow == [content |-> content, status |-> status, isSigned |-> isSigned]
SaveCompose(row) ==
    /\ content' = row.content
    /\ status' = row.status
    /\ isSigned' = row.isSigned

(* Primary keys are not given twice: a key some request holds is not free.  *)
Holding(pcs) == {req[t].id : t \in {u \in Requests : req[u].pc \in pcs}}
FreeSignerIds == SignerIds \ Holding({"sign", "reject_sign", "read_signer"})
FreeApproverIds == ApproverIds \ Holding({"approve", "reject_approve", "read_approver"})

(* Is a copy old, in a column its request does not mean to change?          *)
IsOld(table, id, copy) == id \notin DOMAIN table \/ table[id] # copy
Marked(ids, id, isOld) == IF isOld THEN ids \cup {id} ELSE ids

-----------------------------------------------------------------------------
(* approve                                                                  *)

LoadApproval(t, a) ==
    /\ approvers[a].ok # "yes"
    /\ Begin(t, [pc |-> "approve", id |-> a, row |-> [approvers[a] EXCEPT !.ok = "yes"]])
    /\ UNCHANGED vars

SaveApproval(t) ==
    /\ At(t, "approve")
    /\ approvers' = Insert(approvers, req[t].id, req[t].row)
    /\ Goto(t, "show")
    /\ UNCHANGED <<signers, doc, docs, used>>

(* Slip: the approver asked last is taken for the one who approves last. *)
Slip_ShowAfterLastAsked(t) ==
    /\ At(t, "show")
    /\ signers' = IF \E a \in DOMAIN approvers : a > req[t].id THEN signers
                  ELSE MakeVisibleToSigners(signers, approvers)
    /\ Goto(t, "ask")
    /\ UNCHANGED <<approvers, doc, docs, used>>

ShowToSigners(t) ==
    /\ At(t, "show")
    /\ signers' = MakeVisibleToSigners(signers, approvers)
    /\ Goto(t, "ask")
    /\ UNCHANGED <<approvers, doc, docs, used>>

IsAssistant(u) == curator # Nobody /\ u \in Assistants[curator]

AskCurator(t) ==
    /\ At(t, "ask")
    /\ IF IsAssistant(req[t].row.user) /\ AllSignedAndApproved(signers, approvers)
       THEN Goto(t, "create_curator")
       ELSE Finish(t)
    /\ UNCHANGED vars

CreateCurator(t) ==
    /\ At(t, "create_curator")
    /\ signers' \in Created(signers, FreeSignerIds, NewSigner(curator, "basic_signer", "yes"))
    /\ Finish(t)
    /\ UNCHANGED <<approvers, doc, docs, used>>

-----------------------------------------------------------------------------
(* sign                                                                     *)

LoadSigning(t, s) ==
    /\ MaySign(s)
    /\ Begin(t, [pc |-> "sign", id |-> s, row |-> Signed(s)[s]])
    /\ UNCHANGED vars

SaveSigning(t) ==
    /\ At(t, "sign")
    /\ signers' = Insert(signers, req[t].id, req[t].row)
    /\ Goto(t, "prune")
    /\ UNCHANGED <<approvers, doc, docs, used>>

PruneApprovers(t) ==
    /\ At(t, "prune")
    /\ approvers' = Without(approvers,
                      {a \in Pending(approvers) : approvers[a].addedBy = req[t].row.user})
    /\ Goto(t, IF req[t].row.kind # "basic_signer" /\ curator # Nobody THEN "hand_over" ELSE "check")
    /\ UNCHANGED <<signers, doc, docs, used>>

HandOver(t) ==
    /\ At(t, "hand_over")
    /\ IF ~AllSignedAndApproved(signers, approvers) THEN Goto(t, "check")
       ELSE IF Assistants[curator] = {} THEN Finish(t)
       ELSE Goto(t, "create_assistant")
    /\ UNCHANGED vars

CreateAssistant(t) ==
    /\ At(t, "create_assistant")
    /\ approvers' \in Created(approvers, FreeApproverIds, NewApprover(FirstAssistant(curator), Nobody))
    /\ Goto(t, "check")
    /\ UNCHANGED <<signers, doc, docs, used>>

(* Slip: the signer asked last is taken for the one who signs last. *)
Slip_CheckByLastAsked(t) ==
    /\ At(t, "check")
    /\ IF AllSignedAndApproved(signers, approvers) /\ ~ \E s \in DOMAIN signers : s > req[t].id
       THEN Goto(t, "open") ELSE Finish(t)
    /\ UNCHANGED vars

CheckRegistration(t) ==
    /\ At(t, "check")
    /\ IF AllSignedAndApproved(signers, approvers) THEN Goto(t, "open") ELSE Finish(t)
    /\ UNCHANGED vars

(* register_...: the compose is loaded again and the BaseDocument created;  *)
(* assignment, PDF and file store follow; then the copy is saved as done.   *)
OpenDocument(t) ==
    /\ At(t, "open")
    /\ docs' = [docs EXCEPT ![content] = @ + 1]
    /\ req' = [req EXCEPT ![t] = [pc |-> "close", compose |-> [ComposeRow EXCEPT !.status = "done",
                                                                               !.isSigned = TRUE]]]
    /\ UNCHANGED <<signers, approvers, doc, used>>

CloseDocument(t) ==
    /\ At(t, "close")
    /\ SaveCompose(req[t].compose)
    /\ Finish(t)
    /\ UNCHANGED <<signers, approvers, curator, docs, used>>

RegistrationFails(t) ==
    /\ req[t].pc \in {"open", "close"}
    /\ failed < MaxFailures
    /\ failed' = failed + 1
    /\ Finish(t)
    /\ UNCHANGED <<signers, approvers, doc, docs, updates, late>>

-----------------------------------------------------------------------------
(* reject, by an approver or by a signer                                    *)

LoadRefusal(t, a) ==
    /\ approvers[a].ok = "null"
    /\ Begin(t, [pc |-> "reject_approve", id |-> a, row |-> [approvers[a] EXCEPT !.ok = "no"],
                 compose |-> [ComposeRow EXCEPT !.status = "declined_from_approver"]])
    /\ UNCHANGED vars

SaveRefusal(t) ==
    /\ At(t, "reject_approve")
    /\ approvers' = Insert(approvers, req[t].id, req[t].row)
    /\ Goto(t, "decline")
    /\ UNCHANGED <<signers, doc, docs, used>>

LoadRejection(t, s) ==
    /\ signers[s].signed = "null"
    /\ Begin(t, [pc |-> "reject_sign", id |-> s, row |-> [signers[s] EXCEPT !.signed = "no"],
                 compose |-> [ComposeRow EXCEPT !.status = "declined_from_signer"]])
    /\ UNCHANGED vars

SaveRejection(t) ==
    /\ At(t, "reject_sign")
    /\ signers' = Insert(signers, req[t].id, req[t].row)
    /\ oldSigners' = Marked(oldSigners, req[t].id,
                            IsOld(signers, req[t].id,
                                  [req[t].row EXCEPT !.signed = signers[req[t].id].signed]))
    /\ Goto(t, "decline")
    /\ UNCHANGED <<approvers, doc, docs, used, oldApprovers>>

SaveDeclined(t) ==
    /\ At(t, "decline")
    /\ SaveCompose(req[t].compose)
    /\ Finish(t)
    /\ UNCHANGED <<signers, approvers, curator, docs, used>>

-----------------------------------------------------------------------------
(* retrieve, of an approver's or of a signer's row, by anybody: the first   *)
(* reading is noted in the row, which is saved whole.                       *)

LoadApproverRow(t, a) ==
    /\ Begin(t, [pc |-> "read_approver", id |-> a, row |-> approvers[a]])
    /\ UNCHANGED vars

SaveApproverRow(t) ==
    /\ At(t, "read_approver")
    /\ approvers' = Insert(approvers, req[t].id, req[t].row)
    /\ oldApprovers' = Marked(oldApprovers, req[t].id, IsOld(approvers, req[t].id, req[t].row))
    /\ Finish(t)
    /\ UNCHANGED <<signers, doc, docs, used, oldSigners>>

LoadSignerRow(t, s) ==
    /\ Begin(t, [pc |-> "read_signer", id |-> s, row |-> signers[s]])
    /\ UNCHANGED vars

SaveSignerRow(t) ==
    /\ At(t, "read_signer")
    /\ signers' = Insert(signers, req[t].id, req[t].row)
    /\ oldSigners' = Marked(oldSigners, req[t].id, IsOld(signers, req[t].id, req[t].row))
    /\ Finish(t)
    /\ UNCHANGED <<approvers, doc, docs, used, oldApprovers>>

-----------------------------------------------------------------------------
(* custom_update with a changed text: the rows are reset one table at a     *)
(* time, and the text is saved last.                                        *)

LoadEdit(t) ==
    /\ content < MaxEdits
    /\ Begin(t, [pc |-> IF curator = Nobody THEN "reset_signers" ELSE "remove_curator",
                 compose |-> [ComposeRow EXCEPT !.content = @ + 1]])
    /\ UNCHANGED vars

RemoveCurator(t) ==
    /\ At(t, "remove_curator")
    /\ signers' = Without(signers, CuratorRows(signers, curator))
    /\ Goto(t, "remove_assistants")
    /\ UNCHANGED <<approvers, doc, docs, used>>

RemoveAssistants(t) ==
    /\ At(t, "remove_assistants")
    /\ approvers' = Without(approvers, AssistantRows(approvers, curator))
    /\ Goto(t, "reset_signers")
    /\ UNCHANGED <<signers, doc, docs, used>>

ResetSigners(t) ==
    /\ At(t, "reset_signers")
    /\ signers' = [s \in DOMAIN signers |-> Withdrawn(signers[s])]
    /\ Goto(t, "reset_approvers")
    /\ UNCHANGED <<approvers, doc, docs, used>>

(* Slip: the signers keep seeing the document whose approvals are gone. *)
Slip_ResetApproversOnly(t) ==
    /\ At(t, "reset_approvers")
    /\ approvers' = [a \in DOMAIN approvers |-> [approvers[a] EXCEPT !.ok = "null"]]
    /\ Goto(t, "save_text")
    /\ UNCHANGED <<signers, doc, docs, used>>

ResetApprovers(t) ==
    /\ At(t, "reset_approvers")
    /\ approvers' = [a \in DOMAIN approvers |-> [approvers[a] EXCEPT !.ok = "null"]]
    /\ Goto(t, IF DOMAIN approvers = {} THEN "save_text" ELSE "hide")
    /\ UNCHANGED <<signers, doc, docs, used>>

HideFromSigners(t) ==
    /\ At(t, "hide")
    /\ signers' = [s \in DOMAIN signers |-> [signers[s] EXCEPT !.visible = "no"]]
    /\ Goto(t, "save_text")
    /\ UNCHANGED <<approvers, doc, docs, used>>

SaveText(t) ==
    /\ At(t, "save_text")
    /\ SaveCompose(req[t].compose)
    /\ Finish(t)
    /\ UNCHANGED <<signers, approvers, curator, docs, used>>

-----------------------------------------------------------------------------
(* A request that reads, approves, signs or refuses.                        *)
Answer(t) ==
    \/ /\ \/ \E a \in DOMAIN approvers :
                LoadApproval(t, a) \/ LoadRefusal(t, a) \/ LoadApproverRow(t, a)
          \/ \E s \in DOMAIN signers :
                LoadSigning(t, s) \/ LoadRejection(t, s) \/ LoadSignerRow(t, s)
          \/ SaveApproval(t) \/ ShowToSigners(t) \/ AskCurator(t) \/ CreateCurator(t)
          \/ SaveSigning(t) \/ PruneApprovers(t) \/ HandOver(t) \/ CreateAssistant(t)
          \/ CheckRegistration(t) \/ OpenDocument(t) \/ CloseDocument(t)
          \/ SaveRefusal(t) \/ SaveDeclined(t)
       /\ UNCHANGED old
    \/ SaveRejection(t) \/ SaveApproverRow(t) \/ SaveSignerRow(t)

(* A request that changes the text or the list of approvers.                *)
Change(t) ==
    \/ LoadEdit(t) \/ RemoveCurator(t) \/ RemoveAssistants(t) \/ ResetSigners(t)
    \/ ResetApprovers(t) \/ HideFromSigners(t) \/ SaveText(t)
    \/ /\ req[t] = Idle
       /\ \E u \in LateApprovers, by \in Callers : AddApprover(u, by)
       /\ UNCHANGED req

RequestInit ==
    /\ Init
    /\ req = [t \in Requests |-> Idle]
    /\ oldSigners = {} /\ oldApprovers = {}
RequestNext ==
    \E t \in Requests :
        Answer(t) \/ (Change(t) /\ UNCHANGED old) \/ (RegistrationFails(t) /\ UNCHANGED old)
RequestSpec == RequestInit /\ [][RequestNext]_requestVars

(* A text that nobody changes, and whose registration comes through.        *)
AnswerNext == \E t \in Requests : Answer(t)
AnswerSpec == RequestInit /\ [][AnswerNext]_requestVars

-----------------------------------------------------------------------------
Declined == status \in {"declined_from_approver", "declined_from_signer"}

(* Signatures that arrive at the same time do not miss each other: each is  *)
(* saved before its request looks for the others, so whoever looks last     *)
(* sees them all.  When the server is quiet again, either something is      *)
(* still missing, or the document is registered, or someone refused it, or  *)
(* an old copy of a row was saved over an answer: a reading that loaded the *)
(* row first takes the answer back, and nobody looks when another such      *)
(* reading brings it in again.                                              *)
NoLostRegistration ==
    (Quiet /\ late = 0 /\ ~Declined /\ oldSigners = {} /\ oldApprovers = {})
        => RegisteredOnceAllSigned

(* Nor do approvals: once the requests are through, the last approval has   *)
(* made the document visible to every signer but those over whose row an    *)
(* old copy was saved.  (A reading or a refusal saves the whole signer row  *)
(* as it was loaded, and with it an old is_all_approved.)  A reading of an  *)
(* approver's row can bring an approval in again without showing anything.  *)
NoLostApproval ==
    (Quiet /\ AllApproved(approvers) /\ oldApprovers = {}) =>
        \A s \in DOMAIN signers \ oldSigners : signers[s].visible = "yes"

(* The docstring of send_to_curator, "approve and send document to a        *)
(* curator for final signature": a registered document that has a curator   *)
(* is signed by the curator.                                                *)
CuratorSignsLast ==
    (curator # Nobody /\ docs[content] >= 1)
        => \E c \in CuratorRows(signers, curator) : signers[c].signed = "yes"
=============================================================================
