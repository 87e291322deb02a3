------------------------ MODULE ComposeRequestsProofs ------------------------
(****************************************************************************)
(* Requests that answer at the same time, for any number of them and any    *)
(* lists of people: the last approval makes the document visible, and the   *)
(* last signature registers it.                                             *)
(*                                                                          *)
(* Both rest on the order in which a request works: it saves its row before *)
(* it looks at the rows of the others, so of several that answer last there *)
(* is always one that has yet to look when everything is there.             *)
(*                                                                          *)
(* And requests that come one at a time: their statements add up to the     *)
(* steps of ComposeWorkflow.                                                *)
(****************************************************************************)
EXTENDS ComposeSerial, ComposeWorkflowProofs

-----------------------------------------------------------------------------
(* What a request holds, wherever it stands.                                *)

Approving == {"approve", "show", "ask", "create_curator"}
Signing == {"sign", "prune", "hand_over", "create_assistant", "check", "open"}
Refusing == {"reject_approve", "reject_sign", "decline"}
Refusals == {"declined_from_approver", "declined_from_signer"}

ComposeRows == [content : Versions, status : Statuses, isSigned : BOOLEAN]
ApprovingRows == [pc : Approving, id : ApproverIds, row : ApproverRow]
SigningRows == [pc : Signing, id : SignerIds, row : SignerRow]
ClosingRows == [pc : {"close"}, compose : ComposeRows]
RefusingRows ==
    [pc : {"reject_approve", "decline"}, id : ApproverIds, row : ApproverRow, compose : ComposeRows]
RejectingRows ==
    [pc : {"reject_sign", "decline"}, id : SignerIds, row : SignerRow, compose : ComposeRows]
ReadingRows ==
    [pc : {"read_approver"}, id : ApproverIds, row : ApproverRow]
        \cup [pc : {"read_signer"}, id : SignerIds, row : SignerRow]
RequestRows ==
    {Idle} \cup ApprovingRows \cup SigningRows \cup ClosingRows \cup RefusingRows \cup RejectingRows
        \cup ReadingRows

(* A copy of an approver row is still that person's row when it is saved,   *)
(* and a copy of the compose still has the current text.                    *)
CopyFits(t) ==
    /\ req[t].pc \in {"approve", "reject_approve", "read_approver"} =>
         /\ req[t].id \in DOMAIN approvers
         /\ req[t].row.user = approvers[req[t].id].user
         /\ req[t].row.addedBy = Nobody
    /\ At(t, "approve") => req[t].row.ok = "yes"
    /\ At(t, "reject_approve") => req[t].row.ok = "no"
    /\ At(t, "sign") => req[t].row.signed = "yes" /\ req[t].row.visible = "yes"
    /\ At(t, "reject_sign") => req[t].row.signed = "no"
    /\ req[t].pc \in Refusing => req[t].compose.content = content /\ req[t].compose.status \in Refusals
    /\ At(t, "close") => /\ req[t].compose.content = content
                         /\ req[t].compose.status = "done"
                         /\ docs[content] >= 1
    /\ At(t, "create_curator") => IsAssistant(req[t].row.user)
    /\ req[t].pc \in {"hand_over", "create_assistant"} => curator # Nobody
    /\ At(t, "create_assistant") => Assistants[curator] # {}

AnswerTyped ==
    /\ TypeOK
    /\ req \in [Requests -> RequestRows]
    /\ \A t \in Requests : CopyFits(t)
    /\ DOMAIN signers # {}
    /\ \A a \in DOMAIN approvers : approvers[a].addedBy = Nobody
    /\ status = "done" => docs[content] >= 1

-----------------------------------------------------------------------------
(* Tables and requests.                                                     *)

(* The rows of a table.                                                     *)
LEMMA TableRows ==
    ASSUME NEW ids, NEW rows, NEW T, IsTable(T, ids, rows)
    PROVE  /\ DOMAIN T \subseteq ids
           /\ \A k \in DOMAIN T : T[k] \in rows
BY DEF IsTable

(* Saving a row, new or not, leaves a table.                                *)
LEMMA InsertTable ==
    ASSUME NEW ids, NEW rows, NEW T, IsTable(T, ids, rows), NEW key \in ids, NEW row \in rows
    PROVE  IsTable(Insert(T, key, row), ids, rows)
BY DEF IsTable, Insert

(* It changes that row only.                                                *)
LEMMA InsertRow ==
    ASSUME NEW T, NEW key, NEW row
    PROVE  /\ DOMAIN Insert(T, key, row) = DOMAIN T \cup {key}
           /\ Insert(T, key, row)[key] = row
           /\ \A k \in DOMAIN T \ {key} : Insert(T, key, row)[k] = T[k]
BY DEF Insert

(* Inserting a row under one of the keys that are not held leaves a table.  *)
LEMMA CreatedAmong ==
    ASSUME NEW ids, NEW rows, NEW T, IsTable(T, ids, rows), NEW row \in rows,
           NEW free, free \subseteq ids, NEW U \in Created(T, free, row)
    PROVE  IsTable(U, ids, rows)
<1>1. PICK key \in free \ DOMAIN T : U = Insert(T, key, row)
  BY DEF Created, NextKeys
<1>2. key \in ids
  OBVIOUS
<1>3. QED
  BY <1>1, <1>2, InsertTable

(* Making the document visible.                                             *)
LEMMA VisibleTable ==
    ASSUME NEW S, IsTable(S, SignerIds, SignerRow), NEW A
    PROVE  LET V == MakeVisibleToSigners(S, A)
           IN  /\ IsTable(V, SignerIds, SignerRow)
               /\ DOMAIN V = DOMAIN S
               /\ \A s \in DOMAIN S : V[s].signed = S[s].signed
               /\ AllApproved(A) => \A s \in DOMAIN S : V[s].visible = "yes"
               /\ ~AllApproved(A) => V = S
<1>1. \A s \in DOMAIN S : S[s] \in SignerRow
  BY TableRows
<1>2. \A s \in DOMAIN S : /\ [S[s] EXCEPT !.visible = "yes"] \in SignerRow
                          /\ [S[s] EXCEPT !.visible = "yes"].visible = "yes"
                          /\ [S[s] EXCEPT !.visible = "yes"].signed = S[s].signed
  BY <1>1 DEF SignerRow, Tri
<1>3. CASE AllApproved(A)
  <2> DEFINE V == [s \in DOMAIN S |-> [S[s] EXCEPT !.visible = "yes"]]
  <2>1. MakeVisibleToSigners(S, A) = V
    BY <1>3 DEF MakeVisibleToSigners
  <2>2. /\ DOMAIN V = DOMAIN S
        /\ \A s \in DOMAIN S : V[s] \in SignerRow /\ V[s].visible = "yes" /\ V[s].signed = S[s].signed
    BY <1>2
  <2>3. V \in [DOMAIN S -> SignerRow]
    BY <1>2
  <2> HIDE DEF V
  <2>4. IsTable(V, SignerIds, SignerRow)
    BY <2>2, <2>3 DEF IsTable
  <2>5. QED
    BY <1>3, <2>1, <2>2, <2>4
<1>4. CASE ~AllApproved(A)
  BY <1>4 DEF MakeVisibleToSigners
<1>5. QED
  BY <1>3, <1>4

(* Where a request stands tells what it holds.                              *)
LEMMA KindOfRequest ==
    ASSUME NEW r \in RequestRows
    PROVE  /\ r.pc \in Approving => r \in ApprovingRows
           /\ r.pc \in Signing => r \in SigningRows
           /\ r.pc = "close" => r \in ClosingRows
           /\ r.pc = "reject_approve" => r \in RefusingRows
           /\ r.pc = "reject_sign" => r \in RejectingRows
           /\ r.pc = "decline" => r \in RefusingRows \cup RejectingRows
           /\ r.pc = "idle" => r = Idle
           /\ r.pc = "read_approver" => r.id \in ApproverIds /\ r.row \in ApproverRow
           /\ r.pc = "read_signer" => r.id \in SignerIds /\ r.row \in SignerRow
BY DEF RequestRows, ApprovingRows, SigningRows, ClosingRows, RefusingRows, RejectingRows, ReadingRows,
       Idle, Approving, Signing

(* A request that goes on in its work keeps what it holds.                  *)
LEMMA GoesOn ==
    ASSUME req \in [Requests -> RequestRows], NEW t \in Requests, NEW pc, Goto(t, pc),
           \/ req[t].pc \in Approving /\ pc \in Approving
           \/ req[t].pc \in Signing /\ pc \in Signing
           \/ req[t].pc \in {"reject_approve", "reject_sign"} /\ pc = "decline"
    PROVE  /\ req' \in [Requests -> RequestRows]
           /\ req'[t].pc = pc /\ req'[t].id = req[t].id /\ req'[t].row = req[t].row
           /\ req[t].pc \in {"reject_approve", "reject_sign"} => req'[t].compose = req[t].compose
           /\ \A u \in Requests \ {t} : req'[u] = req[u]
<1> DEFINE r == [req[t] EXCEPT !.pc = pc]
<1>1. req' = [req EXCEPT ![t] = r]
  BY DEF Goto
<1>2. /\ r \in RequestRows /\ r.pc = pc /\ r.id = req[t].id /\ r.row = req[t].row
      /\ req[t].pc \in {"reject_approve", "reject_sign"} => r.compose = req[t].compose
  <2>1. CASE req[t].pc \in Approving /\ pc \in Approving
    <3>1. req[t] \in ApprovingRows /\ req[t].pc \notin {"reject_approve", "reject_sign"}
      BY <2>1, KindOfRequest DEF Approving
    <3>2. r \in ApprovingRows /\ r.pc = pc /\ r.id = req[t].id /\ r.row = req[t].row
      BY <2>1, <3>1 DEF ApprovingRows
    <3>3. QED
      BY <3>1, <3>2 DEF RequestRows
  <2>2. CASE req[t].pc \in Signing /\ pc \in Signing
    <3>1. req[t] \in SigningRows /\ req[t].pc \notin {"reject_approve", "reject_sign"}
      BY <2>2, KindOfRequest DEF Signing
    <3>2. r \in SigningRows /\ r.pc = pc /\ r.id = req[t].id /\ r.row = req[t].row
      BY <2>2, <3>1 DEF SigningRows
    <3>3. QED
      BY <3>1, <3>2 DEF RequestRows
  <2>3. CASE req[t].pc = "reject_approve" /\ pc = "decline"
    <3>1. req[t] \in RefusingRows
      BY <2>3, KindOfRequest
    <3>2. r \in RefusingRows /\ r.pc = pc /\ r.id = req[t].id /\ r.row = req[t].row /\ r.compose = req[t].compose
      BY <2>3, <3>1 DEF RefusingRows
    <3>3. QED
      BY <3>2 DEF RequestRows
  <2>4. CASE req[t].pc = "reject_sign" /\ pc = "decline"
    <3>1. req[t] \in RejectingRows
      BY <2>4, KindOfRequest
    <3>2. r \in RejectingRows /\ r.pc = pc /\ r.id = req[t].id /\ r.row = req[t].row /\ r.compose = req[t].compose
      BY <2>4, <3>1 DEF RejectingRows
    <3>3. QED
      BY <3>2 DEF RequestRows
  <2>5. QED
    BY <2>1, <2>2, <2>3, <2>4
<1> HIDE DEF r
<1>3. QED
  BY <1>1, <1>2

(* A request that begins, or holds something else from now on.              *)
LEMMA Becomes ==
    ASSUME req \in [Requests -> RequestRows], NEW t \in Requests, NEW r \in RequestRows,
           req' = [req EXCEPT ![t] = r]
    PROVE  /\ req' \in [Requests -> RequestRows]
           /\ req'[t] = r
           /\ \A u \in Requests \ {t} : req'[u] = req[u]
OBVIOUS

-----------------------------------------------------------------------------
(* The type invariant.                                                      *)

(* What a step of request t has to show.                                    *)
LEMMA TypedStep ==
    ASSUME AnswerTyped, NEW t \in Requests,
           IsTable(signers', SignerIds, SignerRow), DOMAIN signers \subseteq DOMAIN signers',
           IsTable(approvers', ApproverIds, ApproverRow),
           \A a \in DOMAIN approvers : a \in DOMAIN approvers' /\ approvers'[a].user = approvers[a].user,
           \A a \in DOMAIN approvers' : approvers'[a].addedBy = Nobody,
           UNCHANGED <<curator, content, used>>,
           docs' \in [Versions -> Nat], docs'[content] >= docs[content],
           status' \in Statuses, isSigned' \in BOOLEAN, status' = "done" => docs'[content] >= 1,
           req' \in [Requests -> RequestRows], \A u \in Requests \ {t} : req'[u] = req[u],
           CopyFits(t)'
    PROVE  AnswerTyped'
<1>1. TypeOK'
  BY DEF AnswerTyped, TypeOK, used
<1>2. docs[content] \in Nat /\ docs'[content] \in Nat
  BY DEF AnswerTyped, TypeOK
<1>3. ASSUME NEW u \in Requests \ {t}
      PROVE  CopyFits(u)'
  <2>1. CopyFits(u) /\ req'[u] = req[u]
    BY DEF AnswerTyped
  <2>2. QED
    BY <1>2, <2>1 DEF CopyFits, At, IsAssistant
<1>4. \A u \in Requests : CopyFits(u)'
  BY <1>3
<1>5. DOMAIN signers' # {} /\ (status' = "done" => docs'[content'] >= 1)
  BY DEF AnswerTyped
<1>6. QED
  BY <1>1, <1>4, <1>5 DEF AnswerTyped

(* A step that only moves the request.                                      *)
LEMMA TypedMove ==
    ASSUME AnswerTyped, NEW t \in Requests, UNCHANGED vars,
           req' \in [Requests -> RequestRows], \A u \in Requests \ {t} : req'[u] = req[u],
           CopyFits(t)'
    PROVE  AnswerTyped'
<1>1. UNCHANGED <<signers, approvers, curator, content, status, isSigned, docs, used>>
  BY DEF vars, doc
<1>2. docs[content] \in Nat
  BY DEF AnswerTyped, TypeOK
<1>3. QED
  BY <1>1, <1>2, TypedStep DEF AnswerTyped, TypeOK

(* A step that saves signer rows.                                           *)
LEMMA TypedSigners ==
    ASSUME AnswerTyped, NEW t \in Requests, UNCHANGED <<approvers, doc, docs, used>>,
           IsTable(signers', SignerIds, SignerRow), DOMAIN signers \subseteq DOMAIN signers',
           req' \in [Requests -> RequestRows], \A u \in Requests \ {t} : req'[u] = req[u],
           CopyFits(t)'
    PROVE  AnswerTyped'
<1>1. UNCHANGED <<approvers, curator, content, status, isSigned, docs, used>>
  BY DEF doc
<1>2. docs[content] \in Nat
  BY DEF AnswerTyped, TypeOK
<1>3. QED
  BY <1>1, <1>2, TypedStep DEF AnswerTyped, TypeOK

(* A step that saves approver rows.                                         *)
LEMMA TypedApprovers ==
    ASSUME AnswerTyped, NEW t \in Requests, UNCHANGED <<signers, doc, docs, used>>,
           IsTable(approvers', ApproverIds, ApproverRow),
           \A a \in DOMAIN approvers : a \in DOMAIN approvers' /\ approvers'[a].user = approvers[a].user,
           \A a \in DOMAIN approvers' : approvers'[a].addedBy = Nobody,
           req' \in [Requests -> RequestRows], \A u \in Requests \ {t} : req'[u] = req[u],
           CopyFits(t)'
    PROVE  AnswerTyped'
<1>1. UNCHANGED <<signers, curator, content, status, isSigned, docs, used>>
  BY DEF doc
<1>2. docs[content] \in Nat
  BY DEF AnswerTyped, TypeOK
<1>3. QED
  BY <1>1, <1>2, TypedStep DEF AnswerTyped, TypeOK

(* A request that is through holds nothing.                                 *)
LEMMA Finished ==
    ASSUME AnswerTyped, NEW t \in Requests, Finish(t)
    PROVE  /\ req' \in [Requests -> RequestRows]
           /\ req'[t] = Idle /\ req'[t].pc = "idle"
           /\ \A u \in Requests \ {t} : req'[u] = req[u]
           /\ CopyFits(t)'
<1>1. /\ req' \in [Requests -> RequestRows]
      /\ req'[t] = Idle
      /\ \A u \in Requests \ {t} : req'[u] = req[u]
  BY DEF Finish, AnswerTyped, RequestRows
<1>2. req'[t].pc = "idle"
  BY <1>1 DEF Idle
<1>3. CopyFits(t)'
  BY <1>2 DEF CopyFits, At, Refusing
<1>4. QED
  BY <1>1, <1>2, <1>3

(* A request that begins to answer holds copies that fit.                   *)
LEMMA BeginTyped ==
    ASSUME AnswerTyped, NEW t \in Requests,
           \/ \E a \in DOMAIN approvers :
                 LoadApproval(t, a) \/ LoadRefusal(t, a) \/ LoadApproverRow(t, a)
           \/ \E s \in DOMAIN signers :
                 LoadSigning(t, s) \/ LoadRejection(t, s) \/ LoadSignerRow(t, s)
    PROVE  AnswerTyped'
<1>1. /\ req \in [Requests -> RequestRows]
      /\ TypeOK
  BY DEF AnswerTyped
<1>2. /\ DOMAIN approvers \subseteq ApproverIds
      /\ \A a \in DOMAIN approvers : approvers[a] \in ApproverRow /\ approvers[a].addedBy = Nobody
      /\ DOMAIN signers \subseteq SignerIds
      /\ \A s \in DOMAIN signers : signers[s] \in SignerRow
  BY <1>1 DEF TypeOK, IsTable, AnswerTyped
<1>3. \A st \in Refusals : [ComposeRow EXCEPT !.status = st] \in ComposeRows
  BY <1>1 DEF TypeOK, ComposeRow, ComposeRows, Refusals, Statuses
<1>4. CASE \E a \in DOMAIN approvers : LoadApproval(t, a)
  <2>1. PICK a \in DOMAIN approvers : LoadApproval(t, a)
    BY <1>4
  <2> DEFINE row == [approvers[a] EXCEPT !.ok = "yes"]
             r == [pc |-> "approve", id |-> a, row |-> row]
  <2>2. row \in ApproverRow /\ row.user = approvers[a].user /\ row.ok = "yes" /\ row.addedBy = Nobody
    BY <1>2 DEF ApproverRow, Tri
  <2>3. req' = [req EXCEPT ![t] = r] /\ UNCHANGED vars
    BY <2>1 DEF LoadApproval, Begin
  <2> HIDE DEF row
  <2>4. r \in RequestRows
    BY <1>2, <2>2 DEF RequestRows, ApprovingRows, Approving
  <2>5. r.pc = "approve" /\ r.id = a /\ r.row = row
    OBVIOUS
  <2> HIDE DEF r
  <2>6. /\ req' \in [Requests -> RequestRows] /\ req'[t] = r
        /\ \A u \in Requests \ {t} : req'[u] = req[u]
    BY <1>1, <2>3, <2>4, Becomes
  <2>7. CopyFits(t)'
    BY <2>2, <2>3, <2>5, <2>6 DEF CopyFits, At, Refusing, vars
  <2>8. QED
    BY <2>3, <2>6, <2>7, TypedMove
<1>5. CASE \E a \in DOMAIN approvers : LoadRefusal(t, a)
  <2>1. PICK a \in DOMAIN approvers : LoadRefusal(t, a)
    BY <1>5
  <2> DEFINE row == [approvers[a] EXCEPT !.ok = "no"]
             copy == [ComposeRow EXCEPT !.status = "declined_from_approver"]
             r == [pc |-> "reject_approve", id |-> a, row |-> row, compose |-> copy]
  <2>2. row \in ApproverRow /\ row.user = approvers[a].user /\ row.ok = "no" /\ row.addedBy = Nobody
    BY <1>2 DEF ApproverRow, Tri
  <2>3. req' = [req EXCEPT ![t] = r] /\ UNCHANGED vars
    BY <2>1 DEF LoadRefusal, Begin
  <2>4. copy \in ComposeRows /\ copy.content = content /\ copy.status \in Refusals
    BY <1>3 DEF ComposeRow, Refusals
  <2> HIDE DEF row, copy
  <2>5. r \in RequestRows
    BY <1>2, <2>2, <2>4 DEF RequestRows, RefusingRows
  <2>6. r.pc = "reject_approve" /\ r.id = a /\ r.row = row /\ r.compose = copy
    OBVIOUS
  <2> HIDE DEF r
  <2>7. /\ req' \in [Requests -> RequestRows] /\ req'[t] = r
        /\ \A u \in Requests \ {t} : req'[u] = req[u]
    BY <1>1, <2>3, <2>5, Becomes
  <2>8. CopyFits(t)'
    BY <2>2, <2>3, <2>4, <2>6, <2>7 DEF CopyFits, At, vars, doc
  <2>9. QED
    BY <2>3, <2>7, <2>8, TypedMove
<1>6. CASE \E s \in DOMAIN signers : LoadSigning(t, s)
  <2>1. PICK s \in DOMAIN signers : LoadSigning(t, s)
    BY <1>6
  <2> DEFINE row == Signed(s)[s]
             r == [pc |-> "sign", id |-> s, row |-> row]
  <2>2. row \in SignerRow /\ row.signed = "yes" /\ row.visible = "yes"
    BY <1>1, <1>2 DEF Signed, SignerRow, Tri, TypeOK
  <2>3. req' = [req EXCEPT ![t] = r] /\ UNCHANGED vars
    BY <2>1 DEF LoadSigning, Begin
  <2> HIDE DEF row
  <2>4. r \in RequestRows
    BY <1>2, <2>2 DEF RequestRows, SigningRows, Signing
  <2>5. r.pc = "sign" /\ r.id = s /\ r.row = row
    OBVIOUS
  <2> HIDE DEF r
  <2>6. /\ req' \in [Requests -> RequestRows] /\ req'[t] = r
        /\ \A u \in Requests \ {t} : req'[u] = req[u]
    BY <1>1, <2>3, <2>4, Becomes
  <2>7. CopyFits(t)'
    BY <2>2, <2>3, <2>5, <2>6 DEF CopyFits, At, Refusing
  <2>8. QED
    BY <2>3, <2>6, <2>7, TypedMove
<1>7. CASE \E s \in DOMAIN signers : LoadRejection(t, s)
  <2>1. PICK s \in DOMAIN signers : LoadRejection(t, s)
    BY <1>7
  <2> DEFINE row == [signers[s] EXCEPT !.signed = "no"]
             copy == [ComposeRow EXCEPT !.status = "declined_from_signer"]
             r == [pc |-> "reject_sign", id |-> s, row |-> row, compose |-> copy]
  <2>2. row \in SignerRow /\ row.signed = "no"
    BY <1>2 DEF SignerRow, Tri
  <2>3. req' = [req EXCEPT ![t] = r] /\ UNCHANGED vars
    BY <2>1 DEF LoadRejection, Begin
  <2>4. copy \in ComposeRows /\ copy.content = content /\ copy.status \in Refusals
    BY <1>3 DEF ComposeRow, Refusals
  <2> HIDE DEF row, copy
  <2>5. r \in RequestRows
    BY <1>2, <2>2, <2>4 DEF RequestRows, RejectingRows
  <2>6. r.pc = "reject_sign" /\ r.id = s /\ r.row = row /\ r.compose = copy
    OBVIOUS
  <2> HIDE DEF r
  <2>7. /\ req' \in [Requests -> RequestRows] /\ req'[t] = r
        /\ \A u \in Requests \ {t} : req'[u] = req[u]
    BY <1>1, <2>3, <2>5, Becomes
  <2>8. CopyFits(t)'
    BY <2>2, <2>3, <2>4, <2>6, <2>7 DEF CopyFits, At, vars, doc
  <2>9. QED
    BY <2>3, <2>7, <2>8, TypedMove
<1>8. CASE \E a \in DOMAIN approvers : LoadApproverRow(t, a)
  <2>1. PICK a \in DOMAIN approvers : LoadApproverRow(t, a)
    BY <1>8
  <2> DEFINE r == [pc |-> "read_approver", id |-> a, row |-> approvers[a]]
  <2>2. req' = [req EXCEPT ![t] = r] /\ UNCHANGED vars
    BY <2>1 DEF LoadApproverRow, Begin
  <2>3. r \in RequestRows
    BY <1>2 DEF RequestRows, ReadingRows
  <2>4. r.pc = "read_approver" /\ r.id = a /\ r.row = approvers[a]
    OBVIOUS
  <2> HIDE DEF r
  <2>5. /\ req' \in [Requests -> RequestRows] /\ req'[t] = r
        /\ \A u \in Requests \ {t} : req'[u] = req[u]
    BY <1>1, <2>2, <2>3, Becomes
  <2>6. CopyFits(t)'
    BY <1>2, <2>2, <2>4, <2>5 DEF CopyFits, At, Refusing, vars
  <2>7. QED
    BY <2>2, <2>5, <2>6, TypedMove
<1>9. CASE \E s \in DOMAIN signers : LoadSignerRow(t, s)
  <2>1. PICK s \in DOMAIN signers : LoadSignerRow(t, s)
    BY <1>9
  <2> DEFINE r == [pc |-> "read_signer", id |-> s, row |-> signers[s]]
  <2>2. req' = [req EXCEPT ![t] = r] /\ UNCHANGED vars
    BY <2>1 DEF LoadSignerRow, Begin
  <2>3. r \in RequestRows
    BY <1>2 DEF RequestRows, ReadingRows
  <2>4. r.pc = "read_signer"
    OBVIOUS
  <2> HIDE DEF r
  <2>5. /\ req' \in [Requests -> RequestRows] /\ req'[t] = r
        /\ \A u \in Requests \ {t} : req'[u] = req[u]
    BY <1>1, <2>2, <2>3, Becomes
  <2>6. CopyFits(t)'
    BY <2>4, <2>5 DEF CopyFits, At, Refusing
  <2>7. QED
    BY <2>2, <2>5, <2>6, TypedMove
<1>10. QED
  BY <1>4, <1>5, <1>6, <1>7, <1>8, <1>9

(* So does one that goes on approving.                                      *)
LEMMA ApprovingTyped ==
    ASSUME AnswerTyped, NEW t \in Requests,
           SaveApproval(t) \/ ShowToSigners(t) \/ AskCurator(t) \/ CreateCurator(t)
    PROVE  AnswerTyped'
<1>1. /\ req \in [Requests -> RequestRows] /\ TypeOK /\ CopyFits(t)
      /\ IsTable(signers, SignerIds, SignerRow)
      /\ IsTable(approvers, ApproverIds, ApproverRow)
      /\ \A a \in DOMAIN approvers : approvers[a].addedBy = Nobody
  BY DEF AnswerTyped, TypeOK
<1>2. req[t].pc \in Approving => /\ req[t].id \in ApproverIds
                                /\ req[t].row \in ApproverRow
  BY <1>1, KindOfRequest DEF ApprovingRows
<1>3. CASE SaveApproval(t)
  <2>1. /\ req[t].pc = "approve" /\ req[t].pc \in Approving
        /\ approvers' = Insert(approvers, req[t].id, req[t].row)
        /\ Goto(t, "show")
        /\ UNCHANGED <<signers, doc, docs, used>>
    BY <1>3 DEF SaveApproval, At, Approving
  <2>2. /\ req' \in [Requests -> RequestRows] /\ req'[t].pc = "show"
        /\ \A u \in Requests \ {t} : req'[u] = req[u]
    BY <1>1, <2>1, GoesOn DEF Approving
  <2>3. /\ req[t].id \in DOMAIN approvers
        /\ req[t].row.user = approvers[req[t].id].user
        /\ req[t].row.addedBy = Nobody
    BY <1>1, <2>1 DEF CopyFits
  <2>4. /\ IsTable(approvers', ApproverIds, ApproverRow)
        /\ DOMAIN approvers' = DOMAIN approvers
        /\ approvers'[req[t].id] = req[t].row
        /\ \A a \in DOMAIN approvers \ {req[t].id} : approvers'[a] = approvers[a]
    <3>1. IsTable(approvers', ApproverIds, ApproverRow)
      BY <1>1, <1>2, <2>1, InsertTable
    <3>2. QED
      BY <2>1, <2>3, <3>1 DEF Insert
  <2>5. CopyFits(t)'
    BY <2>2 DEF CopyFits, At, Refusing
  <2>6. QED
    BY <1>1, <2>1, <2>2, <2>3, <2>4, <2>5, TypedApprovers
<1>4. CASE ShowToSigners(t)
  <2>1. /\ req[t].pc \in Approving
        /\ signers' = MakeVisibleToSigners(signers, approvers)
        /\ Goto(t, "ask")
        /\ UNCHANGED <<approvers, doc, docs, used>>
    BY <1>4 DEF ShowToSigners, At, Approving
  <2>2. /\ req' \in [Requests -> RequestRows] /\ req'[t].pc = "ask"
        /\ \A u \in Requests \ {t} : req'[u] = req[u]
    BY <1>1, <2>1, GoesOn DEF Approving
  <2>3. IsTable(signers', SignerIds, SignerRow) /\ DOMAIN signers' = DOMAIN signers
    BY <1>1, <2>1, VisibleTable
  <2>4. CopyFits(t)'
    BY <2>2 DEF CopyFits, At, Refusing
  <2>5. QED
    BY <2>1, <2>2, <2>3, <2>4, TypedSigners
<1>5. CASE AskCurator(t) /\ Finish(t)
  <2>1. UNCHANGED vars
    BY <1>5 DEF AskCurator
  <2>2. QED
    BY <1>5, <2>1, Finished, TypedMove
<1>6. CASE AskCurator(t) /\ ~Finish(t)
  <2>1. /\ req[t].pc \in Approving
        /\ IsAssistant(req[t].row.user)
        /\ Goto(t, "create_curator")
        /\ UNCHANGED vars
    BY <1>6 DEF AskCurator, At, Approving
  <2>2. /\ req' \in [Requests -> RequestRows] /\ req'[t].pc = "create_curator"
        /\ req'[t].row = req[t].row
        /\ \A u \in Requests \ {t} : req'[u] = req[u]
    BY <1>1, <2>1, GoesOn DEF Approving
  <2>3. CopyFits(t)'
    BY <2>1, <2>2 DEF CopyFits, At, Refusing, IsAssistant, vars, doc
  <2>4. QED
    BY <2>1, <2>2, <2>3, TypedMove
<1>7. CASE CreateCurator(t)
  <2>1. /\ req[t].pc = "create_curator"
        /\ signers' \in Created(signers, FreeSignerIds, NewSigner(curator, "basic_signer", "yes"))
        /\ Finish(t)
        /\ UNCHANGED <<approvers, doc, docs, used>>
    BY <1>7 DEF CreateCurator, At
  <2>2. curator # Nobody
    BY <1>1, <2>1 DEF CopyFits, At, IsAssistant
  <2>3. NewSigner(curator, "basic_signer", "yes") \in SignerRow
    BY <1>1, <2>2, RowAssumption, NewRows DEF TypeOK, Kinds, Tri
  <2>4. FreeSignerIds \subseteq SignerIds
    BY DEF FreeSignerIds
  <2>5. IsTable(signers', SignerIds, SignerRow) /\ DOMAIN signers \subseteq DOMAIN signers'
    <3>1. IsTable(signers', SignerIds, SignerRow)
      BY <1>1, <2>1, <2>3, <2>4, CreatedAmong
    <3>2. PICK key : signers' = Insert(signers, key, NewSigner(curator, "basic_signer", "yes"))
      BY <2>1 DEF Created
    <3>3. DOMAIN signers \subseteq DOMAIN signers'
      BY <3>2 DEF Insert
    <3>4. QED
      BY <3>1, <3>3
  <2>6. QED
    BY <2>1, <2>5, Finished, TypedSigners
<1>8. QED
  BY <1>3, <1>4, <1>5, <1>6, <1>7

(* Nobody adds approvers while the requests only answer, so there is        *)
(* nothing to prune.                                                        *)
LEMMA NothingToPrune ==
    ASSUME AnswerTyped, NEW t \in Requests, PruneApprovers(t)
    PROVE  approvers' = approvers
<1>1. req[t] \in SigningRows
  BY KindOfRequest DEF AnswerTyped, PruneApprovers, At, Signing
<1>2. req[t].row.user # Nobody
  BY <1>1, RowAssumption DEF SigningRows, SignerRow
<1>3. {a \in Pending(approvers) : approvers[a].addedBy = req[t].row.user} = {}
  BY <1>2 DEF AnswerTyped, Pending
<1>4. approvers = [a \in DOMAIN approvers |-> approvers[a]]
  BY DEF AnswerTyped, TypeOK, IsTable
<1>5. approvers' = Without(approvers, {})
  BY <1>3 DEF PruneApprovers
<1>6. QED
  BY <1>4, <1>5 DEF Without, Restrict

(* So does one that goes on signing.                                        *)
LEMMA SigningTyped ==
    ASSUME AnswerTyped, NEW t \in Requests,
           \/ SaveSigning(t) \/ PruneApprovers(t) \/ HandOver(t) \/ CreateAssistant(t)
           \/ CheckRegistration(t) \/ OpenDocument(t) \/ CloseDocument(t)
    PROVE  AnswerTyped'
<1>1. /\ req \in [Requests -> RequestRows] /\ TypeOK /\ CopyFits(t)
      /\ IsTable(signers, SignerIds, SignerRow)
      /\ IsTable(approvers, ApproverIds, ApproverRow)
      /\ \A a \in DOMAIN approvers : approvers[a].addedBy = Nobody
  BY DEF AnswerTyped, TypeOK
<1>2. req[t].pc \in Signing => req[t].id \in SignerIds /\ req[t].row \in SignerRow
  BY <1>1, KindOfRequest DEF SigningRows
<1>3. CASE SaveSigning(t)
  <2>1. /\ req[t].pc \in Signing
        /\ signers' = Insert(signers, req[t].id, req[t].row)
        /\ Goto(t, "prune")
        /\ UNCHANGED <<approvers, doc, docs, used>>
    BY <1>3 DEF SaveSigning, At, Signing
  <2>2. /\ req' \in [Requests -> RequestRows] /\ req'[t].pc = "prune"
        /\ \A u \in Requests \ {t} : req'[u] = req[u]
    BY <1>1, <2>1, GoesOn DEF Signing
  <2>3. IsTable(signers', SignerIds, SignerRow) /\ DOMAIN signers' = DOMAIN signers \cup {req[t].id}
    <3>1. IsTable(signers', SignerIds, SignerRow)
      BY <1>1, <1>2, <2>1, InsertTable
    <3>2. QED
      BY <2>1, <3>1 DEF Insert
  <2>4. CopyFits(t)'
    BY <2>2 DEF CopyFits, At, Refusing
  <2>5. QED
    BY <2>1, <2>2, <2>3, <2>4, TypedSigners
<1>4. CASE PruneApprovers(t)
  <2> DEFINE next == IF req[t].row.kind # "basic_signer" /\ curator # Nobody THEN "hand_over" ELSE "check"
  <2>1. /\ req[t].pc \in Signing
        /\ Goto(t, next)
        /\ UNCHANGED <<signers, doc, docs, used>>
    BY <1>4 DEF PruneApprovers, At, Signing
  <2>2. next \in Signing /\ next \in {"hand_over", "check"} /\ (next = "hand_over" => curator # Nobody)
    BY DEF Signing
  <2> HIDE DEF next
  <2>3. /\ req' \in [Requests -> RequestRows] /\ req'[t].pc = next
        /\ \A u \in Requests \ {t} : req'[u] = req[u]
    BY <1>1, <2>1, <2>2, GoesOn
  <2>4. UNCHANGED vars
    BY <1>4, <2>1, NothingToPrune DEF vars
  <2>5. CopyFits(t)'
    BY <2>2, <2>3, <2>4 DEF CopyFits, At, Refusing, vars, doc
  <2>6. QED
    BY <2>3, <2>4, <2>5, TypedMove
<1>5. CASE HandOver(t) /\ Finish(t)
  <2>1. UNCHANGED vars
    BY <1>5 DEF HandOver
  <2>2. QED
    BY <1>5, <2>1, Finished, TypedMove
<1>6. CASE HandOver(t) /\ ~Finish(t)
  <2>1. PICK next \in {"check", "create_assistant"} :
           /\ req[t].pc \in Signing /\ Goto(t, next) /\ UNCHANGED vars
           /\ next = "create_assistant" => Assistants[curator] # {}
    BY <1>6 DEF HandOver, At, Signing
  <2>2. /\ req' \in [Requests -> RequestRows] /\ req'[t].pc = next
        /\ \A u \in Requests \ {t} : req'[u] = req[u]
    BY <1>1, <2>1, GoesOn DEF Signing
  <2>3. curator # Nobody
    BY <1>1, <1>6 DEF CopyFits, HandOver, At
  <2>4. CopyFits(t)'
    BY <2>1, <2>2, <2>3 DEF CopyFits, At, Refusing, vars, doc
  <2>5. QED
    BY <2>1, <2>2, <2>4, TypedMove
<1>7. CASE CreateAssistant(t)
  <2> DEFINE row == NewApprover(FirstAssistant(curator), Nobody)
  <2>1. /\ req[t].pc = "create_assistant" /\ req[t].pc \in Signing
        /\ approvers' \in Created(approvers, FreeApproverIds, row)
        /\ Goto(t, "check")
        /\ UNCHANGED <<signers, doc, docs, used>>
    BY <1>7 DEF CreateAssistant, At, Signing
  <2>2. /\ req' \in [Requests -> RequestRows] /\ req'[t].pc = "check"
        /\ \A u \in Requests \ {t} : req'[u] = req[u]
    BY <1>1, <2>1, GoesOn DEF Signing
  <2>3. curator \in Curators /\ Assistants[curator] # {}
    BY <1>1, <2>1 DEF CopyFits, At, TypeOK
  <2>4. row \in ApproverRow /\ row.addedBy = Nobody
    <3>1. FirstAssistant(curator) \in Users
      BY <2>3, FirstAssistantIsUser
    <3>2. QED
      BY <3>1, NewRows DEF NewApprover
  <2>5. FreeApproverIds \subseteq ApproverIds
    BY DEF FreeApproverIds
  <2> HIDE DEF row
  <2>6. PICK key \in FreeApproverIds \ DOMAIN approvers :
           /\ DOMAIN approvers' = DOMAIN approvers \cup {key}
           /\ approvers'[key] = row
           /\ \A k \in DOMAIN approvers : approvers'[k] = approvers[k]
    BY <2>1, CreatedRows
  <2>7. IsTable(approvers', ApproverIds, ApproverRow)
    BY <1>1, <2>1, <2>4, <2>5, CreatedAmong
  <2>8. CopyFits(t)'
    BY <2>2 DEF CopyFits, At, Refusing
  <2>9. QED
    BY <1>1, <2>1, <2>2, <2>4, <2>6, <2>7, <2>8, TypedApprovers
<1>8. CASE CheckRegistration(t) /\ Finish(t)
  <2>1. UNCHANGED vars
    BY <1>8 DEF CheckRegistration
  <2>2. QED
    BY <1>8, <2>1, Finished, TypedMove
<1>9. CASE CheckRegistration(t) /\ ~Finish(t)
  <2>1. req[t].pc \in Signing /\ Goto(t, "open") /\ UNCHANGED vars
    BY <1>9 DEF CheckRegistration, At, Signing
  <2>2. /\ req' \in [Requests -> RequestRows] /\ req'[t].pc = "open"
        /\ \A u \in Requests \ {t} : req'[u] = req[u]
    BY <1>1, <2>1, GoesOn DEF Signing
  <2>3. CopyFits(t)'
    BY <2>2 DEF CopyFits, At, Refusing
  <2>4. QED
    BY <2>1, <2>2, <2>3, TypedMove
<1>10. CASE OpenDocument(t)
  <2> DEFINE copy == [ComposeRow EXCEPT !.status = "done", !.isSigned = TRUE]
             r == [pc |-> "close", compose |-> copy]
  <2>1. /\ docs' = [docs EXCEPT ![content] = @ + 1]
        /\ req' = [req EXCEPT ![t] = r]
        /\ UNCHANGED <<signers, approvers, doc, used>>
    BY <1>10 DEF OpenDocument
  <2>2. copy \in ComposeRows /\ copy.content = content /\ copy.status = "done"
    BY <1>1 DEF ComposeRows, ComposeRow, TypeOK, Statuses
  <2> HIDE DEF copy
  <2>3. r \in RequestRows /\ r.pc = "close" /\ r.compose = copy
    BY <2>2 DEF RequestRows, ClosingRows
  <2> HIDE DEF r
  <2>4. /\ req' \in [Requests -> RequestRows] /\ req'[t] = r
        /\ \A u \in Requests \ {t} : req'[u] = req[u]
    BY <1>1, <2>1, <2>3, Becomes
  <2>5. UNCHANGED <<curator, content, status, isSigned>>
    BY <2>1 DEF doc
  <2>6. /\ docs' \in [Versions -> Nat]
        /\ docs'[content] >= docs[content] /\ docs'[content] >= 1
    BY <1>1, <2>1 DEF TypeOK
  <2>7. CopyFits(t)'
    BY <2>2, <2>3, <2>4, <2>5, <2>6 DEF CopyFits, At, Refusing
  <2>8. status' \in Statuses /\ isSigned' \in BOOLEAN
    BY <1>1, <2>5 DEF TypeOK
  <2>9. QED
    BY <1>1, <2>1, <2>4, <2>5, <2>6, <2>7, <2>8, TypedStep
<1>11. CASE CloseDocument(t)
  <2>1. /\ req[t].pc = "close" /\ SaveCompose(req[t].compose) /\ Finish(t)
        /\ UNCHANGED <<signers, approvers, curator, docs, used>>
    BY <1>11 DEF CloseDocument, At
  <2>2. req[t].compose \in ComposeRows /\ req[t].compose.content = content /\ docs[content] >= 1
    BY <1>1, <2>1, KindOfRequest DEF CopyFits, At, ClosingRows
  <2>3. content' = content /\ status' \in Statuses /\ isSigned' \in BOOLEAN
    BY <2>1, <2>2 DEF SaveCompose, ComposeRows
  <2>4. docs' \in [Versions -> Nat] /\ docs'[content] >= docs[content] /\ docs'[content] >= 1
    BY <1>1, <2>1, <2>2 DEF TypeOK
  <2>5. QED
    BY <1>1, <2>1, <2>3, <2>4, Finished, TypedStep
<1>12. QED
  BY <1>3, <1>4, <1>5, <1>6, <1>7, <1>8, <1>9, <1>10, <1>11

(* So does one that goes on refusing.                                       *)
LEMMA RefusingTyped ==
    ASSUME AnswerTyped, NEW t \in Requests,
           SaveRefusal(t) \/ SaveRejection(t) \/ SaveDeclined(t)
    PROVE  AnswerTyped'
<1>1. /\ req \in [Requests -> RequestRows] /\ TypeOK /\ CopyFits(t)
      /\ IsTable(signers, SignerIds, SignerRow)
      /\ IsTable(approvers, ApproverIds, ApproverRow)
      /\ \A a \in DOMAIN approvers : approvers[a].addedBy = Nobody
  BY DEF AnswerTyped, TypeOK
<1>2. CASE SaveRefusal(t)
  <2>1. /\ req[t].pc = "reject_approve"
        /\ approvers' = Insert(approvers, req[t].id, req[t].row)
        /\ Goto(t, "decline")
        /\ UNCHANGED <<signers, doc, docs, used>>
    BY <1>2 DEF SaveRefusal, At
  <2>2. /\ req' \in [Requests -> RequestRows] /\ req'[t].pc = "decline"
        /\ req'[t].compose = req[t].compose
        /\ \A u \in Requests \ {t} : req'[u] = req[u]
    BY <1>1, <2>1, GoesOn
  <2>3. /\ req[t].id \in DOMAIN approvers
        /\ req[t].row.user = approvers[req[t].id].user
        /\ req[t].row.addedBy = Nobody
        /\ req[t].compose.content = content /\ req[t].compose.status \in Refusals
    BY <1>1, <2>1 DEF CopyFits, Refusing
  <2>4. req[t].id \in ApproverIds /\ req[t].row \in ApproverRow
    BY <1>1, <2>1, KindOfRequest DEF RefusingRows
  <2>5. /\ IsTable(approvers', ApproverIds, ApproverRow)
        /\ DOMAIN approvers' = DOMAIN approvers
        /\ approvers'[req[t].id] = req[t].row
        /\ \A a \in DOMAIN approvers \ {req[t].id} : approvers'[a] = approvers[a]
    <3>1. IsTable(approvers', ApproverIds, ApproverRow)
      BY <1>1, <2>1, <2>4, InsertTable
    <3>2. QED
      BY <2>1, <2>3, <3>1 DEF Insert
  <2>6. CopyFits(t)'
    BY <2>1, <2>2, <2>3 DEF CopyFits, At, doc
  <2>7. QED
    BY <1>1, <2>1, <2>2, <2>3, <2>5, <2>6, TypedApprovers
<1>3. CASE SaveRejection(t)
  <2>1. /\ req[t].pc = "reject_sign"
        /\ signers' = Insert(signers, req[t].id, req[t].row)
        /\ Goto(t, "decline")
        /\ UNCHANGED <<approvers, doc, docs, used>>
    BY <1>3 DEF SaveRejection, At
  <2>2. /\ req' \in [Requests -> RequestRows] /\ req'[t].pc = "decline"
        /\ req'[t].compose = req[t].compose
        /\ \A u \in Requests \ {t} : req'[u] = req[u]
    BY <1>1, <2>1, GoesOn
  <2>3. req[t].compose.content = content /\ req[t].compose.status \in Refusals
    BY <1>1, <2>1 DEF CopyFits, Refusing
  <2>4. req[t].id \in SignerIds /\ req[t].row \in SignerRow
    BY <1>1, <2>1, KindOfRequest DEF RejectingRows
  <2>5. IsTable(signers', SignerIds, SignerRow) /\ DOMAIN signers' = DOMAIN signers \cup {req[t].id}
    <3>1. IsTable(signers', SignerIds, SignerRow)
      BY <1>1, <2>1, <2>4, InsertTable
    <3>2. QED
      BY <2>1, <3>1 DEF Insert
  <2>6. CopyFits(t)'
    BY <2>1, <2>2, <2>3 DEF CopyFits, At, doc
  <2>7. QED
    BY <2>1, <2>2, <2>5, <2>6, TypedSigners
<1>4. CASE SaveDeclined(t)
  <2>1. /\ req[t].pc = "decline" /\ SaveCompose(req[t].compose) /\ Finish(t)
        /\ UNCHANGED <<signers, approvers, curator, docs, used>>
    BY <1>4 DEF SaveDeclined, At
  <2>2. /\ req[t].compose \in ComposeRows /\ req[t].compose.content = content
        /\ req[t].compose.status \in Refusals
    BY <1>1, <2>1, KindOfRequest DEF CopyFits, Refusing, RefusingRows, RejectingRows
  <2>3. /\ content' = content /\ status' \in Statuses /\ isSigned' \in BOOLEAN
        /\ status' # "done"
    BY <2>1, <2>2 DEF SaveCompose, ComposeRows, Refusals
  <2>4. docs' \in [Versions -> Nat] /\ docs'[content] >= docs[content]
    BY <1>1, <2>1 DEF TypeOK
  <2>5. QED
    BY <1>1, <2>1, <2>3, <2>4, Finished, TypedStep
<1>5. QED
  BY <1>2, <1>3, <1>4

(* So does one that saves the row it has read.                              *)
LEMMA ReadingTyped ==
    ASSUME AnswerTyped, NEW t \in Requests,
           SaveApproverRow(t) \/ SaveSignerRow(t)
    PROVE  AnswerTyped'
<1>1. /\ req \in [Requests -> RequestRows] /\ TypeOK /\ CopyFits(t)
      /\ IsTable(signers, SignerIds, SignerRow)
      /\ IsTable(approvers, ApproverIds, ApproverRow)
      /\ \A a \in DOMAIN approvers : approvers[a].addedBy = Nobody
  BY DEF AnswerTyped, TypeOK
<1>2. CASE SaveApproverRow(t)
  <2>1. /\ req[t].pc = "read_approver" /\ Finish(t)
        /\ approvers' = Insert(approvers, req[t].id, req[t].row)
        /\ UNCHANGED <<signers, doc, docs, used>>
    BY <1>2 DEF SaveApproverRow, At
  <2>2. /\ req[t].id \in DOMAIN approvers
        /\ req[t].row.user = approvers[req[t].id].user
        /\ req[t].row.addedBy = Nobody
    BY <1>1, <2>1 DEF CopyFits
  <2>3. req[t].id \in ApproverIds /\ req[t].row \in ApproverRow
    BY <1>1, <2>1, KindOfRequest
  <2>4. IsTable(approvers', ApproverIds, ApproverRow)
    BY <1>1, <2>1, <2>3, InsertTable
  <2>5. /\ DOMAIN approvers' = DOMAIN approvers
        /\ approvers'[req[t].id] = req[t].row
        /\ \A a \in DOMAIN approvers \ {req[t].id} : approvers'[a] = approvers[a]
    BY <2>1, <2>2 DEF Insert
  <2>6. QED
    BY <1>1, <2>1, <2>2, <2>4, <2>5, Finished, TypedApprovers
<1>3. CASE SaveSignerRow(t)
  <2>1. /\ req[t].pc = "read_signer" /\ Finish(t)
        /\ signers' = Insert(signers, req[t].id, req[t].row)
        /\ UNCHANGED <<approvers, doc, docs, used>>
    BY <1>3 DEF SaveSignerRow, At
  <2>2. req[t].id \in SignerIds /\ req[t].row \in SignerRow
    BY <1>1, <2>1, KindOfRequest
  <2>3. IsTable(signers', SignerIds, SignerRow)
    BY <1>1, <2>1, <2>2, InsertTable
  <2>4. DOMAIN signers \subseteq DOMAIN signers'
    BY <2>1 DEF Insert
  <2>5. QED
    BY <2>1, <2>3, <2>4, Finished, TypedSigners
<1>4. QED
  BY <1>2, <1>3

(* Nothing is saved yet and no request runs when the document is composed.  *)
LEMMA InitTyped == RequestInit => AnswerTyped
<1> SUFFICES ASSUME RequestInit PROVE AnswerTyped
  OBVIOUS
<1>1. Init /\ req = [t \in Requests |-> Idle]
  BY DEF RequestInit
<1>2. req \in [Requests -> RequestRows] /\ \A t \in Requests : req[t].pc = "idle"
  BY <1>1 DEF RequestRows, Idle
<1>3. \A t \in Requests : CopyFits(t)
  BY <1>2 DEF CopyFits, At, Refusing
<1>4. PICK S \in (SUBSET DOMAIN AskedSigners) \ {{}}, A \in SUBSET DOMAIN AskedApprovers, kind \in Kinds :
         /\ signers = [s \in S |->
                NewSigner(AskedSigners[s], kind, IF A = {} THEN "yes" ELSE "null")]
         /\ approvers = [a \in A |-> NewApprover(AskedApprovers[a], Nobody)]
  BY <1>1 DEF Init
<1>5. DOMAIN signers = S /\ DOMAIN approvers = A
  BY <1>4
<1>6. \A a \in DOMAIN approvers : approvers[a] = NewApprover(AskedApprovers[a], Nobody)
  BY <1>4, <1>5
<1>7. \A a \in DOMAIN approvers : approvers[a].addedBy = Nobody
  BY <1>6 DEF NewApprover
<1>8. TypeOK
  BY <1>1, InitTypeOK
<1>9. status # "done"
  BY <1>1 DEF Init
<1>10. QED
  BY <1>2, <1>3, <1>5, <1>8, <1>9, <1>7 DEF AnswerTyped

(* Whatever the requests do, their copies fit.                              *)
THEOREM RequestsAreTyped == AnswerSpec => []AnswerTyped
<1>1. ASSUME AnswerTyped, [AnswerNext]_requestVars
      PROVE  AnswerTyped'
  <2>1. CASE UNCHANGED requestVars
    <3>1. UNCHANGED vars /\ req' = req
      BY <2>1 DEF requestVars
    <3>2. UNCHANGED <<signers, approvers, curator, content, status, isSigned, docs, updates, late, failed>>
      BY <3>1 DEF vars, doc, used
    <3>3. TypeOK'
      BY <1>1, <3>2 DEF AnswerTyped, TypeOK, IsTable
    <3>4. \A t \in Requests : CopyFits(t)'
      BY <1>1, <3>1, <3>2 DEF AnswerTyped, CopyFits, At, IsAssistant
    <3>5. QED
      BY <1>1, <3>1, <3>2, <3>3, <3>4 DEF AnswerTyped
  <2>2. CASE \E t \in Requests : Answer(t)
    <3>1. PICK t \in Requests : Answer(t)
      BY <2>2
    <3>2. QED
      BY <1>1, <3>1, BeginTyped, ApprovingTyped, SigningTyped, RefusingTyped, ReadingTyped DEF Answer
  <2>3. QED
    BY <1>1, <2>1, <2>2 DEF AnswerNext
<1>2. QED
  BY <1>1, InitTyped, PTL DEF AnswerSpec

-----------------------------------------------------------------------------
(* The last approval makes the document visible.  Between the moment all    *)
(* have approved and the moment the signers see the document, one of the    *)
(* approving requests has saved its row and has not looked yet.             *)

Sees(S, olds) == \A s \in DOMAIN S \ olds : S[s].visible = "yes"
SomebodyShows ==
    AllApproved(approvers) /\ oldApprovers = {}
        => Sees(signers, oldSigners) \/ \E t \in Requests : At(t, "show")

(* A request changes nothing but its own place.                             *)
LEMMA OthersStay ==
    ASSUME AnswerTyped, NEW t \in Requests, Answer(t)
    PROVE  /\ \A u \in Requests \ {t} : req'[u] = req[u]
           /\ req' \in [Requests -> RequestRows]
<1>1. req \in [Requests -> RequestRows]
  BY DEF AnswerTyped
<1>2. PICK r : req' = [req EXCEPT ![t] = r]
  BY DEF Answer, LoadApproval, LoadRefusal, LoadSigning, LoadRejection, SaveApproval, ShowToSigners,
         AskCurator, CreateCurator, SaveSigning, PruneApprovers, HandOver, CreateAssistant,
         CheckRegistration, OpenDocument, CloseDocument, SaveRefusal, SaveRejection, SaveDeclined,
         LoadApproverRow, SaveApproverRow, LoadSignerRow, SaveSignerRow, Begin, Goto, Finish
<1>3. AnswerTyped'
  BY BeginTyped, ApprovingTyped, SigningTyped, RefusingTyped, ReadingTyped DEF Answer
<1>4. QED
  BY <1>1, <1>2, <1>3 DEF AnswerTyped

(* Nothing is lost in a step that is not the one that shows, as long as it  *)
(* adds no row that is asked to sign without being shown the document.      *)
LEMMA ShowsStill ==
    ASSUME SomebodyShows, NEW t \in Requests, req[t].pc # "show",
           \A u \in Requests \ {t} : req'[u] = req[u],
           AllApproved(approvers') => AllApproved(approvers),
           oldApprovers \subseteq oldApprovers',
           Sees(signers, oldSigners) => Sees(signers', oldSigners')
    PROVE  SomebodyShows'
BY DEF SomebodyShows, At

(* Every step keeps it.                                                     *)
LEMMA ShowsKept ==
    ASSUME AnswerTyped, SomebodyShows, NEW t \in Requests, Answer(t)
    PROVE  SomebodyShows'
<1>1. \A u \in Requests \ {t} : req'[u] = req[u]
  BY OthersStay
<1>2. /\ req \in [Requests -> RequestRows] /\ CopyFits(t)
      /\ IsTable(signers, SignerIds, SignerRow)
  BY DEF AnswerTyped, TypeOK
<1>3. ASSUME UNCHANGED <<signers, approvers, old>>, req[t].pc # "show"
      PROVE  SomebodyShows'
  BY <1>1, <1>3, ShowsStill DEF old
<1>4. CASE /\ \/ \E a \in DOMAIN approvers :
                    LoadApproval(t, a) \/ LoadRefusal(t, a) \/ LoadApproverRow(t, a)
              \/ \E s \in DOMAIN signers :
                    LoadSigning(t, s) \/ LoadRejection(t, s) \/ LoadSignerRow(t, s)
           /\ UNCHANGED old
  <2>1. UNCHANGED vars /\ req[t] = Idle
    BY <1>4 DEF LoadApproval, LoadRefusal, LoadApproverRow, LoadSigning, LoadRejection, LoadSignerRow,
                Begin
  <2>2. QED
    BY <1>3, <1>4, <2>1 DEF vars, Idle
<1>5. CASE /\ AskCurator(t) \/ HandOver(t) \/ CheckRegistration(t) \/ PruneApprovers(t)
           /\ UNCHANGED old
  BY <1>3, <1>5, NothingToPrune
     DEF AskCurator, HandOver, CheckRegistration, PruneApprovers, At, vars
<1>6. CASE (OpenDocument(t) \/ CloseDocument(t) \/ SaveDeclined(t)) /\ UNCHANGED old
  BY <1>3, <1>6 DEF OpenDocument, CloseDocument, SaveDeclined, At
<1>7. CASE SaveApproval(t) /\ UNCHANGED old
  <2>1. req[t].pc = "approve" /\ Goto(t, "show")
    BY <1>7 DEF SaveApproval, At
  <2>2. req'[t].pc = "show"
    BY <1>2, <2>1, GoesOn DEF Approving
  <2>3. QED
    BY <2>2 DEF SomebodyShows, At
<1>8. CASE ShowToSigners(t) /\ UNCHANGED old
  <2>1. signers' = MakeVisibleToSigners(signers, approvers) /\ approvers' = approvers
    BY <1>8 DEF ShowToSigners
  <2>2. AllApproved(approvers) =>
          DOMAIN signers' = DOMAIN signers /\ \A s \in DOMAIN signers : signers'[s].visible = "yes"
    BY <1>2, <2>1, VisibleTable
  <2>3. oldSigners' = oldSigners /\ oldApprovers' = oldApprovers
    BY <1>8 DEF old
  <2>4. QED
    BY <2>1, <2>2, <2>3 DEF SomebodyShows, Sees
<1>9. CASE CreateCurator(t) /\ UNCHANGED old
  <2>1. /\ req[t].pc # "show" /\ approvers' = approvers
        /\ signers' \in Created(signers, FreeSignerIds, NewSigner(curator, "basic_signer", "yes"))
    BY <1>9 DEF CreateCurator, At
  <2>2. PICK key \in FreeSignerIds \ DOMAIN signers :
           /\ DOMAIN signers' = DOMAIN signers \cup {key}
           /\ signers'[key] = NewSigner(curator, "basic_signer", "yes")
           /\ \A k \in DOMAIN signers : signers'[k] = signers[k]
    BY <2>1, CreatedRows
  <2>3. signers'[key].visible = "yes"
    BY <2>2 DEF NewSigner
  <2>4. Sees(signers, oldSigners) => Sees(signers', oldSigners')
    BY <1>9, <2>2, <2>3 DEF Sees, old
  <2>5. QED
    BY <1>1, <1>9, <2>1, <2>4, ShowsStill DEF old
<1>10. CASE SaveSigning(t) /\ UNCHANGED old
  <2>1. /\ req[t].pc # "show" /\ approvers' = approvers
        /\ signers' = Insert(signers, req[t].id, req[t].row)
        /\ req[t].row.visible = "yes"
    BY <1>2, <1>10 DEF SaveSigning, CopyFits, At
  <2>2. Sees(signers, oldSigners) => Sees(signers', oldSigners')
    BY <1>10, <2>1 DEF Sees, Insert, old
  <2>3. QED
    BY <1>1, <1>10, <2>1, <2>2, ShowsStill DEF old
<1>11. CASE CreateAssistant(t) /\ UNCHANGED old
  <2> DEFINE row == NewApprover(FirstAssistant(curator), Nobody)
  <2>1. approvers' \in Created(approvers, FreeApproverIds, row) /\ row.ok = "null"
    BY <1>11 DEF CreateAssistant, NewApprover
  <2> HIDE DEF row
  <2>2. PICK key \in FreeApproverIds \ DOMAIN approvers :
           DOMAIN approvers' = DOMAIN approvers \cup {key} /\ approvers'[key] = row
    BY <2>1, CreatedRows
  <2>3. key \in Pending(approvers')
    BY <2>1, <2>2 DEF Pending
  <2>4. QED
    BY <2>3 DEF SomebodyShows, AllApproved
<1>12. CASE SaveRefusal(t) /\ UNCHANGED old
  <2>1. approvers' = Insert(approvers, req[t].id, req[t].row) /\ req[t].row.ok = "no"
    BY <1>2, <1>12 DEF SaveRefusal, CopyFits, At
  <2>2. req[t].id \in Pending(approvers')
    BY <2>1 DEF Pending, Insert
  <2>3. QED
    BY <2>2 DEF SomebodyShows, AllApproved
<1>13. CASE SaveRejection(t) \/ SaveSignerRow(t)
  <2> DEFINE id == req[t].id
             row == req[t].row
  <2>1. /\ req[t].pc # "show" /\ approvers' = approvers /\ oldApprovers' = oldApprovers
        /\ signers' = Insert(signers, id, row)
        /\ oldSigners \subseteq oldSigners'
    BY <1>13 DEF SaveRejection, SaveSignerRow, Marked, At
  <2>2. id \in oldSigners' \/ (id \in DOMAIN signers /\ row.visible = signers[id].visible)
    <3>1. CASE SaveSignerRow(t)
      BY <3>1 DEF SaveSignerRow, Marked, IsOld
    <3>2. CASE SaveRejection(t)
      <4>1. row \in SignerRow
        BY <1>2, <3>2, KindOfRequest DEF SaveRejection, At, RejectingRows
      <4>2. [row EXCEPT !.signed = signers[id].signed].visible = row.visible
        BY <4>1 DEF SignerRow
      <4>3. id \in oldSigners' \/ (id \in DOMAIN signers /\ signers[id] = [row EXCEPT !.signed = signers[id].signed])
        BY <3>2 DEF SaveRejection, Marked, IsOld
      <4>4. QED
        BY <4>2, <4>3
    <3>3. QED
      BY <1>13, <3>1, <3>2
  <2> HIDE DEF id, row
  <2>3. Sees(signers, oldSigners) => Sees(signers', oldSigners')
    BY <2>1, <2>2 DEF Sees, Insert
  <2>4. QED
    BY <1>1, <2>1, <2>3, ShowsStill
<1>14. CASE SaveApproverRow(t)
  <2>1. /\ req[t].pc # "show" /\ signers' = signers /\ oldSigners' = oldSigners
        /\ approvers' = Insert(approvers, req[t].id, req[t].row)
        /\ oldApprovers' = Marked(oldApprovers, req[t].id, IsOld(approvers, req[t].id, req[t].row))
    BY <1>14 DEF SaveApproverRow, At
  <2>2. CASE IsOld(approvers, req[t].id, req[t].row)
    BY <2>1, <2>2 DEF SomebodyShows, Marked
  <2>3. CASE ~IsOld(approvers, req[t].id, req[t].row)
    <3>1. oldApprovers' = oldApprovers
      BY <2>1, <2>3 DEF Marked
    <3>2. DOMAIN approvers' = DOMAIN approvers /\ \A a \in DOMAIN approvers : approvers'[a] = approvers[a]
      BY <2>1, <2>3 DEF IsOld, Insert
    <3>3. AllApproved(approvers') => AllApproved(approvers)
      BY <3>2 DEF AllApproved, Pending
    <3>4. QED
      BY <1>1, <2>1, <3>1, <3>3, ShowsStill
  <2>4. QED
    BY <2>2, <2>3
<1>15. QED
  BY <1>4, <1>5, <1>6, <1>7, <1>8, <1>9, <1>10, <1>11, <1>12, <1>13, <1>14 DEF Answer

(* Approvals that arrive at the same time do not miss each other: with the  *)
(* last of them every signer sees the document, however many requests read, *)
(* approve, sign and refuse at once, but for a signer over whose row an old *)
(* copy was saved, and as long as none was saved over an approver's row.    *)
THEOREM NoApprovalIsLost == AnswerSpec => []NoLostApproval
<1>1. RequestInit => SomebodyShows
  <2> SUFFICES ASSUME RequestInit PROVE SomebodyShows
    OBVIOUS
  <2>1. PICK S \in (SUBSET DOMAIN AskedSigners) \ {{}}, A \in SUBSET DOMAIN AskedApprovers, kind \in Kinds :
           /\ signers = [s \in S |->
                  NewSigner(AskedSigners[s], kind, IF A = {} THEN "yes" ELSE "null")]
           /\ approvers = [a \in A |-> NewApprover(AskedApprovers[a], Nobody)]
    BY DEF RequestInit, Init
  <2>2. \A a \in A : a \in DOMAIN approvers /\ approvers[a].ok # "yes"
    BY <2>1 DEF NewApprover
  <2>3. A = {} => \A s \in DOMAIN signers : signers[s].visible = "yes"
    BY <2>1 DEF NewSigner
  <2>4. QED
    BY <2>2, <2>3 DEF SomebodyShows, Sees, AllApproved, Pending
<1>2. AnswerTyped /\ SomebodyShows /\ [AnswerNext]_requestVars => SomebodyShows'
  <2> SUFFICES ASSUME AnswerTyped, SomebodyShows, [AnswerNext]_requestVars
               PROVE  SomebodyShows'
    OBVIOUS
  <2>1. CASE UNCHANGED requestVars
    <3>1. UNCHANGED <<signers, approvers, req, oldSigners, oldApprovers>>
      BY <2>1 DEF requestVars, vars, old
    <3>2. QED
      BY <3>1 DEF SomebodyShows, Sees, AllApproved, Pending, At
  <2>2. QED
    BY <2>1, ShowsKept DEF AnswerNext
<1>3. SomebodyShows => NoLostApproval
  <2> SUFFICES ASSUME SomebodyShows, Quiet, AllApproved(approvers), oldApprovers = {}
               PROVE  Sees(signers, oldSigners)
    BY DEF NoLostApproval, Sees
  <2>1. \A t \in Requests : ~At(t, "show")
    BY DEF Quiet, Idle, At
  <2>2. QED
    BY <2>1 DEF SomebodyShows
<1>4. QED
  BY <1>1, <1>2, <1>3, RequestsAreTyped, PTL DEF AnswerSpec

-----------------------------------------------------------------------------
(* The last signature registers the document.  As long as nothing is        *)
(* registered or refused, and no old copy was saved over a row, one of the  *)
(* requests has still to look whenever everything is there.  An approval is looked at by its request only if it *)
(* is an assistant's; but once somebody could sign, the approvals that are  *)
(* missing are the assistants'.                                             *)

Open ==
    /\ status = "default" /\ docs[content] = 0
    /\ \A t \in Requests : req[t].pc \notin Refusing
    /\ oldSigners = {} /\ oldApprovers = {}

AskedToSign ==
    \/ \E s \in DOMAIN signers : signers[s].visible = "yes" \/ signers[s].signed = "yes"
    \/ \E t \in Requests : req[t].pc \in {"sign", "create_curator"}

PendingAreAssistants == \A a \in Pending(approvers) : IsAssistant(approvers[a].user)

Looks == {"prune", "hand_over", "create_assistant", "check", "open"}
WillRegister(t) ==
    \/ req[t].pc \in Looks
    \/ req[t].pc \in {"show", "ask", "create_curator"} /\ IsAssistant(req[t].row.user)

OnlyAssistantsPending == Open /\ AskedToSign => PendingAreAssistants
SomebodyRegisters ==
    Open /\ AllSignedAndApproved(signers, approvers) => \E t \in Requests : WillRegister(t)

(* A reading that begins, or that saves the row as it is.                   *)
Reads(t) ==
    /\ \/ req[t] = Idle /\ req'[t].pc \in {"read_approver", "read_signer"}
       \/ req[t].pc \in {"read_approver", "read_signer"} /\ Finish(t)
    /\ UNCHANGED <<signers, approvers>>

(* While the document stays open, requests only read, approve, sign and     *)
(* look.                                                                    *)
LEMMA OpenStep ==
    ASSUME AnswerTyped, NEW t \in Requests, Answer(t), Open'
    PROVE  /\ Open /\ UNCHANGED <<doc, docs>>
           /\ \/ \E a \in DOMAIN approvers : LoadApproval(t, a)
              \/ \E s \in DOMAIN signers : LoadSigning(t, s)
              \/ Reads(t)
              \/ SaveApproval(t) \/ ShowToSigners(t) \/ AskCurator(t) \/ CreateCurator(t)
              \/ SaveSigning(t) \/ PruneApprovers(t) \/ HandOver(t) \/ CreateAssistant(t)
              \/ CheckRegistration(t)
<1>1. /\ req \in [Requests -> RequestRows] /\ TypeOK /\ CopyFits(t)
      /\ req'[t].pc \notin Refusing
      /\ status' = "default" /\ docs'[content'] = 0
      /\ oldSigners' = {} /\ oldApprovers' = {}
      /\ \A u \in Requests \ {t} : req'[u] = req[u] /\ req[u].pc \notin Refusing
  BY OthersStay DEF AnswerTyped, Open
<1>2. ASSUME NEW a \in DOMAIN approvers, LoadRefusal(t, a) PROVE FALSE
  BY <1>1, <1>2 DEF LoadRefusal, Begin, Refusing
<1>3. ASSUME NEW s \in DOMAIN signers, LoadRejection(t, s) PROVE FALSE
  BY <1>1, <1>3 DEF LoadRejection, Begin, Refusing
<1>4. ~SaveRefusal(t) /\ ~SaveRejection(t)
  <2>1. SaveRefusal(t) \/ SaveRejection(t) => req'[t].pc = "decline"
    BY <1>1, GoesOn DEF SaveRefusal, SaveRejection, At
  <2>2. QED
    BY <1>1, <2>1 DEF Refusing
<1>5. ~SaveDeclined(t) /\ ~CloseDocument(t)
  BY <1>1 DEF SaveDeclined, CloseDocument, SaveCompose, CopyFits, At, Refusing, Refusals
<1>6. ~OpenDocument(t)
  <2> SUFFICES ASSUME OpenDocument(t) PROVE FALSE
    OBVIOUS
  <2>1. content' = content /\ docs' = [docs EXCEPT ![content] = @ + 1]
    BY DEF OpenDocument, doc
  <2>2. docs[content] \in Nat /\ docs'[content] = docs[content] + 1
    BY <1>1, <2>1 DEF TypeOK
  <2>3. QED
    BY <1>1, <2>1, <2>2
<1>7. ASSUME \/ \E a \in DOMAIN approvers : LoadApproverRow(t, a)
             \/ \E s \in DOMAIN signers : LoadSignerRow(t, s)
      PROVE  Reads(t) /\ UNCHANGED <<doc, docs>>
  <2>1. ASSUME NEW a, LoadApproverRow(t, a)
        PROVE  /\ req[t] = Idle /\ UNCHANGED vars
               /\ req'[t].pc = "read_approver"
    BY <1>1, <2>1 DEF LoadApproverRow, Begin
  <2>2. ASSUME NEW u, LoadSignerRow(t, u)
        PROVE  /\ req[t] = Idle /\ UNCHANGED vars
               /\ req'[t].pc = "read_signer"
    BY <1>1, <2>2 DEF LoadSignerRow, Begin
  <2>3. QED
    BY <1>7, <2>1, <2>2 DEF Reads, vars
<1>8. ASSUME SaveApproverRow(t) PROVE Reads(t) /\ UNCHANGED <<doc, docs>>
  <2>1. req[t].id \in DOMAIN approvers /\ approvers[req[t].id] = req[t].row
    BY <1>1, <1>8 DEF SaveApproverRow, Marked, IsOld
  <2>2. approvers = [a \in DOMAIN approvers |-> approvers[a]]
    BY <1>1 DEF TypeOK, IsTable
  <2>3. approvers' = approvers
    BY <1>8, <2>1, <2>2 DEF SaveApproverRow, Insert
  <2>4. QED
    BY <1>8, <2>3 DEF Reads, SaveApproverRow, At
<1>9. ASSUME SaveSignerRow(t) PROVE Reads(t) /\ UNCHANGED <<doc, docs>>
  <2>1. req[t].id \in DOMAIN signers /\ signers[req[t].id] = req[t].row
    BY <1>1, <1>9 DEF SaveSignerRow, Marked, IsOld
  <2>2. signers = [s \in DOMAIN signers |-> signers[s]]
    BY <1>1 DEF TypeOK, IsTable
  <2>3. signers' = signers
    BY <1>9, <2>1, <2>2 DEF SaveSignerRow, Insert
  <2>4. QED
    BY <1>9, <2>3 DEF Reads, SaveSignerRow, At
<1>10. \/ \E a \in DOMAIN approvers : LoadApproval(t, a)
       \/ \E s \in DOMAIN signers : LoadSigning(t, s)
       \/ Reads(t) /\ UNCHANGED <<doc, docs>>
       \/ SaveApproval(t) \/ ShowToSigners(t) \/ AskCurator(t) \/ CreateCurator(t)
       \/ SaveSigning(t) \/ PruneApprovers(t) \/ HandOver(t) \/ CreateAssistant(t)
       \/ CheckRegistration(t)
  BY <1>2, <1>3, <1>4, <1>5, <1>6, <1>7, <1>8, <1>9 DEF Answer
<1>11. UNCHANGED <<doc, docs>> /\ req[t].pc \notin Refusing
  BY <1>10 DEF LoadApproval, LoadSigning, SaveApproval, ShowToSigners, AskCurator, CreateCurator,
              SaveSigning, PruneApprovers, HandOver, CreateAssistant, CheckRegistration, Reads,
              Begin, Idle, At, Refusing, vars
<1>12. oldSigners \subseteq oldSigners' /\ oldApprovers \subseteq oldApprovers'
  BY DEF Answer, SaveRejection, SaveApproverRow, SaveSignerRow, Marked, old
<1>13. Open
  BY <1>1, <1>11, <1>12 DEF Open, doc
<1>14. QED
  BY <1>10, <1>11, <1>13

(* Every step keeps what is known of the approvals that are missing.        *)
LEMMA PendingKept ==
    ASSUME ~SkipsApproval, AnswerTyped, OnlyAssistantsPending, NEW t \in Requests, Answer(t)
    PROVE  OnlyAssistantsPending'
<1> SUFFICES ASSUME Open', AskedToSign' PROVE PendingAreAssistants'
  BY DEF OnlyAssistantsPending
<1>1. Open /\ UNCHANGED <<doc, docs>> /\ curator' = curator
  BY OpenStep DEF doc
<1>2. /\ req \in [Requests -> RequestRows] /\ CopyFits(t)
      /\ IsTable(signers, SignerIds, SignerRow)
      /\ \A u \in Requests \ {t} : req'[u] = req[u]
  BY OthersStay DEF AnswerTyped, TypeOK
<1>3. AskedToSign => PendingAreAssistants
  BY <1>1 DEF OnlyAssistantsPending
<1>4. ASSUME approvers' = approvers, PendingAreAssistants
      PROVE  PendingAreAssistants'
  BY <1>1, <1>4 DEF PendingAreAssistants, Pending, IsAssistant
<1>5. ASSUME UNCHANGED <<signers, approvers>>, req'[t].pc \notin {"sign", "create_curator"}
      PROVE  PendingAreAssistants'
  <2>1. AskedToSign
    BY <1>2, <1>5 DEF AskedToSign
  <2>2. QED
    BY <1>3, <1>4, <1>5, <2>1
<1>6. CASE \E a \in DOMAIN approvers : LoadApproval(t, a)
  <2>1. UNCHANGED <<signers, approvers>> /\ req'[t].pc = "approve"
    BY <1>2, <1>6 DEF LoadApproval, Begin, vars
  <2>2. QED
    BY <1>5, <2>1
<1>7. CASE \E s \in DOMAIN signers : LoadSigning(t, s)
  <2>1. PICK s \in DOMAIN signers : MaySign(s) /\ approvers' = approvers
    BY <1>7 DEF LoadSigning, vars
  <2>2. AskedToSign
    BY <2>1 DEF MaySign, AskedToSign
  <2>3. QED
    BY <1>3, <1>4, <2>1, <2>2
<1>8. CASE SaveApproval(t)
  <2>1. /\ req[t].pc = "approve" /\ Goto(t, "show") /\ signers' = signers
        /\ approvers' = Insert(approvers, req[t].id, req[t].row)
    BY <1>8 DEF SaveApproval, At
  <2>2. req'[t].pc = "show"
    BY <1>2, <2>1, GoesOn DEF Approving
  <2>3. AskedToSign
    BY <1>2, <2>1, <2>2 DEF AskedToSign
  <2>4. /\ \A a \in DOMAIN approvers \ {req[t].id} : approvers'[a] = approvers[a]
        /\ DOMAIN approvers' = DOMAIN approvers
        /\ approvers'[req[t].id].ok = "yes"
    BY <1>2, <2>1 DEF Insert, CopyFits, At
  <2>5. \A a \in Pending(approvers') : a \in Pending(approvers) /\ approvers'[a] = approvers[a]
    BY <2>4 DEF Pending
  <2>6. QED
    BY <1>1, <1>3, <2>3, <2>5 DEF PendingAreAssistants, IsAssistant
<1>9. CASE ShowToSigners(t)
  <2>1. /\ req[t].pc = "show" /\ Goto(t, "ask") /\ approvers' = approvers
        /\ signers' = MakeVisibleToSigners(signers, approvers)
    BY <1>9 DEF ShowToSigners, At
  <2>2. CASE AllApproved(approvers)
    BY <2>1, <2>2 DEF PendingAreAssistants, AllApproved
  <2>3. CASE ~AllApproved(approvers)
    <3>1. signers' = signers
      BY <2>1, <2>3 DEF MakeVisibleToSigners
    <3>2. req'[t].pc = "ask"
      BY <1>2, <2>1, GoesOn DEF Approving
    <3>3. QED
      BY <1>5, <2>1, <3>1, <3>2
  <2>4. QED
    BY <2>2, <2>3
<1>10. CASE AskCurator(t) /\ AllSignedAndApproved(signers, approvers)
  <2>1. approvers' = approvers /\ Pending(approvers) = {}
    BY <1>10 DEF AskCurator, AllSignedAndApproved, AllApproved, vars
  <2>2. QED
    BY <2>1 DEF PendingAreAssistants
<1>11. CASE AskCurator(t) /\ ~AllSignedAndApproved(signers, approvers)
  <2>1. UNCHANGED <<signers, approvers>> /\ Finish(t)
    BY <1>11 DEF AskCurator, vars
  <2>2. QED
    BY <1>5, <2>1, Finished
<1>12. CASE CreateCurator(t) \/ SaveSigning(t)
  <2>1. req[t].pc \in {"sign", "create_curator"} /\ approvers' = approvers
    BY <1>12 DEF CreateCurator, SaveSigning, At
  <2>2. QED
    BY <1>3, <1>4, <2>1 DEF AskedToSign
<1>13. CASE PruneApprovers(t) \/ HandOver(t) \/ CheckRegistration(t)
  <2>1. UNCHANGED <<signers, approvers>>
    BY <1>13, NothingToPrune DEF PruneApprovers, HandOver, CheckRegistration, vars
  <2>2. PICK pc \in {"hand_over", "create_assistant", "check", "open", "idle"} :
           \/ pc = "idle" /\ Finish(t)
           \/ pc # "idle" /\ req[t].pc \in Signing /\ pc \in Signing /\ Goto(t, pc)
    BY <1>13 DEF PruneApprovers, HandOver, CheckRegistration, At, Signing
  <2>3. req'[t].pc = pc
    BY <1>2, <2>2, Finished, GoesOn
  <2>4. QED
    BY <1>5, <2>1, <2>2, <2>3
<1>14. CASE CreateAssistant(t)
  <2> DEFINE row == NewApprover(FirstAssistant(curator), Nobody)
  <2>1. /\ req[t].pc = "create_assistant" /\ Goto(t, "check") /\ signers' = signers
        /\ approvers' \in Created(approvers, FreeApproverIds, row)
    BY <1>14 DEF CreateAssistant, At
  <2>2. curator # Nobody /\ Assistants[curator] # {}
    BY <1>2, <2>1 DEF CopyFits, At
  <2>3. row.user \in Assistants[curator]
    BY <2>2 DEF NewApprover, FirstAssistant
  <2> HIDE DEF row
  <2>4. PICK key \in FreeApproverIds \ DOMAIN approvers :
           /\ DOMAIN approvers' = DOMAIN approvers \cup {key}
           /\ approvers'[key] = row
           /\ \A k \in DOMAIN approvers : approvers'[k] = approvers[k]
    BY <2>1, CreatedRows
  <2>5. AskedToSign
    <3>1. req'[t].pc = "check"
      BY <1>2, <2>1, GoesOn DEF Signing
    <3>2. QED
      BY <1>2, <2>1, <3>1 DEF AskedToSign
  <2>6. \A a \in Pending(approvers') : a = key \/ a \in Pending(approvers)
    BY <2>4 DEF Pending
  <2>7. \A a \in Pending(approvers) : IsAssistant(approvers[a].user) /\ a \in DOMAIN approvers
    BY <1>3, <2>5 DEF PendingAreAssistants, Pending
  <2>8. QED
    BY <1>1, <2>2, <2>3, <2>4, <2>6, <2>7 DEF PendingAreAssistants, IsAssistant
<1>15. CASE Reads(t)
  <2>1. UNCHANGED <<signers, approvers>> /\ req'[t].pc \in {"read_approver", "read_signer", "idle"}
    BY <1>15, Finished DEF Reads
  <2>2. QED
    BY <1>5, <2>1
<1>16. QED
  BY OpenStep, <1>6, <1>7, <1>8, <1>9, <1>10, <1>11, <1>12, <1>13, <1>14, <1>15

(* Whoever has still to look does so while others work.                     *)
LEMMA OthersRegister ==
    ASSUME curator' = curator, NEW t \in Requests, \A u \in Requests \ {t} : req'[u] = req[u],
           ~WillRegister(t), \E u \in Requests : WillRegister(u)
    PROVE  \E u \in Requests : WillRegister(u)'
BY DEF WillRegister, IsAssistant

(* Every step leaves somebody to look when everything is there.             *)
LEMMA RegistersKept ==
    ASSUME \A c \in Curators : Assistants[c] # {},
           AnswerTyped, OnlyAssistantsPending, SomebodyRegisters, NEW t \in Requests, Answer(t)
    PROVE  SomebodyRegisters'
<1> SUFFICES ASSUME Open', AllSignedAndApproved(signers', approvers')
             PROVE  \E u \in Requests : WillRegister(u)'
  BY DEF SomebodyRegisters
<1>1. Open /\ UNCHANGED <<doc, docs>> /\ curator' = curator
  BY OpenStep DEF doc
<1>2. /\ req \in [Requests -> RequestRows] /\ CopyFits(t)
      /\ IsTable(signers, SignerIds, SignerRow)
      /\ curator \in Curators \cup {Nobody}
      /\ DOMAIN signers # {}
      /\ \A u \in Requests \ {t} : req'[u] = req[u]
  BY OthersStay DEF AnswerTyped, TypeOK
<1>3. ASSUME AllSignedAndApproved(signers, approvers), ~WillRegister(t)
      PROVE  \E u \in Requests : WillRegister(u)'
  BY <1>1, <1>2, <1>3, OthersRegister DEF SomebodyRegisters
<1>4. CASE \/ \E a \in DOMAIN approvers : LoadApproval(t, a)
           \/ \E s \in DOMAIN signers : LoadSigning(t, s)
  <2>1. UNCHANGED <<signers, approvers>> /\ req[t] = Idle
    BY <1>4 DEF LoadApproval, LoadSigning, Begin, vars
  <2>2. ~WillRegister(t)
    BY <2>1 DEF WillRegister, Looks, Idle
  <2>3. QED
    BY <1>3, <2>1, <2>2
<1>5. CASE SaveApproval(t)
  <2>1. /\ req[t].pc = "approve" /\ Goto(t, "show") /\ signers' = signers
        /\ approvers' = Insert(approvers, req[t].id, req[t].row)
    BY <1>5 DEF SaveApproval, At
  <2>2. req'[t].pc = "show" /\ req'[t].row = req[t].row
    BY <1>2, <2>1, GoesOn DEF Approving
  <2>3. CASE IsAssistant(req[t].row.user)
    BY <1>1, <2>2, <2>3 DEF WillRegister, IsAssistant
  <2>4. CASE ~IsAssistant(req[t].row.user)
    <3>1. AllSigned(signers)
      BY <2>1 DEF AllSignedAndApproved
    <3>2. AskedToSign
      BY <1>2, <3>1 DEF AskedToSign, AllSigned
    <3>3. \A a \in Pending(approvers) : IsAssistant(approvers[a].user)
      BY <1>1, <3>2 DEF OnlyAssistantsPending, PendingAreAssistants
    <3>4. req[t].id \notin Pending(approvers)
      BY <1>2, <2>1, <2>4, <3>3 DEF CopyFits, At
    <3>5. \A a \in Pending(approvers) : a \in Pending(approvers')
      BY <2>1, <3>4 DEF Pending, Insert
    <3>6. AllSignedAndApproved(signers, approvers)
      BY <3>1, <3>5 DEF AllSignedAndApproved, AllApproved
    <3>7. ~WillRegister(t)
      BY <2>1 DEF WillRegister, Looks
    <3>8. QED
      BY <1>3, <3>6, <3>7
  <2>5. QED
    BY <2>3, <2>4
<1>6. CASE ShowToSigners(t)
  <2>1. /\ req[t].pc = "show" /\ Goto(t, "ask") /\ approvers' = approvers
        /\ signers' = MakeVisibleToSigners(signers, approvers)
    BY <1>6 DEF ShowToSigners, At
  <2>2. req'[t].pc = "ask" /\ req'[t].row = req[t].row
    BY <1>2, <2>1, GoesOn DEF Approving
  <2>3. CASE IsAssistant(req[t].row.user)
    BY <1>1, <2>2, <2>3 DEF WillRegister, IsAssistant
  <2>4. CASE ~IsAssistant(req[t].row.user)
    <3>1. ~WillRegister(t)
      BY <2>1, <2>4 DEF WillRegister, Looks
    <3>2. DOMAIN signers' = DOMAIN signers /\ \A s \in DOMAIN signers : signers'[s].signed = signers[s].signed
      BY <1>2, <2>1, VisibleTable
    <3>3. AllSignedAndApproved(signers, approvers)
      BY <2>1, <3>2 DEF AllSignedAndApproved, AllSigned
    <3>4. QED
      BY <1>3, <3>1, <3>3
  <2>5. QED
    BY <2>3, <2>4
<1>7. CASE AskCurator(t)
  <2>1. req[t].pc = "ask" /\ UNCHANGED <<signers, approvers>>
    BY <1>7 DEF AskCurator, At, vars
  <2>2. CASE IsAssistant(req[t].row.user)
    <3>1. Goto(t, "create_curator")
      BY <1>7, <2>1, <2>2 DEF AskCurator
    <3>2. req'[t].pc = "create_curator" /\ req'[t].row = req[t].row
      BY <1>2, <2>1, <3>1, GoesOn DEF Approving
    <3>3. QED
      BY <1>1, <2>2, <3>2 DEF WillRegister, IsAssistant
  <2>3. CASE ~IsAssistant(req[t].row.user)
    BY <1>3, <2>1, <2>3 DEF WillRegister, Looks
  <2>4. QED
    BY <2>2, <2>3
<1>8. CASE CreateCurator(t)
  <2>1. signers' \in Created(signers, FreeSignerIds, NewSigner(curator, "basic_signer", "yes"))
    BY <1>8 DEF CreateCurator
  <2>2. PICK key \in FreeSignerIds \ DOMAIN signers :
           /\ DOMAIN signers' = DOMAIN signers \cup {key}
           /\ signers'[key] = NewSigner(curator, "basic_signer", "yes")
    BY <2>1, CreatedRows
  <2>3. signers'[key].signed = "null"
    BY <2>2 DEF NewSigner
  <2>4. QED
    BY <2>2, <2>3 DEF AllSignedAndApproved, AllSigned
<1>9. ASSUME NEW pc \in Looks, req[t].pc \in Signing, Goto(t, pc)
      PROVE  \E u \in Requests : WillRegister(u)'
  <2>1. req'[t].pc = pc
    BY <1>2, <1>9, GoesOn DEF Looks, Signing
  <2>2. QED
    BY <1>9, <2>1 DEF WillRegister
<1>10. CASE SaveSigning(t) \/ PruneApprovers(t) \/ CreateAssistant(t)
  <2>1. PICK pc \in Looks : req[t].pc \in Signing /\ Goto(t, pc)
    BY <1>10 DEF SaveSigning, PruneApprovers, CreateAssistant, At, Looks, Signing
  <2>2. QED
    BY <1>9, <2>1
<1>11. CASE HandOver(t)
  <2>1. req[t].pc = "hand_over" /\ UNCHANGED <<signers, approvers>>
    BY <1>11 DEF HandOver, At, vars
  <2>2. Assistants[curator] # {}
    BY <1>2, <2>1 DEF CopyFits
  <2>3. Goto(t, "create_assistant")
    BY <1>11, <2>1, <2>2 DEF HandOver
  <2>4. QED
    BY <1>9, <2>1, <2>3 DEF Looks, Signing
<1>12. CASE CheckRegistration(t)
  <2>1. req[t].pc = "check" /\ Goto(t, "open")
    BY <1>12 DEF CheckRegistration, At, vars
  <2>2. QED
    BY <1>9, <2>1 DEF Looks, Signing
<1>13. CASE Reads(t)
  <2>1. UNCHANGED <<signers, approvers>> /\ ~WillRegister(t)
    BY <1>13 DEF Reads, WillRegister, Looks, Idle
  <2>2. QED
    BY <1>3, <2>1
<1>14. QED
  BY OpenStep, <1>4, <1>5, <1>6, <1>7, <1>8, <1>10, <1>11, <1>12, <1>13

(* Nor do signatures miss each other: where approvals cannot be skipped and *)
(* every curator has an assistant, a document that is signed and approved   *)
(* by all and not refused is registered when the requests are through, as   *)
(* long as no old copy was saved over a row.                                *)
THEOREM NoRegistrationIsLost ==
    ~SkipsApproval /\ (\A c \in Curators : Assistants[c] # {})
        => (AnswerSpec => []NoLostRegistration)
<1> SUFFICES ASSUME ~SkipsApproval, \A c \in Curators : Assistants[c] # {}
             PROVE  AnswerSpec => []NoLostRegistration
  OBVIOUS
<1>1. RequestInit => OnlyAssistantsPending /\ SomebodyRegisters
  <2> SUFFICES ASSUME RequestInit PROVE OnlyAssistantsPending /\ SomebodyRegisters
    OBVIOUS
  <2>1. PICK S \in (SUBSET DOMAIN AskedSigners) \ {{}}, A \in SUBSET DOMAIN AskedApprovers, kind \in Kinds :
           /\ signers = [s \in S |->
                  NewSigner(AskedSigners[s], kind, IF A = {} THEN "yes" ELSE "null")]
           /\ approvers = [a \in A |-> NewApprover(AskedApprovers[a], Nobody)]
    BY DEF RequestInit, Init
  <2>2. \A t \in Requests : req[t].pc = "idle"
    BY DEF RequestInit, Idle
  <2>3. DOMAIN signers = S /\ \A s \in S : signers[s].signed = "null"
    BY <2>1 DEF NewSigner
  <2>4. A # {} => \A s \in S : signers[s].visible = "null"
    BY <2>1 DEF NewSigner
  <2>5. A = {} => Pending(approvers) = {}
    BY <2>1 DEF Pending
  <2>6. OnlyAssistantsPending
    BY <2>2, <2>3, <2>4, <2>5 DEF OnlyAssistantsPending, PendingAreAssistants, AskedToSign
  <2>7. SomebodyRegisters
    BY <2>3 DEF SomebodyRegisters, AllSignedAndApproved, AllSigned
  <2>8. QED
    BY <2>6, <2>7
<1>2. AnswerTyped /\ OnlyAssistantsPending /\ SomebodyRegisters /\ [AnswerNext]_requestVars
        => (OnlyAssistantsPending /\ SomebodyRegisters)'
  <2> SUFFICES ASSUME AnswerTyped, OnlyAssistantsPending, SomebodyRegisters, [AnswerNext]_requestVars
               PROVE  (OnlyAssistantsPending /\ SomebodyRegisters)'
    OBVIOUS
  <2>1. CASE UNCHANGED requestVars
    <3>1. UNCHANGED <<signers, approvers, curator, content, status, docs, req, oldSigners, oldApprovers>>
      BY <2>1 DEF requestVars, vars, doc, old
    <3>2. QED
      BY <3>1 DEF OnlyAssistantsPending, PendingAreAssistants, SomebodyRegisters, Open, AskedToSign,
                  AllSignedAndApproved, AllSigned, AllApproved, Pending, WillRegister, IsAssistant
  <2>2. QED
    BY <2>1, PendingKept, RegistersKept DEF AnswerNext
<1>3. AnswerTyped /\ SomebodyRegisters => NoLostRegistration
  <2> SUFFICES ASSUME AnswerTyped, SomebodyRegisters, Quiet, ~Declined,
                      oldSigners = {}, oldApprovers = {},
                      AllSignedAndApproved(signers, approvers), ~(docs[content] >= 1)
               PROVE  FALSE
    BY DEF NoLostRegistration, RegisteredOnceAllSigned
  <2>1. \A t \in Requests : req[t].pc = "idle"
    BY DEF Quiet, Idle
  <2>2. status = "default"
    BY DEF AnswerTyped, TypeOK, Statuses, Declined
  <2>3. docs[content] = 0
    BY DEF AnswerTyped, TypeOK
  <2>4. Open
    BY <2>1, <2>2, <2>3 DEF Open, Refusing
  <2>5. QED
    BY <2>1, <2>4 DEF SomebodyRegisters, WillRegister, Looks
<1>4. QED
  BY <1>1, <1>2, <1>3, RequestsAreTyped, PTL DEF AnswerSpec

-----------------------------------------------------------------------------
(* One request at a time.  SerialInv says at every place a request can have *)
(* reached what it has made of the database it found, and so what is left   *)
(* to do until the step of ComposeWorkflow is complete.                     *)

(* What the request at hand makes of the rows it found.                     *)
ApprovedRow(a) == [before.approvers[a] EXCEPT !.ok = "yes"]
AfterApproval(a) == Insert(before.approvers, a, ApprovedRow(a))
AfterShowing(a) == MakeVisibleToSigners(before.signers, AfterApproval(a))
CuratorIsNext(a) ==
    IsAssistant(before.approvers[a].user) /\ AllSignedAndApproved(AfterShowing(a), AfterApproval(a))

SignedRow(s) ==
    [before.signers[s] EXCEPT !.signed = "yes", !.visible = "yes", !.over = content]
AfterSigning(s) == Insert(before.signers, s, SignedRow(s))
AfterPruning(s) ==
    Without(before.approvers,
            {a \in Pending(before.approvers) : before.approvers[a].addedBy = before.signers[s].user})
EverythingIsThere(s) == AllSignedAndApproved(AfterSigning(s), AfterPruning(s))
MayHandOver(s) == before.signers[s].kind # "basic_signer" /\ curator # Nobody
AssistantIsNext(s) == MayHandOver(s) /\ EverythingIsThere(s)

RefusedRow(a) == [before.approvers[a] EXCEPT !.ok = "no"]
RejectedRow(s) == [before.signers[s] EXCEPT !.signed = "no"]

RemainingSigners == Without(before.signers, CuratorRows(before.signers, curator))
RemainingApprovers == Without(before.approvers, AssistantRows(before.approvers, curator))
WithdrawnSigners == [s \in DOMAIN RemainingSigners |-> Withdrawn(RemainingSigners[s])]
ResetApproverRows == [a \in DOMAIN RemainingApprovers |-> [RemainingApprovers[a] EXCEPT !.ok = "null"]]
HiddenSigners == [s \in DOMAIN WithdrawnSigners |-> [WithdrawnSigners[s] EXCEPT !.visible = "no"]]

(* Where a request stands, and what has become of the database by then.     *)
Rows(S, A) == signers = S /\ approvers = A

Rests(t) == req[t] = Idle /\ Rows(before.signers, before.approvers) /\ docs = before.docs

Approves(t) == \E a \in DOMAIN before.approvers :
    /\ before.approvers[a].ok # "yes"
    /\ req[t] = [pc |-> req[t].pc, id |-> a, row |-> ApprovedRow(a)]
    /\ docs = before.docs
    /\ \/ At(t, "approve") /\ Rows(before.signers, before.approvers)
       \/ At(t, "show") /\ Rows(before.signers, AfterApproval(a))
       \/ At(t, "ask") /\ Rows(AfterShowing(a), AfterApproval(a))
       \/ At(t, "create_curator") /\ Rows(AfterShowing(a), AfterApproval(a)) /\ CuratorIsNext(a)

MayBeSigned(s) ==
    before.signers[s].signed # "yes" /\ (before.signers[s].visible = "yes" \/ SkipsApproval)

Signs(t) == \E s \in DOMAIN before.signers :
    /\ MayBeSigned(s)
    /\ req[t] = [pc |-> req[t].pc, id |-> s, row |-> SignedRow(s)]
    /\ docs = before.docs
    /\ \/ At(t, "sign") /\ Rows(before.signers, before.approvers)
       \/ At(t, "prune") /\ Rows(AfterSigning(s), before.approvers)
       \/ At(t, "hand_over") /\ Rows(AfterSigning(s), AfterPruning(s)) /\ MayHandOver(s)
       \/ /\ At(t, "create_assistant") /\ Rows(AfterSigning(s), AfterPruning(s))
          /\ AssistantIsNext(s) /\ Assistants[curator] # {}
       \/ At(t, "check") /\ Rows(AfterSigning(s), AfterPruning(s)) /\ ~AssistantIsNext(s)
       \/ /\ At(t, "check") /\ signers = AfterSigning(s)
          /\ AssistantIsNext(s) /\ Assistants[curator] # {}
          /\ approvers \in Created(AfterPruning(s), ApproverIds,
                                   NewApprover(FirstAssistant(curator), Nobody))
       \/ /\ At(t, "open") /\ Rows(AfterSigning(s), AfterPruning(s))
          /\ ~AssistantIsNext(s) /\ EverythingIsThere(s)

Closes(t) == \E s \in DOMAIN before.signers :
    /\ MayBeSigned(s)
    /\ req[t].pc = "close"
    /\ req[t].compose.content = content
    /\ req[t].compose.status = "done"
    /\ req[t].compose.isSigned = TRUE
    /\ docs = [before.docs EXCEPT ![content] = @ + 1]
    /\ Rows(AfterSigning(s), AfterPruning(s)) /\ ~AssistantIsNext(s) /\ EverythingIsThere(s)

Refuses(t) == \E a \in DOMAIN before.approvers :
    /\ before.approvers[a].ok = "null"
    /\ req[t] = [pc |-> req[t].pc, id |-> a, row |-> RefusedRow(a),
                 compose |-> [content |-> content, status |-> "declined_from_approver",
                              isSigned |-> isSigned]]
    /\ docs = before.docs
    /\ \/ At(t, "reject_approve") /\ Rows(before.signers, before.approvers)
       \/ At(t, "decline") /\ Rows(before.signers, Insert(before.approvers, a, RefusedRow(a)))

Rejects(t) == \E s \in DOMAIN before.signers :
    /\ before.signers[s].signed = "null"
    /\ req[t] = [pc |-> req[t].pc, id |-> s, row |-> RejectedRow(s),
                 compose |-> [content |-> content, status |-> "declined_from_signer",
                              isSigned |-> isSigned]]
    /\ docs = before.docs
    /\ \/ At(t, "reject_sign") /\ Rows(before.signers, before.approvers)
       \/ At(t, "decline") /\ Rows(Insert(before.signers, s, RejectedRow(s)), before.approvers)

ReadsApprover(t) == \E a \in DOMAIN before.approvers :
    /\ req[t] = [pc |-> "read_approver", id |-> a, row |-> before.approvers[a]]
    /\ docs = before.docs
    /\ Rows(before.signers, before.approvers)

ReadsSigner(t) == \E s \in DOMAIN before.signers :
    /\ req[t] = [pc |-> "read_signer", id |-> s, row |-> before.signers[s]]
    /\ docs = before.docs
    /\ Rows(before.signers, before.approvers)

Edits(t) ==
    /\ content < MaxEdits
    /\ req[t] = [pc |-> req[t].pc,
                 compose |-> [content |-> content + 1, status |-> status, isSigned |-> isSigned]]
    /\ docs = before.docs
    /\ \/ At(t, "remove_curator") /\ Rows(before.signers, before.approvers)
       \/ At(t, "remove_assistants") /\ Rows(RemainingSigners, before.approvers)
       \/ At(t, "reset_signers") /\ Rows(RemainingSigners, RemainingApprovers)
       \/ At(t, "reset_approvers") /\ Rows(WithdrawnSigners, RemainingApprovers)
       \/ At(t, "hide") /\ Rows(WithdrawnSigners, ResetApproverRows) /\ DOMAIN RemainingApprovers # {}
       \/ /\ At(t, "save_text")
          /\ Rows(IF DOMAIN RemainingApprovers = {} THEN WithdrawnSigners ELSE HiddenSigners,
                  ResetApproverRows)

Where(t) ==
    \/ Rests(t) \/ Approves(t) \/ Signs(t) \/ Closes(t) \/ Refuses(t) \/ Rejects(t)
    \/ ReadsApprover(t) \/ ReadsSigner(t) \/ Edits(t)

(* Between two requests nothing but rows and BaseDocuments change.          *)
ComposeKept ==
    /\ curator = before.curator /\ content = before.content
    /\ status = before.status /\ isSigned = before.isSigned
    /\ updates = before.updates /\ late = before.late /\ failed = before.failed

SerialInv ==
    /\ TypeOK
    /\ IsTable(before.signers, SignerIds, SignerRow)
    /\ IsTable(before.approvers, ApproverIds, ApproverRow)
    /\ ComposeKept
    /\ DOMAIN req = Requests
    /\ \A t \in Requests : Where(t)

(* The operators on tables mean the same in both specifications.            *)
LEMMA SameTables ==
    ASSUME NEW T, NEW ids, NEW row, NEW gone
    PROVE  /\ Workflow!Created(T, ids, row) = Created(T, ids, row)
           /\ Workflow!Without(T, gone) = Without(T, gone)
           /\ Workflow!Pending(T) = Pending(T)
           /\ Workflow!AllApproved(T) = AllApproved(T)
           /\ Workflow!MakeVisibleToSigners(gone, T) = MakeVisibleToSigners(gone, T)
           /\ Workflow!AllSignedAndApproved(gone, T) = AllSignedAndApproved(gone, T)
           /\ Workflow!CuratorRows(T, gone) = CuratorRows(T, gone)
           /\ Workflow!AssistantRows(T, gone) = AssistantRows(T, gone)
<1>1. \A key : Workflow!Insert(T, key, row) = Insert(T, key, row)
  BY DEF Workflow!Insert, Insert
<1>2. Workflow!NextKeys(ids, T) = NextKeys(ids, T)
  BY DEF Workflow!NextKeys, NextKeys
<1>3. Workflow!Created(T, ids, row) = Created(T, ids, row)
  BY <1>1, <1>2 DEF Workflow!Created, Created
<1>4. Workflow!Without(T, gone) = Without(T, gone)
  BY DEF Workflow!Without, Without, Workflow!Restrict, Restrict
<1>5. Workflow!Pending(T) = Pending(T)
  BY DEF Workflow!Pending, Pending
<1>6. Workflow!AllApproved(T) = AllApproved(T)
  BY <1>5 DEF Workflow!AllApproved, AllApproved
<1>7. Workflow!MakeVisibleToSigners(gone, T) = MakeVisibleToSigners(gone, T)
  BY <1>6 DEF Workflow!MakeVisibleToSigners, MakeVisibleToSigners
<1>8. Workflow!AllSignedAndApproved(gone, T) = AllSignedAndApproved(gone, T)
  BY <1>6 DEF Workflow!AllSignedAndApproved, AllSignedAndApproved, Workflow!AllSigned, AllSigned
<1>9. Workflow!CuratorRows(T, gone) = CuratorRows(T, gone)
  BY DEF Workflow!CuratorRows, CuratorRows
<1>10. Workflow!AssistantRows(T, gone) = AssistantRows(T, gone)
  BY DEF Workflow!AssistantRows, AssistantRows
<1>11. QED
  BY <1>3, <1>4, <1>5, <1>6, <1>7, <1>8, <1>9, <1>10

(* So do the rows that are created and withdrawn.                           *)
LEMMA SameRows ==
    ASSUME NEW u, NEW kind, NEW visible
    PROVE  /\ Workflow!NewSigner(u, kind, visible) = NewSigner(u, kind, visible)
           /\ Workflow!NewApprover(u, kind) = NewApprover(u, kind)
           /\ Workflow!Withdrawn(u) = Withdrawn(u)
           /\ Workflow!FirstAssistant(u) = FirstAssistant(u)
BY DEF Workflow!NewSigner, NewSigner, Workflow!NewApprover, NewApprover, Workflow!Withdrawn, Withdrawn,
       Workflow!Unsigned, Unsigned, Workflow!FirstAssistant, FirstAssistant

(* Before the first request the database is one ComposeWorkflow starts      *)
(* with.                                                                    *)
LEMMA FirstMap ==
    ASSUME SerialInit
    PROVE  Workflow!Init
<1>1. /\ before.signers = signers /\ before.approvers = approvers /\ before.curator = curator
      /\ before.content = content /\ before.status = status /\ before.isSigned = isSigned
      /\ before.docs = docs /\ before.updates = updates /\ before.late = late /\ before.failed = failed
  BY DEF SerialInit, Database
<1>2. Init
  BY DEF SerialInit, RequestInit
<1>3. PICK S \in (SUBSET DOMAIN AskedSigners) \ {{}}, A \in SUBSET DOMAIN AskedApprovers, kind \in Kinds :
        /\ curator # Nobody => kind = "signer"
        /\ signers = [s \in S |-> NewSigner(AskedSigners[s], kind, IF A = {} THEN "yes" ELSE "null")]
        /\ approvers = [a \in A |-> NewApprover(AskedApprovers[a], Nobody)]
  BY <1>2 DEF Init
<1>4. \A u, k, v : Workflow!NewSigner(u, k, v) = NewSigner(u, k, v) /\ Workflow!NewApprover(u, k) = NewApprover(u, k)
  BY SameRows
<1>5. /\ before.signers = [s \in S |-> Workflow!NewSigner(AskedSigners[s], kind, IF A = {} THEN "yes" ELSE "null")]
      /\ before.approvers = [a \in A |-> Workflow!NewApprover(AskedApprovers[a], Nobody)]
  BY <1>1, <1>3, <1>4
<1>6. kind \in Workflow!Kinds
  BY DEF Kinds, Workflow!Kinds
<1>7. before.docs = [v \in Workflow!Versions |-> 0]
  BY <1>1, <1>2 DEF Init, Versions, Workflow!Versions
<1>8. QED
  BY <1>1, <1>2, <1>3, <1>5, <1>6, <1>7 DEF Init, Workflow!Init

-----------------------------------------------------------------------------
(* The server takes requests one after the other; when one is through, the  *)
(* database is remembered.                                                  *)
OneAtATime == \A t, u \in Requests : t = u
Remembers == before' = IF Quiet' THEN Database' ELSE before

(* A request that is not through leaves what is remembered as it was.       *)
LEMMA MidStep ==
    ASSUME SerialInv, OneAtATime, Remembers, NEW t \in Requests, req'[t] # Idle,
           DOMAIN req' = Requests, UNCHANGED <<doc, used>>, docs' \in [Versions -> Nat],
           IsTable(signers', SignerIds, SignerRow), IsTable(approvers', ApproverIds, ApproverRow),
           before' = before => Where(t)'
    PROVE  SerialInv' /\ UNCHANGED Workflow!vars
<1>1. before' = before
  BY DEF Remembers, Quiet
<1>2. \A u \in Requests : Where(u)'
  BY <1>1 DEF OneAtATime
<1>3. TypeOK'
  BY DEF SerialInv, TypeOK, doc, used
<1>4. ComposeKept'
  BY <1>1 DEF SerialInv, ComposeKept, doc, used
<1>5. SerialInv'
  BY <1>1, <1>2, <1>3, <1>4 DEF SerialInv
<1>6. UNCHANGED Workflow!vars
  BY <1>1 DEF Workflow!vars, Workflow!doc, Workflow!used
<1>7. QED
  BY <1>5, <1>6

(* What is remembered is the database as a finished request leaves it.      *)
LEMMA EndStep ==
    ASSUME SerialInv, OneAtATime, Remembers, NEW t \in Requests, req'[t] = Idle,
           DOMAIN req' = Requests, TypeOK'
    PROVE  /\ SerialInv'
           /\ before'.signers = signers' /\ before'.approvers = approvers' /\ before'.curator = curator'
           /\ before'.content = content' /\ before'.status = status' /\ before'.isSigned = isSigned'
           /\ before'.docs = docs' /\ before'.updates = updates' /\ before'.late = late'
           /\ before'.failed = failed'
<1>1. Quiet'
  BY DEF Quiet, OneAtATime
<1>2. before' = Database'
  BY <1>1 DEF Remembers
<1>3. /\ before'.signers = signers' /\ before'.approvers = approvers' /\ before'.curator = curator'
      /\ before'.content = content' /\ before'.status = status' /\ before'.isSigned = isSigned'
      /\ before'.docs = docs' /\ before'.updates = updates' /\ before'.late = late'
      /\ before'.failed = failed'
  BY <1>2 DEF Database
<1>4. \A u \in Requests : Where(u)'
  BY <1>1, <1>3 DEF Quiet, Where, Rests, Rows
<1>5. ComposeKept'
  BY <1>3 DEF ComposeKept
<1>6. SerialInv'
  BY <1>3, <1>4, <1>5 DEF SerialInv, TypeOK
<1>7. QED
  BY <1>3, <1>6

(* The request moves on.                                                    *)
LEMMA MovesOn ==
    ASSUME DOMAIN req = Requests, NEW t \in Requests, NEW pc, Goto(t, pc), pc # "idle"
    PROVE  /\ DOMAIN req' = Requests
           /\ req'[t] = [req[t] EXCEPT !.pc = pc]
BY DEF Goto

(* A request that holds a row, or a compose, is no idle one.                *)
LEMMA NotIdle ==
    ASSUME NEW pc, pc # "idle", NEW id, NEW row, NEW compose
    PROVE  /\ [pc |-> pc, id |-> id, row |-> row] # Idle
           /\ [pc |-> pc, compose |-> compose] # Idle
           /\ [pc |-> pc, id |-> id, row |-> row, compose |-> compose] # Idle
BY DEF Idle

(* No other request holds a key.                                            *)
LEMMA NoKeyIsHeld ==
    ASSUME OneAtATime, NEW t \in Requests, req[t].pc \in {"create_curator", "create_assistant"}
    PROVE  FreeSignerIds = SignerIds /\ FreeApproverIds = ApproverIds
<1>1. /\ Holding({"sign", "reject_sign", "read_signer"}) = {}
      /\ Holding({"approve", "reject_approve", "read_approver"}) = {}
  BY DEF OneAtATime, Holding
<1>2. QED
  BY <1>1 DEF FreeSignerIds, FreeApproverIds

(* The tables an approval leaves.                                           *)
LEMMA TablesAfterApproval ==
    ASSUME SerialInv, NEW a \in DOMAIN before.approvers
    PROVE  /\ ApprovedRow(a) \in ApproverRow /\ ApprovedRow(a).user = before.approvers[a].user
           /\ IsTable(AfterApproval(a), ApproverIds, ApproverRow)
           /\ IsTable(AfterShowing(a), SignerIds, SignerRow)
           /\ AfterApproval(a) = [before.approvers EXCEPT ![a].ok = "yes"]
<1>1. /\ IsTable(before.approvers, ApproverIds, ApproverRow)
      /\ IsTable(before.signers, SignerIds, SignerRow)
  BY DEF SerialInv
<1>2. before.approvers[a] \in ApproverRow /\ a \in ApproverIds
  BY <1>1, TableRows
<1>3. ApprovedRow(a) \in ApproverRow /\ ApprovedRow(a).user = before.approvers[a].user
  BY <1>2 DEF ApprovedRow, ApproverRow, Tri
<1>4. IsTable(AfterApproval(a), ApproverIds, ApproverRow)
  BY <1>1, <1>2, <1>3, InsertTable DEF AfterApproval
<1>5. IsTable(AfterShowing(a), SignerIds, SignerRow)
  BY <1>1, VisibleTable DEF AfterShowing
<1>6. AfterApproval(a) = [before.approvers EXCEPT ![a].ok = "yes"]
  BY <1>1 DEF AfterApproval, ApprovedRow, Insert, IsTable
<1>7. QED
  BY <1>3, <1>4, <1>5, <1>6

(* The tables a signature leaves.                                           *)
LEMMA TablesAfterSigning ==
    ASSUME SerialInv, NEW s \in DOMAIN before.signers
    PROVE  /\ SignedRow(s) \in SignerRow /\ SignedRow(s).user = before.signers[s].user
           /\ SignedRow(s).kind = before.signers[s].kind
           /\ IsTable(AfterSigning(s), SignerIds, SignerRow)
           /\ IsTable(AfterPruning(s), ApproverIds, ApproverRow)
           /\ AfterSigning(s) = [before.signers EXCEPT ![s].signed = "yes", ![s].visible = "yes",
                                                       ![s].over = before.content]
<1>1. /\ IsTable(before.approvers, ApproverIds, ApproverRow)
      /\ IsTable(before.signers, SignerIds, SignerRow)
      /\ content \in Versions /\ content = before.content
  BY DEF SerialInv, TypeOK, ComposeKept
<1>2. before.signers[s] \in SignerRow /\ s \in SignerIds
  BY <1>1, TableRows
<1>3. /\ SignedRow(s) \in SignerRow /\ SignedRow(s).user = before.signers[s].user
      /\ SignedRow(s).kind = before.signers[s].kind
  BY <1>1, <1>2 DEF SignedRow, SignerRow, Tri
<1>4. IsTable(AfterSigning(s), SignerIds, SignerRow)
  BY <1>1, <1>2, <1>3, InsertTable DEF AfterSigning
<1>5. IsTable(AfterPruning(s), ApproverIds, ApproverRow)
  BY <1>1, WithoutTable DEF AfterPruning
<1>6. AfterSigning(s) = [before.signers EXCEPT ![s] = SignedRow(s)]
  BY <1>1 DEF AfterSigning, Insert, IsTable
<1>7. AfterSigning(s) = [before.signers EXCEPT ![s].signed = "yes", ![s].visible = "yes",
                                               ![s].over = before.content]
  BY <1>1, <1>6 DEF SignedRow
<1>8. QED
  BY <1>3, <1>4, <1>5, <1>7

(* The tables a refusal leaves.                                             *)
LEMMA TablesAfterRefusal ==
    ASSUME SerialInv
    PROVE  /\ \A a \in DOMAIN before.approvers :
                LET A == Insert(before.approvers, a, RefusedRow(a))
                IN  /\ RefusedRow(a) \in ApproverRow
                    /\ IsTable(A, ApproverIds, ApproverRow)
                    /\ A = [before.approvers EXCEPT ![a].ok = "no"]
           /\ \A s \in DOMAIN before.signers :
                LET S == Insert(before.signers, s, RejectedRow(s))
                IN  /\ RejectedRow(s) \in SignerRow
                    /\ IsTable(S, SignerIds, SignerRow)
                    /\ S = [before.signers EXCEPT ![s].signed = "no"]
<1>1. /\ IsTable(before.approvers, ApproverIds, ApproverRow)
      /\ IsTable(before.signers, SignerIds, SignerRow)
  BY DEF SerialInv
<1>2. ASSUME NEW a \in DOMAIN before.approvers
      PROVE  LET A == Insert(before.approvers, a, RefusedRow(a))
             IN  /\ RefusedRow(a) \in ApproverRow
                 /\ IsTable(A, ApproverIds, ApproverRow)
                 /\ A = [before.approvers EXCEPT ![a].ok = "no"]
  <2>1. before.approvers[a] \in ApproverRow /\ a \in ApproverIds
    BY <1>1, TableRows
  <2>2. RefusedRow(a) \in ApproverRow
    BY <2>1 DEF RefusedRow, ApproverRow, Tri
  <2>3. IsTable(Insert(before.approvers, a, RefusedRow(a)), ApproverIds, ApproverRow)
    BY <1>1, <2>1, <2>2, InsertTable
  <2>4. Insert(before.approvers, a, RefusedRow(a)) = [before.approvers EXCEPT ![a].ok = "no"]
    BY <1>1 DEF RefusedRow, Insert, IsTable
  <2>5. QED
    BY <2>2, <2>3, <2>4
<1>3. ASSUME NEW s \in DOMAIN before.signers
      PROVE  LET S == Insert(before.signers, s, RejectedRow(s))
             IN  /\ RejectedRow(s) \in SignerRow
                 /\ IsTable(S, SignerIds, SignerRow)
                 /\ S = [before.signers EXCEPT ![s].signed = "no"]
  <2>1. before.signers[s] \in SignerRow /\ s \in SignerIds
    BY <1>1, TableRows
  <2>2. RejectedRow(s) \in SignerRow
    BY <2>1 DEF RejectedRow, SignerRow, Tri
  <2>3. IsTable(Insert(before.signers, s, RejectedRow(s)), SignerIds, SignerRow)
    BY <1>1, <2>1, <2>2, InsertTable
  <2>4. Insert(before.signers, s, RejectedRow(s)) = [before.signers EXCEPT ![s].signed = "no"]
    BY <1>1 DEF RejectedRow, Insert, IsTable
  <2>5. QED
    BY <2>2, <2>3, <2>4
<1>4. QED
  BY <1>2, <1>3

(* The tables a change of the text goes through.                            *)
LEMMA TablesWhileEditing ==
    ASSUME SerialInv
    PROVE  /\ IsTable(RemainingSigners, SignerIds, SignerRow)
           /\ IsTable(RemainingApprovers, ApproverIds, ApproverRow)
           /\ IsTable(WithdrawnSigners, SignerIds, SignerRow)
           /\ IsTable(ResetApproverRows, ApproverIds, ApproverRow)
           /\ IsTable(HiddenSigners, SignerIds, SignerRow)
           /\ curator = Nobody => RemainingSigners = before.signers /\ RemainingApprovers = before.approvers
<1>1. /\ IsTable(before.approvers, ApproverIds, ApproverRow)
      /\ IsTable(before.signers, SignerIds, SignerRow)
  BY DEF SerialInv
<1>2. IsTable(RemainingSigners, SignerIds, SignerRow) /\ IsTable(RemainingApprovers, ApproverIds, ApproverRow)
  BY <1>1, WithoutTable DEF RemainingSigners, RemainingApprovers
<1>3. \A s \in DOMAIN RemainingSigners : Withdrawn(RemainingSigners[s]) \in SignerRow
  BY <1>2, TableRows, WithdrawnRow
<1>4. IsTable(WithdrawnSigners, SignerIds, SignerRow)
  BY <1>2, <1>3 DEF WithdrawnSigners, IsTable
<1>5. \A a \in DOMAIN RemainingApprovers : [RemainingApprovers[a] EXCEPT !.ok = "null"] \in ApproverRow
  <2>1. \A a \in DOMAIN RemainingApprovers : RemainingApprovers[a] \in ApproverRow
    BY <1>2, TableRows
  <2>2. QED
    BY <2>1 DEF ApproverRow, Tri
<1>6. IsTable(ResetApproverRows, ApproverIds, ApproverRow)
  BY <1>2, <1>5 DEF ResetApproverRows, IsTable
<1>7. \A s \in DOMAIN WithdrawnSigners : [WithdrawnSigners[s] EXCEPT !.visible = "no"] \in SignerRow
  BY <1>4, TableRows, WithdrawnRow DEF Tri
<1>8. IsTable(HiddenSigners, SignerIds, SignerRow)
  BY <1>4, <1>7 DEF HiddenSigners, IsTable
<1>9. CASE curator = Nobody
  <2>1. CuratorRows(before.signers, curator) = {}
    <3>1. \A s \in DOMAIN before.signers : before.signers[s] \in SignerRow
      BY <1>1, TableRows
    <3>2. QED
      BY <1>9, <3>1, RowAssumption DEF CuratorRows, SignerRow
  <2>2. AssistantRows(before.approvers, curator) = {}
    BY <1>9, RowAssumption DEF AssistantRows
  <2>3. RemainingSigners = before.signers
    BY <1>1, <2>1 DEF RemainingSigners, Without, Restrict, IsTable
  <2>4. RemainingApprovers = before.approvers
    BY <1>1, <2>2 DEF RemainingApprovers, Without, Restrict, IsTable
  <2>5. QED
    BY <1>2, <1>4, <1>6, <1>8, <2>3, <2>4
<1>10. QED
  BY <1>2, <1>4, <1>6, <1>8, <1>9

-----------------------------------------------------------------------------
(* A request that is through, seen from ComposeWorkflow.                    *)
Answered ==
    /\ before'.signers = signers' /\ before'.approvers = approvers' /\ before'.curator = curator'
    /\ before'.content = content' /\ before'.status = status' /\ before'.isSigned = isSigned'
    /\ before'.docs = docs' /\ before'.updates = updates' /\ before'.late = late'
    /\ before'.failed = failed'

(* What an approval leaves behind is what Approve does.                     *)
LEMMA ApproveMap ==
    ASSUME SerialInv, Answered, NEW a \in DOMAIN before.approvers,
           before.approvers[a].ok # "yes", approvers' = AfterApproval(a),
           UNCHANGED <<doc, used>>, docs' = before.docs,
           \/ ~CuratorIsNext(a) /\ signers' = AfterShowing(a)
           \/ /\ CuratorIsNext(a)
              /\ signers' \in Created(AfterShowing(a), SignerIds, NewSigner(curator, "basic_signer", "yes"))
    PROVE  Workflow!Approve(a)
<1>1. ComposeKept /\ curator \in Curators \cup {Nobody} /\ Nobody \notin Curators
  BY RowAssumption DEF SerialInv, TypeOK
<1>2. AfterApproval(a) = [before.approvers EXCEPT ![a].ok = "yes"]
  BY TablesAfterApproval
<1>3. AfterShowing(a) = Workflow!MakeVisibleToSigners(before.signers, AfterApproval(a))
  BY SameTables DEF AfterShowing
<1>4. CuratorIsNext(a) <=> Workflow!AsksCurator(a, AfterShowing(a), AfterApproval(a))
  <2>1. CuratorIsNext(a) <=> IsAssistant(before.approvers[a].user)
                             /\ Workflow!AllSignedAndApproved(AfterShowing(a), AfterApproval(a))
    BY SameTables DEF CuratorIsNext
  <2>2. a \in DOMAIN AfterApproval(a) /\ AfterApproval(a)[a].user = before.approvers[a].user
    <3>1. ApprovedRow(a).user = before.approvers[a].user
      BY TablesAfterApproval
    <3>2. a \in DOMAIN AfterApproval(a) /\ AfterApproval(a)[a] = ApprovedRow(a)
      BY DEF AfterApproval, Insert
    <3>3. QED
      BY <3>1, <3>2
  <2>3. IsAssistant(before.approvers[a].user) <=> a \in AssistantRows(AfterApproval(a), curator)
    BY <1>1, <2>2 DEF IsAssistant, AssistantRows
  <2>4. a \in AssistantRows(AfterApproval(a), curator)
        <=> a \in Workflow!AssistantRows(AfterApproval(a), before.curator)
    BY <1>1, SameTables DEF ComposeKept
  <2>5. QED
    BY <2>1, <2>3, <2>4 DEF Workflow!AsksCurator
<1>5. Created(AfterShowing(a), SignerIds, NewSigner(curator, "basic_signer", "yes"))
      = Workflow!Created(AfterShowing(a), SignerIds, Workflow!NewSigner(before.curator, "basic_signer", "yes"))
  BY <1>1, SameTables, SameRows DEF ComposeKept
<1>6. UNCHANGED <<Workflow!doc, before.docs, Workflow!used>>
  BY <1>1 DEF Answered, ComposeKept, doc, used, Workflow!doc, Workflow!used
<1> DEFINE A == AfterApproval(a)
           S == AfterShowing(a)
<1> HIDE DEF A, S
<1>7. /\ before'.approvers = A
      /\ \/ ~Workflow!AsksCurator(a, S, A) /\ before'.signers = S
         \/ /\ Workflow!AsksCurator(a, S, A)
            /\ before'.signers \in Workflow!Created(S, SignerIds, Workflow!NewSigner(before.curator, "basic_signer", "yes"))
      /\ A = [before.approvers EXCEPT ![a].ok = "yes"]
      /\ S = Workflow!MakeVisibleToSigners(before.signers, A)
  BY <1>2, <1>3, <1>4, <1>5 DEF Answered, A, S
<1>8. QED
  BY <1>6, <1>7 DEF Workflow!Approve

(* What a refusal leaves behind is what RejectApproval or RejectSigning     *)
(* does.                                                                    *)
LEMMA RefusalMap ==
    ASSUME SerialInv, Answered, UNCHANGED <<curator, content, isSigned, used>>, docs' = before.docs
    PROVE  /\ \A a \in DOMAIN before.approvers :
                 (/\ before.approvers[a].ok = "null" /\ signers' = before.signers
                  /\ approvers' = Insert(before.approvers, a, RefusedRow(a))
                  /\ status' = "declined_from_approver")
                    => Workflow!RejectApproval(a)
           /\ \A s \in DOMAIN before.signers :
                 (/\ before.signers[s].signed = "null" /\ approvers' = before.approvers
                  /\ signers' = Insert(before.signers, s, RejectedRow(s))
                  /\ status' = "declined_from_signer")
                    => Workflow!RejectSigning(s)
<1>1. /\ before'.curator = before.curator /\ before'.content = before.content
      /\ before'.isSigned = before.isSigned /\ before'.docs = before.docs
      /\ UNCHANGED Workflow!used
  BY DEF SerialInv, ComposeKept, Answered, used, Workflow!used
<1>2. ASSUME NEW a \in DOMAIN before.approvers,
             before.approvers[a].ok = "null", signers' = before.signers,
             approvers' = Insert(before.approvers, a, RefusedRow(a)),
             status' = "declined_from_approver"
      PROVE  Workflow!RejectApproval(a)
  <2>1. before'.approvers = [before.approvers EXCEPT ![a].ok = "no"]
    BY <1>2, TablesAfterRefusal DEF Answered
  <2>2. QED
    BY <1>1, <1>2, <2>1 DEF Answered, Workflow!RejectApproval
<1>3. ASSUME NEW s \in DOMAIN before.signers,
             before.signers[s].signed = "null", approvers' = before.approvers,
             signers' = Insert(before.signers, s, RejectedRow(s)),
             status' = "declined_from_signer"
      PROVE  Workflow!RejectSigning(s)
  <2>1. before'.signers = [before.signers EXCEPT ![s].signed = "no"]
    BY <1>3, TablesAfterRefusal DEF Answered
  <2>2. QED
    BY <1>1, <1>3, <2>1 DEF Answered, Workflow!RejectSigning
<1>4. QED
  BY <1>2, <1>3

(* What a signature leaves behind is what Sign does, whether it is handed   *)
(* over, registered, broken off or still one of several.                    *)
LEMMA SignMap ==
    ASSUME SerialInv, Answered, NEW s \in DOMAIN before.signers, MayBeSigned(s),
           signers' = AfterSigning(s), UNCHANGED <<curator, content, updates, late>>,
           \/ /\ AssistantIsNext(s) /\ docs' = before.docs /\ UNCHANGED <<status, isSigned, failed>>
              /\ \/ Assistants[curator] = {} /\ approvers' = AfterPruning(s)
                 \/ /\ Assistants[curator] # {}
                    /\ approvers' \in Created(AfterPruning(s), ApproverIds, NewApprover(FirstAssistant(curator), Nobody))
           \/ /\ ~AssistantIsNext(s) /\ approvers' = AfterPruning(s)
              /\ \/ /\ EverythingIsThere(s) /\ docs' = [before.docs EXCEPT ![content] = @ + 1]
                    /\ status' = "done" /\ isSigned' = TRUE /\ failed' = failed
                 \/ /\ EverythingIsThere(s) /\ failed < MaxFailures /\ failed' = failed + 1
                    /\ docs' = before.docs \/ docs' = [before.docs EXCEPT ![content] = @ + 1]
                    /\ UNCHANGED <<status, isSigned>>
                 \/ ~EverythingIsThere(s) /\ docs' = before.docs /\ UNCHANGED <<status, isSigned, failed>>
    PROVE  Workflow!Sign(s)
<1>1. ComposeKept
  BY DEF SerialInv
<1> DEFINE S == AfterSigning(s)
           A == AfterPruning(s)
<1>2. S = Workflow!Signed(s)
  BY TablesAfterSigning DEF Workflow!Signed
<1>3. A = Workflow!Pruned(s)
  BY SameTables DEF AfterPruning, Workflow!Pruned
<1>4. EverythingIsThere(s) <=> Workflow!AllSignedAndApproved(S, A)
  BY SameTables DEF EverythingIsThere
<1>5. AssistantIsNext(s) <=> Workflow!HandsOver(s, S, A)
  BY <1>1, <1>4 DEF AssistantIsNext, MayHandOver, Workflow!HandsOver, ComposeKept
<1>6. Workflow!MaySign(s)
  BY DEF MayBeSigned, Workflow!MaySign
<1>7. Created(A, ApproverIds, NewApprover(FirstAssistant(curator), Nobody))
      = Workflow!Created(A, ApproverIds, Workflow!NewApprover(Workflow!FirstAssistant(before.curator), Nobody))
  BY <1>1, SameTables, SameRows DEF ComposeKept
<1>8. /\ before'.signers = S
      /\ before'.curator = before.curator /\ before'.content = before.content
      /\ before'.updates = before.updates /\ before'.late = before.late
  BY <1>1 DEF Answered, ComposeKept
<1> HIDE DEF S, A
<1>9. CASE AssistantIsNext(s)
  <2>1. /\ before'.docs = before.docs /\ before'.status = before.status
        /\ before'.isSigned = before.isSigned /\ before'.failed = before.failed
    BY <1>1, <1>9 DEF Answered, ComposeKept
  <2>2. Workflow!SendToCuratorAssistant(A)
    BY <1>1, <1>7, <1>9 DEF Answered, ComposeKept, Workflow!SendToCuratorAssistant, A
  <2>3. QED
    BY <1>2, <1>3, <1>5, <1>6, <1>8, <1>9, <2>1, <2>2 DEF Workflow!Sign
<1>10. CASE ~AssistantIsNext(s)
  <2>1. before'.approvers = A
    BY <1>10 DEF Answered, A
  <2>2. Workflow!RegisterDocumentAfterSigning(S, A, before.docs)
    <3>1. \/ /\ EverythingIsThere(s) /\ before'.docs = [before.docs EXCEPT ![before.content] = @ + 1]
             /\ before'.status = "done" /\ before'.isSigned = TRUE /\ before'.failed = before.failed
          \/ /\ EverythingIsThere(s) /\ before.failed < MaxFailures /\ before'.failed = before.failed + 1
             /\ before'.docs = before.docs \/ before'.docs = [before.docs EXCEPT ![before.content] = @ + 1]
             /\ before'.status = before.status /\ before'.isSigned = before.isSigned
          \/ /\ ~EverythingIsThere(s) /\ before'.docs = before.docs
             /\ before'.status = before.status /\ before'.isSigned = before.isSigned
             /\ before'.failed = before.failed
      BY <1>1, <1>10 DEF Answered, ComposeKept
    <3>2. QED
      BY <1>4, <3>1 DEF Workflow!RegisterDocumentAfterSigning, Workflow!Register, Workflow!BreakOff
  <2>3. QED
    BY <1>2, <1>3, <1>5, <1>6, <1>8, <1>10, <2>1, <2>2 DEF Workflow!Sign
<1>11. QED
  BY <1>9, <1>10

(* The one statement of add_approvers is AddApprover.                       *)
LEMMA AddApproverMap ==
    ASSUME SerialInv, Answered, NEW t \in Requests, Rests(t), NEW u, NEW by, AddApprover(u, by)
    PROVE  Workflow!AddApprover(u, by)
<1>1. ComposeKept /\ signers = before.signers /\ approvers = before.approvers /\ docs = before.docs
  BY DEF SerialInv, Rests, Rows
<1>2. Created(approvers, ApproverIds, NewApprover(u, by))
      = Workflow!Created(before.approvers, ApproverIds, Workflow!NewApprover(u, by))
  BY <1>1, SameTables, SameRows
<1>3. QED
  BY <1>1, <1>2 DEF Answered, ComposeKept, AddApprover, doc, Workflow!AddApprover, Workflow!doc

(* What a change of the text leaves behind is what CustomUpdate does: it     *)
(* does not matter that the code withdraws first and hides last.            *)
LEMMA EditMap ==
    ASSUME SerialInv, Answered, content < MaxEdits, content' = content + 1,
           UNCHANGED <<curator, status, isSigned, used>>, docs' = before.docs,
           approvers' = ResetApproverRows,
           signers' = IF DOMAIN RemainingApprovers = {} THEN WithdrawnSigners ELSE HiddenSigners
    PROVE  Workflow!CustomUpdate
<1> DEFINE S == RemainingSigners
           A == RemainingApprovers
           hidden == IF DOMAIN A = {} THEN S ELSE [s \in DOMAIN S |-> [S[s] EXCEPT !.visible = "no"]]
           T == [s \in DOMAIN S |-> Withdrawn(hidden[s])]
<1>1. ComposeKept
  BY DEF SerialInv
<1>2. /\ S = Workflow!Without(before.signers, Workflow!CuratorRows(before.signers, before.curator))
      /\ A = Workflow!Without(before.approvers, Workflow!AssistantRows(before.approvers, before.curator))
  BY <1>1, SameTables DEF ComposeKept, RemainingSigners, RemainingApprovers
<1>3. signers' = T
  <2>1. CASE DOMAIN A = {}
    BY <2>1 DEF WithdrawnSigners
  <2>2. CASE DOMAIN A # {}
    <3>1. \A s \in DOMAIN S : S[s] \in SignerRow
      BY TablesWhileEditing, TableRows
    <3> HIDE DEF S
    <3>2. \A s \in DOMAIN S :
            Withdrawn([S[s] EXCEPT !.visible = "no"]) = [Withdrawn(S[s]) EXCEPT !.visible = "no"]
      BY <3>1 DEF Withdrawn, SignerRow
    <3>3. HiddenSigners = [s \in DOMAIN S |-> [Withdrawn(S[s]) EXCEPT !.visible = "no"]]
      BY DEF HiddenSigners, WithdrawnSigners, S
    <3>4. T = [s \in DOMAIN S |-> Withdrawn([S[s] EXCEPT !.visible = "no"])]
      BY <2>2
    <3> HIDE DEF T
    <3>5. QED
      BY <2>2, <3>2, <3>3, <3>4
  <2>3. QED
    BY <2>1, <2>2
<1>4. T = [s \in DOMAIN S |-> Workflow!Withdrawn(hidden[s])]
  <2> HIDE DEF hidden, S
  <2>1. \A s \in DOMAIN S : Withdrawn(hidden[s]) = Workflow!Withdrawn(hidden[s])
    BY SameRows
  <2>2. QED
    BY <2>1
<1>5. approvers' = [a \in DOMAIN A |-> [A[a] EXCEPT !.ok = "null"]]
  BY DEF ResetApproverRows
<1>6. /\ before.content < MaxEdits /\ before'.content = before.content + 1
      /\ before'.curator = before.curator /\ before'.status = before.status
      /\ before'.isSigned = before.isSigned /\ before'.docs = before.docs
      /\ UNCHANGED Workflow!used
  BY <1>1 DEF Answered, ComposeKept, used, Workflow!used
<1>7. /\ before'.signers = [s \in DOMAIN S |-> Workflow!Withdrawn(hidden[s])]
      /\ before'.approvers = [a \in DOMAIN A |-> [A[a] EXCEPT !.ok = "null"]]
  BY <1>3, <1>4, <1>5 DEF Answered
<1> HIDE DEF S, A, T
<1>8. QED
  BY <1>2, <1>6, <1>7 DEF Workflow!CustomUpdate

-----------------------------------------------------------------------------
(* The steps of a request.                                                  *)
Editing ==
    {"remove_curator", "remove_assistants", "reset_signers", "reset_approvers", "hide", "save_text"}

(* The place a request has reached tells what it is about.                  *)
LEMMA WhereByPlace ==
    ASSUME NEW t \in Requests, Where(t)
    PROVE  /\ req[t] = Idle => Rests(t)
           /\ req[t].pc \in Approving => Approves(t)
           /\ req[t].pc \in Signing => Signs(t)
           /\ req[t].pc = "close" => Closes(t)
           /\ req[t].pc = "reject_approve" => Refuses(t)
           /\ req[t].pc = "reject_sign" => Rejects(t)
           /\ req[t].pc = "decline" => Refuses(t) \/ Rejects(t)
           /\ req[t].pc \in Editing => Edits(t)
           /\ req[t].pc = "read_approver" => ReadsApprover(t)
           /\ req[t].pc = "read_signer" => ReadsSigner(t)
<1>1. Rests(t) => req[t].pc = "idle"
  BY DEF Rests, Idle
<1>2. Approves(t) => req[t].pc \in Approving
  BY DEF Approves, Approving, At
<1>3. Signs(t) => req[t].pc \in Signing
  BY DEF Signs, Signing, At
<1>4. Closes(t) => req[t].pc = "close"
  BY DEF Closes
<1>5. Refuses(t) => req[t].pc \in {"reject_approve", "decline"}
  BY DEF Refuses, At
<1>6. Rejects(t) => req[t].pc \in {"reject_sign", "decline"}
  BY DEF Rejects, At
<1>7. Edits(t) => req[t].pc \in Editing
  BY DEF Edits, Editing, At
<1>8. req[t] = Idle => req[t].pc = "idle"
  BY DEF Idle
<1>9. /\ ReadsApprover(t) => req[t].pc = "read_approver"
      /\ ReadsSigner(t) => req[t].pc = "read_signer"
  <2>1. \A id, row : /\ [pc |-> "read_approver", id |-> id, row |-> row].pc = "read_approver"
                     /\ [pc |-> "read_signer", id |-> id, row |-> row].pc = "read_signer"
    OBVIOUS
  <2>2. ReadsApprover(t) => req[t].pc = "read_approver"
    BY <2>1 DEF ReadsApprover
  <2>3. ReadsSigner(t) => req[t].pc = "read_signer"
    BY <2>1 DEF ReadsSigner
  <2>4. QED
    BY <2>2, <2>3
<1>10. QED
  BY <1>1, <1>2, <1>3, <1>4, <1>5, <1>6, <1>7, <1>8, <1>9 DEF Where, Approving, Signing, Editing

(* A request that begins holds the rows it found.                           *)
LEMMA BeginServed ==
    ASSUME SerialInv, OneAtATime, Remembers, NEW t \in Requests,
           \/ \E a \in DOMAIN approvers :
                 LoadApproval(t, a) \/ LoadRefusal(t, a) \/ LoadApproverRow(t, a)
           \/ \E s \in DOMAIN signers :
                 LoadSigning(t, s) \/ LoadRejection(t, s) \/ LoadSignerRow(t, s)
           \/ LoadEdit(t)
    PROVE  SerialInv' /\ UNCHANGED Workflow!vars
<1>1. /\ req[t] = Idle /\ UNCHANGED <<signers, approvers, doc, docs, used>>
      /\ DOMAIN req = Requests
  BY DEF LoadApproval, LoadRefusal, LoadApproverRow, LoadSigning, LoadRejection, LoadSignerRow,
         LoadEdit, Begin, vars, SerialInv
<1>2. Rests(t)
  BY <1>1, WhereByPlace DEF SerialInv
<1>3. signers = before.signers /\ approvers = before.approvers /\ docs = before.docs
  BY <1>2 DEF Rests, Rows
<1>4. /\ IsTable(signers', SignerIds, SignerRow) /\ IsTable(approvers', ApproverIds, ApproverRow)
      /\ docs' \in [Versions -> Nat] /\ UNCHANGED <<doc, used>>
      /\ UNCHANGED <<curator, content, status, isSigned>>
  BY <1>1 DEF SerialInv, TypeOK, doc
<1>5. ASSUME NEW r, req' = [req EXCEPT ![t] = r], r # Idle, (before' = before /\ req'[t] = r) => Where(t)'
      PROVE  SerialInv' /\ UNCHANGED Workflow!vars
  <2>1. DOMAIN req' = Requests /\ req'[t] = r
    BY <1>1, <1>5
  <2>2. before' = before => Where(t)'
    BY <1>5, <2>1
  <2>3. QED
    BY <1>4, <1>5, <2>1, <2>2, MidStep
<1>6. /\ \A st : [ComposeRow EXCEPT !.status = st]
                  = [content |-> content, status |-> st, isSigned |-> isSigned]
      /\ [ComposeRow EXCEPT !.content = @ + 1]
           = [content |-> content + 1, status |-> status, isSigned |-> isSigned]
  BY DEF ComposeRow
<1>7. CASE \E a \in DOMAIN approvers : LoadApproval(t, a)
  <2>1. PICK a \in DOMAIN before.approvers : LoadApproval(t, a)
    BY <1>3, <1>7
  <2> DEFINE r == [pc |-> "approve", id |-> a, row |-> ApprovedRow(a)]
  <2>2. req' = [req EXCEPT ![t] = r] /\ before.approvers[a].ok # "yes"
    BY <1>3, <2>1 DEF LoadApproval, Begin, ApprovedRow
  <2>3. r # Idle
    BY NotIdle
  <2>4. ASSUME before' = before, req'[t] = r
        PROVE  Where(t)'
    <3>1. Approves(t)'
      BY <1>1, <1>3, <2>2, <2>4 DEF Approves, ApprovedRow, At, Rows
    <3>2. QED
      BY <3>1 DEF Where
  <2>5. QED
    BY <1>5, <2>2, <2>3, <2>4
<1>8. CASE \E a \in DOMAIN approvers : LoadRefusal(t, a)
  <2>1. PICK a \in DOMAIN before.approvers : LoadRefusal(t, a)
    BY <1>3, <1>8
  <2> DEFINE r == [pc |-> "reject_approve", id |-> a, row |-> RefusedRow(a),
                   compose |-> [content |-> content, status |-> "declined_from_approver",
                                isSigned |-> isSigned]]
  <2>2. req' = [req EXCEPT ![t] = r] /\ before.approvers[a].ok = "null"
    <3>1. /\ before.approvers[a].ok = "null"
          /\ req' = [req EXCEPT ![t] = [pc |-> "reject_approve", id |-> a, row |-> RefusedRow(a),
                       compose |-> [ComposeRow EXCEPT !.status = "declined_from_approver"]]]
      BY <1>3, <2>1 DEF LoadRefusal, Begin, RefusedRow
    <3>2. QED
      BY <1>6, <3>1
  <2>3. r # Idle
    BY NotIdle
  <2>4. ASSUME before' = before, req'[t] = r
        PROVE  Where(t)'
    <3>1. Refuses(t)'
      BY <1>1, <1>3, <1>4, <2>2, <2>4 DEF Refuses, RefusedRow, At, Rows
    <3>2. QED
      BY <3>1 DEF Where
  <2>5. QED
    BY <1>5, <2>2, <2>3, <2>4
<1>9. CASE \E s \in DOMAIN signers : LoadSigning(t, s)
  <2>1. PICK s \in DOMAIN before.signers : LoadSigning(t, s)
    BY <1>3, <1>9
  <2> DEFINE r == [pc |-> "sign", id |-> s, row |-> SignedRow(s)]
  <2>2. Signed(s)[s] = SignedRow(s)
    BY <1>3 DEF Signed, SignedRow
  <2>3. req' = [req EXCEPT ![t] = r] /\ MayBeSigned(s)
    BY <1>3, <2>1, <2>2 DEF LoadSigning, Begin, MaySign, MayBeSigned
  <2>4. r # Idle
    BY NotIdle
  <2>5. ASSUME before' = before, req'[t] = r
        PROVE  Where(t)'
    <3>1. SignedRow(s)' = SignedRow(s) /\ MayBeSigned(s)'
      BY <1>4, <2>3, <2>5 DEF SignedRow, MayBeSigned
    <3>2. Signs(t)'
      BY <1>1, <1>3, <1>4, <2>5, <3>1 DEF Signs, At, Rows
    <3>3. QED
      BY <3>2 DEF Where
  <2>6. QED
    BY <1>5, <2>3, <2>4, <2>5
<1>10. CASE \E s \in DOMAIN signers : LoadRejection(t, s)
  <2>1. PICK s \in DOMAIN before.signers : LoadRejection(t, s)
    BY <1>3, <1>10
  <2> DEFINE r == [pc |-> "reject_sign", id |-> s, row |-> RejectedRow(s),
                   compose |-> [content |-> content, status |-> "declined_from_signer",
                                isSigned |-> isSigned]]
  <2>2. req' = [req EXCEPT ![t] = r] /\ before.signers[s].signed = "null"
    <3>1. /\ before.signers[s].signed = "null"
          /\ req' = [req EXCEPT ![t] = [pc |-> "reject_sign", id |-> s, row |-> RejectedRow(s),
                       compose |-> [ComposeRow EXCEPT !.status = "declined_from_signer"]]]
      BY <1>3, <2>1 DEF LoadRejection, Begin, RejectedRow
    <3>2. QED
      BY <1>6, <3>1
  <2>3. r # Idle
    BY NotIdle
  <2>4. ASSUME before' = before, req'[t] = r
        PROVE  Where(t)'
    <3>1. Rejects(t)'
      BY <1>1, <1>3, <1>4, <2>2, <2>4 DEF Rejects, RejectedRow, At, Rows
    <3>2. QED
      BY <3>1 DEF Where
  <2>5. QED
    BY <1>5, <2>2, <2>3, <2>4
<1>11. CASE LoadEdit(t)
  <2> DEFINE r(pc) == [pc |-> pc,
                       compose |-> [content |-> content + 1, status |-> status, isSigned |-> isSigned]]
  <2>1. PICK pc \in {"remove_curator", "reset_signers"} :
            /\ req' = [req EXCEPT ![t] = r(pc)]
            /\ pc = "reset_signers" => curator = Nobody
    <3> DEFINE first == IF curator = Nobody THEN "reset_signers" ELSE "remove_curator"
    <3>1. req' = [req EXCEPT ![t] = [pc |-> first, compose |-> [ComposeRow EXCEPT !.content = @ + 1]]]
      BY <1>11 DEF LoadEdit, Begin
    <3>2. req' = [req EXCEPT ![t] = r(first)]
      BY <1>6, <3>1
    <3>3. QED
      BY <3>2
  <2>2. r(pc) # Idle
    BY NotIdle
  <2>3. ASSUME before' = before, req'[t] = r(pc)
        PROVE  Where(t)'
    <3>1. pc = "reset_signers" => RemainingSigners = before.signers /\ RemainingApprovers = before.approvers
      BY <2>1, TablesWhileEditing
    <3>2. RemainingSigners' = RemainingSigners /\ RemainingApprovers' = RemainingApprovers
      BY <1>4, <2>3 DEF RemainingSigners, RemainingApprovers
    <3>3. content < MaxEdits
      BY <1>11 DEF LoadEdit
    <3>4. Edits(t)'
      BY <1>1, <1>3, <1>4, <2>1, <2>3, <3>1, <3>2, <3>3 DEF Edits, At, Rows
    <3>5. QED
      BY <3>4 DEF Where
  <2>4. QED
    BY <1>5, <2>1, <2>2, <2>3
<1>12. CASE \E a \in DOMAIN approvers : LoadApproverRow(t, a)
  <2>1. PICK a \in DOMAIN before.approvers : LoadApproverRow(t, a)
    BY <1>3, <1>12
  <2> DEFINE r == [pc |-> "read_approver", id |-> a, row |-> before.approvers[a]]
  <2>2. req' = [req EXCEPT ![t] = r]
    BY <1>3, <2>1 DEF LoadApproverRow, Begin
  <2>3. r # Idle
    BY NotIdle
  <2>4. ASSUME before' = before, req'[t] = r
        PROVE  Where(t)'
    <3>1. ReadsApprover(t)'
      BY <1>1, <1>3, <2>4 DEF ReadsApprover, Rows
    <3>2. QED
      BY <3>1 DEF Where
  <2>5. QED
    BY <1>5, <2>2, <2>3, <2>4
<1>13. CASE \E s \in DOMAIN signers : LoadSignerRow(t, s)
  <2>1. PICK s \in DOMAIN before.signers : LoadSignerRow(t, s)
    BY <1>3, <1>13
  <2> DEFINE r == [pc |-> "read_signer", id |-> s, row |-> before.signers[s]]
  <2>2. req' = [req EXCEPT ![t] = r]
    BY <1>3, <2>1 DEF LoadSignerRow, Begin
  <2>3. r # Idle
    BY NotIdle
  <2>4. ASSUME before' = before, req'[t] = r
        PROVE  Where(t)'
    <3>1. ReadsSigner(t)'
      BY <1>1, <1>3, <2>4 DEF ReadsSigner, Rows
    <3>2. QED
      BY <3>1 DEF Where
  <2>5. QED
    BY <1>5, <2>2, <2>3, <2>4
<1>14. QED
  BY <1>7, <1>8, <1>9, <1>10, <1>11, <1>12, <1>13

(* An approval, statement by statement.                                     *)
LEMMA ApprovingServed ==
    ASSUME SerialInv, OneAtATime, Remembers, NEW t \in Requests,
           SaveApproval(t) \/ ShowToSigners(t) \/ AskCurator(t) \/ CreateCurator(t)
    PROVE  SerialInv' /\ [Workflow!Next]_(Workflow!vars)
<1>1. req[t].pc \in Approving
  BY DEF SaveApproval, ShowToSigners, AskCurator, CreateCurator, At, Approving
<1>2. Approves(t) /\ DOMAIN req = Requests
  BY <1>1, WhereByPlace DEF SerialInv
<1>3. PICK a \in DOMAIN before.approvers :
        /\ before.approvers[a].ok # "yes"
        /\ req[t] = [pc |-> req[t].pc, id |-> a, row |-> ApprovedRow(a)]
        /\ docs = before.docs
        /\ \/ At(t, "approve") /\ Rows(before.signers, before.approvers)
           \/ At(t, "show") /\ Rows(before.signers, AfterApproval(a))
           \/ At(t, "ask") /\ Rows(AfterShowing(a), AfterApproval(a))
           \/ At(t, "create_curator") /\ Rows(AfterShowing(a), AfterApproval(a)) /\ CuratorIsNext(a)
  BY <1>2 DEF Approves
<1>4. /\ ApprovedRow(a).user = before.approvers[a].user
      /\ IsTable(AfterApproval(a), ApproverIds, ApproverRow)
      /\ IsTable(AfterShowing(a), SignerIds, SignerRow)
      /\ IsTable(before.signers, SignerIds, SignerRow)
      /\ docs \in [Versions -> Nat]
  BY TablesAfterApproval DEF SerialInv, TypeOK
<1>5. req[t].id = a /\ req[t].row = ApprovedRow(a)
  BY <1>3
<1>6. ASSUME NEW pc \in {"show", "ask", "create_curator"}, Goto(t, pc), UNCHANGED <<doc, docs, used>>,
             \/ pc = "show" /\ signers' = before.signers /\ approvers' = AfterApproval(a)
             \/ pc = "ask" /\ signers' = AfterShowing(a) /\ approvers' = AfterApproval(a)
             \/ /\ pc = "create_curator" /\ CuratorIsNext(a)
                /\ signers' = AfterShowing(a) /\ approvers' = AfterApproval(a)
      PROVE  SerialInv' /\ UNCHANGED Workflow!vars
  <2>1. DOMAIN req' = Requests /\ req'[t] = [pc |-> pc, id |-> a, row |-> ApprovedRow(a)]
    BY <1>2, <1>3, <1>6, MovesOn
  <2>2. req'[t] # Idle
    BY <2>1, NotIdle
  <2>3. ASSUME before' = before
        PROVE  Where(t)'
    <3>1. /\ AfterApproval(a)' = AfterApproval(a) /\ AfterShowing(a)' = AfterShowing(a)
          /\ ApprovedRow(a)' = ApprovedRow(a)
      BY <2>3 DEF AfterApproval, AfterShowing, ApprovedRow
    <3>2. CuratorIsNext(a)' = CuratorIsNext(a)
      BY <1>6, <2>3, <3>1 DEF CuratorIsNext, IsAssistant, doc
    <3>3. Approves(t)'
      BY <1>3, <1>6, <2>1, <2>3, <3>1, <3>2 DEF Approves, At, Rows
    <3>4. QED
      BY <3>3 DEF Where
  <2>4. QED
    BY <1>4, <1>6, <2>1, <2>2, <2>3, MidStep
<1>7. ASSUME Finish(t), UNCHANGED <<doc, docs, used>>, approvers' = AfterApproval(a),
             IsTable(signers', SignerIds, SignerRow),
             \/ ~CuratorIsNext(a) /\ signers' = AfterShowing(a)
             \/ /\ CuratorIsNext(a)
                /\ signers' \in Created(AfterShowing(a), SignerIds, NewSigner(curator, "basic_signer", "yes"))
      PROVE  SerialInv' /\ Workflow!Next
  <2>1. req'[t] = Idle /\ DOMAIN req' = Requests
    BY <1>2, <1>7 DEF Finish
  <2>2. TypeOK'
    BY <1>4, <1>7 DEF SerialInv, TypeOK, doc, used
  <2>3. SerialInv' /\ Answered
    BY <2>1, <2>2, EndStep DEF Answered
  <2>4. Workflow!Approve(a)
    BY <1>3, <1>7, <2>3, ApproveMap
  <2>5. QED
    BY <2>3, <2>4 DEF Workflow!Next
<1>8. CASE SaveApproval(t)
  <2>1. At(t, "approve") /\ Goto(t, "show") /\ UNCHANGED <<signers, doc, docs, used>>
    BY <1>8 DEF SaveApproval
  <2>2. signers = before.signers /\ approvers' = AfterApproval(a)
    BY <1>3, <1>5, <1>8 DEF SaveApproval, At, Rows, AfterApproval
  <2>3. QED
    BY <1>6, <2>1, <2>2
<1>9. CASE ShowToSigners(t)
  <2>1. At(t, "show") /\ Goto(t, "ask") /\ UNCHANGED <<approvers, doc, docs, used>>
    BY <1>9 DEF ShowToSigners
  <2>2. signers' = AfterShowing(a) /\ approvers = AfterApproval(a)
    BY <1>3, <1>9 DEF ShowToSigners, At, Rows, AfterShowing
  <2>3. QED
    BY <1>6, <2>1, <2>2
<1>10. CASE AskCurator(t)
  <2>1. At(t, "ask") /\ UNCHANGED <<signers, approvers, doc, docs, used>>
    BY <1>10 DEF AskCurator, vars
  <2>2. signers = AfterShowing(a) /\ approvers = AfterApproval(a)
    BY <1>3, <2>1 DEF At, Rows
  <2>3. CASE CuratorIsNext(a)
    <3>1. Goto(t, "create_curator")
      BY <1>4, <1>5, <1>10, <2>2, <2>3 DEF AskCurator, CuratorIsNext
    <3>2. QED
      BY <1>6, <2>1, <2>2, <2>3, <3>1
  <2>4. CASE ~CuratorIsNext(a)
    <3>1. Finish(t)
      BY <1>4, <1>5, <1>10, <2>2, <2>4 DEF AskCurator, CuratorIsNext
    <3>2. QED
      BY <1>4, <1>7, <2>1, <2>2, <2>4, <3>1
  <2>5. QED
    BY <2>3, <2>4
<1>11. CASE CreateCurator(t)
  <2>1. /\ At(t, "create_curator") /\ Finish(t) /\ UNCHANGED <<approvers, doc, docs, used>>
        /\ signers' \in Created(signers, FreeSignerIds, NewSigner(curator, "basic_signer", "yes"))
    BY <1>11 DEF CreateCurator
  <2>2. signers = AfterShowing(a) /\ approvers = AfterApproval(a) /\ CuratorIsNext(a)
    BY <1>3, <2>1 DEF At, Rows
  <2>3. FreeSignerIds = SignerIds
    BY <2>1, NoKeyIsHeld DEF At
  <2>4. NewSigner(curator, "basic_signer", "yes") \in SignerRow
    BY <2>2, RowAssumption, NewRows DEF SerialInv, TypeOK, Kinds, Tri, CuratorIsNext, IsAssistant
  <2>5. IsTable(signers', SignerIds, SignerRow)
    BY <1>4, <2>1, <2>2, <2>3, <2>4, CreatedTable
  <2>6. QED
    BY <1>7, <2>1, <2>2, <2>3, <2>5
<1>12. QED
  BY <1>8, <1>9, <1>10, <1>11

(* A refusal, by an approver or by a signer.                                *)
LEMMA RefusingServed ==
    ASSUME SerialInv, OneAtATime, Remembers, NEW t \in Requests,
           SaveRefusal(t) \/ SaveRejection(t) \/ SaveDeclined(t)
    PROVE  SerialInv' /\ [Workflow!Next]_(Workflow!vars)
<1>1. /\ DOMAIN req = Requests /\ docs \in [Versions -> Nat]
      /\ IsTable(before.signers, SignerIds, SignerRow)
      /\ IsTable(before.approvers, ApproverIds, ApproverRow)
  BY DEF SerialInv, TypeOK
<1>2. CASE SaveRefusal(t)
  <2>1. /\ At(t, "reject_approve") /\ Goto(t, "decline") /\ UNCHANGED <<signers, doc, docs, used>>
        /\ approvers' = Insert(approvers, req[t].id, req[t].row)
    BY <1>2 DEF SaveRefusal
  <2>2. Refuses(t)
    BY <2>1, WhereByPlace DEF SerialInv, At
  <2> DEFINE copy == [content |-> content, status |-> "declined_from_approver", isSigned |-> isSigned]
  <2>3. PICK a \in DOMAIN before.approvers :
          /\ before.approvers[a].ok = "null"
          /\ req[t] = [pc |-> req[t].pc, id |-> a, row |-> RefusedRow(a), compose |-> copy]
          /\ docs = before.docs
          /\ signers = before.signers /\ approvers = before.approvers
    BY <2>1, <2>2 DEF Refuses, At, Rows
  <2> HIDE DEF copy
  <2>4. approvers' = Insert(before.approvers, a, RefusedRow(a))
    BY <2>1, <2>3
  <2>5. DOMAIN req' = Requests
        /\ req'[t] = [pc |-> "decline", id |-> a, row |-> RefusedRow(a), compose |-> copy]
    BY <1>1, <2>1, <2>3, MovesOn
  <2>6. req'[t] # Idle
    BY <2>5, NotIdle
  <2>7. IsTable(approvers', ApproverIds, ApproverRow)
    BY <2>4, TablesAfterRefusal
  <2>8. ASSUME before' = before
        PROVE  Where(t)'
    <3>1. RefusedRow(a)' = RefusedRow(a) /\ copy' = copy
      BY <2>1, <2>8 DEF RefusedRow, copy, doc
    <3>2. Refuses(t)'
      BY <2>1, <2>3, <2>4, <2>5, <2>8, <3>1 DEF Refuses, At, Rows, copy
    <3>3. QED
      BY <3>2 DEF Where
  <2>9. QED
    BY <1>1, <2>1, <2>3, <2>5, <2>6, <2>7, <2>8, MidStep
<1>3. CASE SaveRejection(t)
  <2>1. /\ At(t, "reject_sign") /\ Goto(t, "decline") /\ UNCHANGED <<approvers, doc, docs, used>>
        /\ signers' = Insert(signers, req[t].id, req[t].row)
    BY <1>3 DEF SaveRejection
  <2>2. Rejects(t)
    BY <2>1, WhereByPlace DEF SerialInv, At
  <2> DEFINE copy == [content |-> content, status |-> "declined_from_signer", isSigned |-> isSigned]
  <2>3. PICK s \in DOMAIN before.signers :
          /\ before.signers[s].signed = "null"
          /\ req[t] = [pc |-> req[t].pc, id |-> s, row |-> RejectedRow(s), compose |-> copy]
          /\ docs = before.docs
          /\ signers = before.signers /\ approvers = before.approvers
    BY <2>1, <2>2 DEF Rejects, At, Rows
  <2> HIDE DEF copy
  <2>4. signers' = Insert(before.signers, s, RejectedRow(s))
    BY <2>1, <2>3
  <2>5. DOMAIN req' = Requests
        /\ req'[t] = [pc |-> "decline", id |-> s, row |-> RejectedRow(s), compose |-> copy]
    BY <1>1, <2>1, <2>3, MovesOn
  <2>6. req'[t] # Idle
    BY <2>5, NotIdle
  <2>7. IsTable(signers', SignerIds, SignerRow)
    BY <2>4, TablesAfterRefusal
  <2>8. ASSUME before' = before
        PROVE  Where(t)'
    <3>1. RejectedRow(s)' = RejectedRow(s) /\ copy' = copy
      BY <2>1, <2>8 DEF RejectedRow, copy, doc
    <3>2. Rejects(t)'
      BY <2>1, <2>3, <2>4, <2>5, <2>8, <3>1 DEF Rejects, At, Rows, copy
    <3>3. QED
      BY <3>2 DEF Where
  <2>9. QED
    BY <1>1, <2>1, <2>3, <2>5, <2>6, <2>7, <2>8, MidStep
<1>4. CASE SaveDeclined(t)
  <2>1. /\ At(t, "decline") /\ Finish(t) /\ SaveCompose(req[t].compose)
        /\ UNCHANGED <<signers, approvers, curator, docs, used>>
    BY <1>4 DEF SaveDeclined
  <2>2. Refuses(t) \/ Rejects(t)
    BY <2>1, WhereByPlace DEF SerialInv, At
  <2>3. req'[t] = Idle /\ DOMAIN req' = Requests
    BY <1>1, <2>1 DEF Finish
  <2>4. CASE Refuses(t)
    <3>1. PICK a \in DOMAIN before.approvers :
            /\ before.approvers[a].ok = "null"
            /\ req[t].compose = [content |-> content, status |-> "declined_from_approver",
                                 isSigned |-> isSigned]
            /\ docs = before.docs
            /\ signers = before.signers
            /\ approvers = Insert(before.approvers, a, RefusedRow(a))
      BY <2>1, <2>4 DEF Refuses, At, Rows
    <3>2. content' = content /\ status' = "declined_from_approver" /\ isSigned' = isSigned
      BY <2>1, <3>1 DEF SaveCompose
    <3>3. TypeOK'
      BY <2>1, <3>2 DEF SerialInv, TypeOK, Statuses, used
    <3>4. SerialInv' /\ Answered
      BY <2>3, <3>3, EndStep DEF Answered
    <3>5. Workflow!RejectApproval(a)
      BY <2>1, <3>1, <3>2, <3>4, RefusalMap
    <3>6. QED
      BY <3>4, <3>5 DEF Workflow!Next
  <2>5. CASE Rejects(t)
    <3>1. PICK s \in DOMAIN before.signers :
            /\ before.signers[s].signed = "null"
            /\ req[t].compose = [content |-> content, status |-> "declined_from_signer",
                                 isSigned |-> isSigned]
            /\ docs = before.docs
            /\ approvers = before.approvers
            /\ signers = Insert(before.signers, s, RejectedRow(s))
      BY <2>1, <2>5 DEF Rejects, At, Rows
    <3>2. content' = content /\ status' = "declined_from_signer" /\ isSigned' = isSigned
      BY <2>1, <3>1 DEF SaveCompose
    <3>3. TypeOK'
      BY <2>1, <3>2 DEF SerialInv, TypeOK, Statuses, used
    <3>4. SerialInv' /\ Answered
      BY <2>3, <3>3, EndStep DEF Answered
    <3>5. Workflow!RejectSigning(s)
      BY <2>1, <3>1, <3>2, <3>4, RefusalMap
    <3>6. QED
      BY <3>4, <3>5 DEF Workflow!Next
  <2>6. QED
    BY <2>2, <2>4, <2>5
<1>5. QED
  BY <1>2, <1>3, <1>4

(* A reading saves the row as it found it, which is no step.                *)
LEMMA ReadingServed ==
    ASSUME SerialInv, OneAtATime, Remembers, NEW t \in Requests,
           SaveApproverRow(t) \/ SaveSignerRow(t)
    PROVE  SerialInv' /\ UNCHANGED Workflow!vars
<1>1. /\ DOMAIN req = Requests /\ TypeOK /\ ComposeKept
      /\ IsTable(before.signers, SignerIds, SignerRow)
      /\ IsTable(before.approvers, ApproverIds, ApproverRow)
  BY DEF SerialInv
<1>2. /\ before.signers = [s \in DOMAIN before.signers |-> before.signers[s]]
      /\ before.approvers = [a \in DOMAIN before.approvers |-> before.approvers[a]]
  BY <1>1 DEF IsTable
<1>3. /\ signers' = before.signers /\ approvers' = before.approvers
      /\ signers = before.signers /\ approvers = before.approvers /\ docs = before.docs
  <2>1. CASE SaveApproverRow(t)
    <3>1. ReadsApprover(t)
      BY <2>1, WhereByPlace DEF SerialInv, SaveApproverRow, At
    <3>2. PICK a \in DOMAIN before.approvers :
            /\ req[t] = [pc |-> "read_approver", id |-> a, row |-> before.approvers[a]]
            /\ docs = before.docs /\ signers = before.signers /\ approvers = before.approvers
      BY <3>1 DEF ReadsApprover, Rows
    <3>3. approvers' = Insert(before.approvers, a, before.approvers[a]) /\ signers' = signers
      BY <2>1, <3>2 DEF SaveApproverRow
    <3>4. approvers' = before.approvers
      BY <1>2, <3>3 DEF Insert
    <3>5. QED
      BY <3>2, <3>3, <3>4
  <2>2. CASE SaveSignerRow(t)
    <3>1. ReadsSigner(t)
      BY <2>2, WhereByPlace DEF SerialInv, SaveSignerRow, At
    <3>2. PICK s \in DOMAIN before.signers :
            /\ req[t] = [pc |-> "read_signer", id |-> s, row |-> before.signers[s]]
            /\ docs = before.docs /\ signers = before.signers /\ approvers = before.approvers
      BY <3>1 DEF ReadsSigner, Rows
    <3>3. signers' = Insert(before.signers, s, before.signers[s]) /\ approvers' = approvers
      BY <2>2, <3>2 DEF SaveSignerRow
    <3>4. signers' = before.signers
      BY <1>2, <3>3 DEF Insert
    <3>5. QED
      BY <3>2, <3>3, <3>4
  <2>3. QED
    BY <2>1, <2>2
<1>4. UNCHANGED <<signers, approvers, curator, content, status, isSigned, docs, updates, late, failed>>
  BY <1>3 DEF SaveApproverRow, SaveSignerRow, doc, used
<1>5. TypeOK'
  BY <1>1, <1>4 DEF TypeOK
<1>6. req'[t] = Idle /\ DOMAIN req' = Requests
  BY <1>1 DEF SaveApproverRow, SaveSignerRow, Finish
<1>7. SerialInv' /\ Answered
  BY <1>5, <1>6, EndStep DEF Answered
<1>8. UNCHANGED Workflow!vars
  BY <1>1, <1>3, <1>4, <1>7 DEF Answered, ComposeKept, Workflow!vars, Workflow!doc, Workflow!used
<1>9. QED
  BY <1>7, <1>8

(* A signature up to the registration, statement by statement.              *)
LEMMA SigningServed ==
    ASSUME SerialInv, OneAtATime, Remembers, NEW t \in Requests,
           \/ SaveSigning(t) \/ PruneApprovers(t) \/ HandOver(t) \/ CreateAssistant(t)
           \/ CheckRegistration(t) \/ OpenDocument(t)
           \/ RegistrationFails(t) /\ At(t, "open")
    PROVE  SerialInv' /\ [Workflow!Next]_(Workflow!vars)
<1>1. req[t].pc \in Signing
  BY DEF SaveSigning, PruneApprovers, HandOver, CreateAssistant, CheckRegistration, OpenDocument, At,
         Signing
<1>2. Signs(t) /\ DOMAIN req = Requests
  BY <1>1, WhereByPlace DEF SerialInv
<1>3. PICK s \in DOMAIN before.signers :
        /\ MayBeSigned(s)
        /\ req[t] = [pc |-> req[t].pc, id |-> s, row |-> SignedRow(s)]
        /\ docs = before.docs
        /\ \/ At(t, "sign") /\ Rows(before.signers, before.approvers)
           \/ At(t, "prune") /\ Rows(AfterSigning(s), before.approvers)
           \/ At(t, "hand_over") /\ Rows(AfterSigning(s), AfterPruning(s)) /\ MayHandOver(s)
           \/ /\ At(t, "create_assistant") /\ Rows(AfterSigning(s), AfterPruning(s))
              /\ AssistantIsNext(s) /\ Assistants[curator] # {}
           \/ At(t, "check") /\ Rows(AfterSigning(s), AfterPruning(s)) /\ ~AssistantIsNext(s)
           \/ /\ At(t, "check") /\ signers = AfterSigning(s)
              /\ AssistantIsNext(s) /\ Assistants[curator] # {}
              /\ approvers \in Created(AfterPruning(s), ApproverIds,
                                       NewApprover(FirstAssistant(curator), Nobody))
           \/ /\ At(t, "open") /\ Rows(AfterSigning(s), AfterPruning(s))
              /\ ~AssistantIsNext(s) /\ EverythingIsThere(s)
  BY <1>2 DEF Signs
<1>4. /\ SignedRow(s).user = before.signers[s].user
      /\ SignedRow(s).kind = before.signers[s].kind
      /\ IsTable(AfterSigning(s), SignerIds, SignerRow)
      /\ IsTable(AfterPruning(s), ApproverIds, ApproverRow)
      /\ IsTable(before.approvers, ApproverIds, ApproverRow)
      /\ TypeOK /\ docs \in [Versions -> Nat] /\ content \in Versions
  BY TablesAfterSigning DEF SerialInv, TypeOK
<1>5. req[t].id = s /\ req[t].row = SignedRow(s)
  BY <1>3
<1>6. ASSUME before' = before, UNCHANGED doc
      PROVE  /\ AfterSigning(s)' = AfterSigning(s) /\ AfterPruning(s)' = AfterPruning(s)
             /\ SignedRow(s)' = SignedRow(s) /\ MayBeSigned(s)' = MayBeSigned(s)
             /\ MayHandOver(s)' = MayHandOver(s) /\ EverythingIsThere(s)' = EverythingIsThere(s)
             /\ AssistantIsNext(s)' = AssistantIsNext(s)
             /\ curator' = curator /\ content' = content
  BY <1>6 DEF doc, AfterSigning, AfterPruning, SignedRow, MayBeSigned, MayHandOver, EverythingIsThere,
              AssistantIsNext
<1>7. ASSUME NEW pc \in {"prune", "hand_over", "create_assistant", "check", "open"}, Goto(t, pc),
             UNCHANGED <<doc, docs, used>>, signers' = AfterSigning(s),
             IsTable(approvers', ApproverIds, ApproverRow),
             \/ pc = "prune" /\ approvers' = before.approvers
             \/ pc = "hand_over" /\ approvers' = AfterPruning(s) /\ MayHandOver(s)
             \/ /\ pc = "create_assistant" /\ approvers' = AfterPruning(s)
                /\ AssistantIsNext(s) /\ Assistants[curator] # {}
             \/ pc = "check" /\ approvers' = AfterPruning(s) /\ ~AssistantIsNext(s)
             \/ /\ pc = "check" /\ AssistantIsNext(s) /\ Assistants[curator] # {}
                /\ approvers' \in Created(AfterPruning(s), ApproverIds,
                                          NewApprover(FirstAssistant(curator), Nobody))
             \/ /\ pc = "open" /\ approvers' = AfterPruning(s)
                /\ ~AssistantIsNext(s) /\ EverythingIsThere(s)
      PROVE  SerialInv' /\ UNCHANGED Workflow!vars
  <2>1. DOMAIN req' = Requests /\ req'[t] = [pc |-> pc, id |-> s, row |-> SignedRow(s)]
    BY <1>2, <1>3, <1>7, MovesOn
  <2>2. req'[t] # Idle
    BY <2>1, NotIdle
  <2>3. ASSUME before' = before
        PROVE  Where(t)'
    <3>1. /\ s \in DOMAIN before'.signers /\ MayBeSigned(s)'
          /\ req'[t] = [pc |-> pc, id |-> s, row |-> SignedRow(s)'] /\ req'[t].pc = pc
          /\ docs' = before'.docs /\ before'.approvers = before.approvers
      BY <1>3, <1>6, <1>7, <2>1, <2>3
    <3>2. /\ AfterSigning(s)' = AfterSigning(s) /\ AfterPruning(s)' = AfterPruning(s)
          /\ MayHandOver(s)' = MayHandOver(s) /\ EverythingIsThere(s)' = EverythingIsThere(s)
          /\ AssistantIsNext(s)' = AssistantIsNext(s) /\ curator' = curator
      BY <1>6, <1>7, <2>3
    <3>3. \/ At(t, "prune")' /\ Rows(AfterSigning(s), before.approvers)'
          \/ At(t, "hand_over")' /\ Rows(AfterSigning(s), AfterPruning(s))' /\ MayHandOver(s)'
          \/ /\ At(t, "create_assistant")' /\ Rows(AfterSigning(s), AfterPruning(s))'
             /\ AssistantIsNext(s)' /\ Assistants[curator'] # {}
          \/ At(t, "check")' /\ Rows(AfterSigning(s), AfterPruning(s))' /\ ~AssistantIsNext(s)'
          \/ /\ At(t, "check")' /\ signers' = AfterSigning(s)'
             /\ AssistantIsNext(s)' /\ Assistants[curator'] # {}
             /\ approvers' \in Created(AfterPruning(s)', ApproverIds,
                                       NewApprover(FirstAssistant(curator'), Nobody))
          \/ /\ At(t, "open")' /\ Rows(AfterSigning(s), AfterPruning(s))'
             /\ ~AssistantIsNext(s)' /\ EverythingIsThere(s)'
      BY <1>7, <3>1, <3>2 DEF At, Rows
    <3>4. Signs(t)'
      BY <3>1, <3>3 DEF Signs
    <3>5. QED
      BY <3>4 DEF Where
  <2>4. QED
    BY <1>4, <1>7, <2>1, <2>2, <2>3, MidStep
<1>8. ASSUME Finish(t), UNCHANGED <<doc, docs, updates, late>>, signers' = AfterSigning(s),
             IsTable(approvers', ApproverIds, ApproverRow),
             \/ /\ AssistantIsNext(s) /\ failed' = failed
                /\ \/ Assistants[curator] = {} /\ approvers' = AfterPruning(s)
                   \/ /\ Assistants[curator] # {}
                      /\ approvers' \in Created(AfterPruning(s), ApproverIds,
                                                NewApprover(FirstAssistant(curator), Nobody))
             \/ /\ ~AssistantIsNext(s) /\ approvers' = AfterPruning(s)
                /\ \/ ~EverythingIsThere(s) /\ failed' = failed
                   \/ EverythingIsThere(s) /\ failed < MaxFailures /\ failed' = failed + 1
      PROVE  SerialInv' /\ Workflow!Next
  <2>1. req'[t] = Idle /\ DOMAIN req' = Requests
    BY <1>2, <1>8 DEF Finish
  <2>2. failed' \in 0 .. MaxFailures
    BY <1>4, <1>8, BoundAssumption DEF TypeOK
  <2>3. TypeOK'
    BY <1>4, <1>8, <2>2 DEF TypeOK, doc
  <2>4. SerialInv' /\ Answered
    BY <2>1, <2>3, EndStep DEF Answered
  <2>5. docs' = before.docs /\ UNCHANGED <<curator, content, status, isSigned>>
    BY <1>3, <1>8 DEF doc
  <2>6. Workflow!Sign(s)
    BY <1>3, <1>8, <2>4, <2>5, SignMap
  <2>7. QED
    BY <2>4, <2>6 DEF Workflow!Next
<1>9. CASE SaveSigning(t)
  <2>1. At(t, "sign") /\ Goto(t, "prune") /\ UNCHANGED <<approvers, doc, docs, used>>
    BY <1>9 DEF SaveSigning
  <2>2. signers' = AfterSigning(s) /\ approvers = before.approvers
    BY <1>3, <1>5, <1>9 DEF SaveSigning, At, Rows, AfterSigning
  <2>3. QED
    BY <1>4, <1>7, <2>1, <2>2
<1>10. CASE PruneApprovers(t)
  <2>1. At(t, "prune") /\ UNCHANGED <<signers, doc, docs, used>>
    BY <1>10 DEF PruneApprovers
  <2>2. signers = AfterSigning(s) /\ approvers = before.approvers
    BY <1>3, <2>1 DEF At, Rows
  <2>3. approvers' = AfterPruning(s)
    BY <1>4, <1>5, <1>10, <2>2 DEF PruneApprovers, AfterPruning
  <2>4. CASE MayHandOver(s)
    <3>1. Goto(t, "hand_over")
      BY <1>4, <1>5, <1>10, <2>4 DEF PruneApprovers, MayHandOver
    <3>2. QED
      BY <1>4, <1>7, <2>1, <2>2, <2>3, <2>4, <3>1
  <2>5. CASE ~MayHandOver(s)
    <3>1. Goto(t, "check")
      BY <1>4, <1>5, <1>10, <2>5 DEF PruneApprovers, MayHandOver
    <3>2. ~AssistantIsNext(s)
      BY <2>5 DEF AssistantIsNext
    <3>3. QED
      BY <1>4, <1>7, <2>1, <2>2, <2>3, <3>1, <3>2
  <2>6. QED
    BY <2>4, <2>5
<1>11. CASE HandOver(t)
  <2>1. At(t, "hand_over") /\ UNCHANGED <<signers, approvers, doc, docs, used>>
    BY <1>11 DEF HandOver, vars
  <2>2. signers = AfterSigning(s) /\ approvers = AfterPruning(s) /\ MayHandOver(s)
    BY <1>3, <2>1 DEF At, Rows
  <2>3. EverythingIsThere(s) <=> AllSignedAndApproved(signers, approvers)
    BY <2>2 DEF EverythingIsThere
  <2>4. AssistantIsNext(s) <=> AllSignedAndApproved(signers, approvers)
    BY <2>2, <2>3 DEF AssistantIsNext
  <2>5. CASE ~AllSignedAndApproved(signers, approvers)
    <3>1. Goto(t, "check")
      BY <1>11, <2>5 DEF HandOver
    <3>2. QED
      BY <1>4, <1>7, <2>1, <2>2, <2>4, <2>5, <3>1
  <2>6. CASE AllSignedAndApproved(signers, approvers) /\ Assistants[curator] = {}
    <3>1. Finish(t)
      BY <1>11, <2>6 DEF HandOver
    <3>2. UNCHANGED <<updates, late, failed>>
      BY <2>1 DEF used
    <3>3. QED
      BY <1>4, <1>8, <2>1, <2>2, <2>4, <2>6, <3>1, <3>2
  <2>7. CASE AllSignedAndApproved(signers, approvers) /\ Assistants[curator] # {}
    <3>1. Goto(t, "create_assistant")
      BY <1>11, <2>7 DEF HandOver
    <3>2. QED
      BY <1>4, <1>7, <2>1, <2>2, <2>4, <2>7, <3>1
  <2>8. QED
    BY <2>5, <2>6, <2>7
<1>12. CASE CreateAssistant(t)
  <2>1. /\ At(t, "create_assistant") /\ Goto(t, "check") /\ UNCHANGED <<signers, doc, docs, used>>
        /\ approvers' \in Created(approvers, FreeApproverIds,
                                  NewApprover(FirstAssistant(curator), Nobody))
    BY <1>12 DEF CreateAssistant
  <2>2. /\ signers = AfterSigning(s) /\ approvers = AfterPruning(s)
        /\ AssistantIsNext(s) /\ Assistants[curator] # {}
    BY <1>3, <2>1 DEF At, Rows
  <2>3. FreeApproverIds = ApproverIds
    BY <2>1, NoKeyIsHeld DEF At
  <2>4. curator \in Curators
    BY <1>4, <2>2 DEF TypeOK, AssistantIsNext, MayHandOver
  <2>5. NewApprover(FirstAssistant(curator), Nobody) \in ApproverRow
    BY <2>2, <2>4, FirstAssistantIsUser, NewRows
  <2>6. IsTable(approvers', ApproverIds, ApproverRow)
    BY <1>4, <2>1, <2>2, <2>3, <2>5, CreatedTable
  <2>7. QED
    BY <1>7, <2>1, <2>2, <2>3, <2>6
<1>13. CASE CheckRegistration(t)
  <2>1. At(t, "check") /\ UNCHANGED <<signers, approvers, doc, docs, used>>
    BY <1>13 DEF CheckRegistration, vars
  <2>2. UNCHANGED <<updates, late, failed>> /\ IsTable(approvers', ApproverIds, ApproverRow)
    BY <1>4, <2>1 DEF used, TypeOK
  <2>3. CASE signers = AfterSigning(s) /\ approvers = AfterPruning(s) /\ ~AssistantIsNext(s)
    <3>1. CASE EverythingIsThere(s)
      <4>1. Goto(t, "open")
        BY <1>13, <2>3, <3>1 DEF CheckRegistration, EverythingIsThere
      <4>2. QED
        BY <1>7, <2>1, <2>2, <2>3, <3>1, <4>1
    <3>2. CASE ~EverythingIsThere(s)
      <4>1. Finish(t)
        BY <1>13, <2>3, <3>2 DEF CheckRegistration, EverythingIsThere
      <4>2. QED
        BY <1>8, <2>1, <2>2, <2>3, <3>2, <4>1
    <3>3. QED
      BY <3>1, <3>2
  <2>4. CASE /\ signers = AfterSigning(s) /\ AssistantIsNext(s) /\ Assistants[curator] # {}
             /\ approvers \in Created(AfterPruning(s), ApproverIds,
                                      NewApprover(FirstAssistant(curator), Nobody))
    <3>1. PICK key : approvers[key].ok = "null" /\ key \in DOMAIN approvers
      <4>1. \E key \in ApproverIds \ DOMAIN AfterPruning(s) :
               /\ DOMAIN approvers = DOMAIN AfterPruning(s) \cup {key}
               /\ approvers[key] = NewApprover(FirstAssistant(curator), Nobody)
        BY <2>4, CreatedRows
      <4>2. QED
        BY <4>1 DEF NewApprover
    <3>2. ~AllSignedAndApproved(signers, approvers)
      BY <3>1 DEF AllSignedAndApproved, AllApproved, Pending
    <3>3. Finish(t)
      BY <1>13, <3>2 DEF CheckRegistration
    <3>4. QED
      BY <1>8, <2>1, <2>2, <2>4, <3>3
  <2>5. QED
    BY <1>3, <2>1, <2>3, <2>4 DEF At, Rows
<1>14. CASE OpenDocument(t)
  <2>1. /\ At(t, "open") /\ UNCHANGED <<signers, approvers, doc, used>>
        /\ docs' = [docs EXCEPT ![content] = @ + 1]
        /\ req' = [req EXCEPT ![t] = [pc |-> "close", compose |-> [ComposeRow EXCEPT !.status = "done",
                                                                                    !.isSigned = TRUE]]]
    BY <1>14 DEF OpenDocument
  <2>2. /\ signers = AfterSigning(s) /\ approvers = AfterPruning(s)
        /\ ~AssistantIsNext(s) /\ EverythingIsThere(s)
    BY <1>3, <2>1 DEF At, Rows
  <2> DEFINE copy == [ComposeRow EXCEPT !.status = "done", !.isSigned = TRUE]
  <2>3. copy.content = content /\ copy.status = "done" /\ copy.isSigned = TRUE
    BY DEF ComposeRow
  <2> HIDE DEF copy
  <2>4. /\ DOMAIN req' = Requests /\ req'[t] = [pc |-> "close", compose |-> copy]
        /\ req'[t].pc = "close" /\ req'[t].compose = copy
    BY <1>2, <2>1 DEF copy
  <2>5. req'[t] # Idle
    BY <2>4, NotIdle
  <2>6. docs' \in [Versions -> Nat] /\ docs' = [before.docs EXCEPT ![content] = @ + 1]
    BY <1>3, <1>4, <2>1
  <2>7. ASSUME before' = before
        PROVE  Where(t)'
    <3>1. /\ s \in DOMAIN before'.signers /\ MayBeSigned(s)'
          /\ docs' = [before'.docs EXCEPT ![content'] = @ + 1]
          /\ Rows(AfterSigning(s), AfterPruning(s))' /\ ~AssistantIsNext(s)' /\ EverythingIsThere(s)'
      BY <1>3, <1>6, <2>1, <2>2, <2>6, <2>7 DEF Rows
    <3>2. /\ req'[t].pc = "close" /\ req'[t].compose.content = content'
          /\ req'[t].compose.status = "done" /\ req'[t].compose.isSigned = TRUE
      BY <1>6, <2>1, <2>3, <2>4, <2>7
    <3>3. Closes(t)'
      BY <3>1, <3>2 DEF Closes
    <3>4. QED
      BY <3>3 DEF Where
  <2>8. IsTable(signers', SignerIds, SignerRow) /\ IsTable(approvers', ApproverIds, ApproverRow)
    BY <1>4, <2>1 DEF TypeOK
  <2>9. QED
    BY <2>1, <2>4, <2>5, <2>6, <2>7, <2>8, MidStep
<1>15. CASE RegistrationFails(t) /\ At(t, "open")
  <2>1. /\ failed < MaxFailures /\ failed' = failed + 1 /\ Finish(t)
        /\ UNCHANGED <<signers, approvers, doc, docs, updates, late>>
    BY <1>15 DEF RegistrationFails
  <2>2. /\ signers = AfterSigning(s) /\ approvers = AfterPruning(s)
        /\ ~AssistantIsNext(s) /\ EverythingIsThere(s)
    BY <1>3, <1>15 DEF At, Rows
  <2>3. QED
    BY <1>4, <1>8, <2>1, <2>2
<1>16. QED
  BY <1>9, <1>10, <1>11, <1>12, <1>13, <1>14, <1>15

(* The end of a registration.                                               *)
LEMMA ClosingServed ==
    ASSUME SerialInv, OneAtATime, Remembers, NEW t \in Requests,
           CloseDocument(t) \/ (RegistrationFails(t) /\ At(t, "close"))
    PROVE  SerialInv' /\ Workflow!Next
<1>1. Closes(t) /\ DOMAIN req = Requests /\ Finish(t) /\ UNCHANGED <<signers, approvers, curator, docs>>
  BY WhereByPlace DEF SerialInv, CloseDocument, RegistrationFails, At, doc
<1>2. PICK s \in DOMAIN before.signers :
        /\ MayBeSigned(s)
        /\ req[t].compose.content = content /\ req[t].compose.status = "done"
        /\ req[t].compose.isSigned = TRUE
        /\ docs = [before.docs EXCEPT ![content] = @ + 1]
        /\ signers = AfterSigning(s) /\ approvers = AfterPruning(s)
        /\ ~AssistantIsNext(s) /\ EverythingIsThere(s)
  BY <1>1 DEF Closes, Rows
<1>3. \/ /\ content' = content /\ status' = "done" /\ isSigned' = TRUE
         /\ UNCHANGED <<updates, late, failed>>
      \/ /\ failed < MaxFailures /\ failed' = failed + 1
         /\ UNCHANGED <<content, status, isSigned, updates, late>>
  <2>1. CASE CloseDocument(t)
    <3>1. SaveCompose(req[t].compose) /\ UNCHANGED used
      BY <2>1 DEF CloseDocument
    <3>2. QED
      BY <1>2, <3>1 DEF SaveCompose, used
  <2>2. CASE RegistrationFails(t)
    BY <2>2 DEF RegistrationFails, doc
  <2>3. QED
    BY <2>1, <2>2
<1>4. req'[t] = Idle /\ DOMAIN req' = Requests
  BY <1>1 DEF Finish
<1>5. failed' \in 0 .. MaxFailures
  BY <1>3, BoundAssumption DEF SerialInv, TypeOK
<1>6. TypeOK'
  BY <1>1, <1>3, <1>5 DEF SerialInv, TypeOK, Statuses
<1>7. SerialInv' /\ Answered
  BY <1>4, <1>6, EndStep DEF Answered
<1>8. Workflow!Sign(s)
  BY <1>1, <1>2, <1>3, <1>7, SignMap
<1>9. QED
  BY <1>7, <1>8 DEF Workflow!Next

(* A change of the text, statement by statement.                            *)
LEMMA EditingServed ==
    ASSUME SerialInv, OneAtATime, Remembers, NEW t \in Requests,
           \/ RemoveCurator(t) \/ RemoveAssistants(t) \/ ResetSigners(t)
           \/ ResetApprovers(t) \/ HideFromSigners(t) \/ SaveText(t)
    PROVE  SerialInv' /\ [Workflow!Next]_(Workflow!vars)
<1>1. req[t].pc \in Editing
  BY DEF RemoveCurator, RemoveAssistants, ResetSigners, ResetApprovers, HideFromSigners, SaveText, At,
         Editing
<1>2. Edits(t) /\ DOMAIN req = Requests
  BY <1>1, WhereByPlace DEF SerialInv
<1>3. /\ IsTable(RemainingSigners, SignerIds, SignerRow)
      /\ IsTable(RemainingApprovers, ApproverIds, ApproverRow)
      /\ IsTable(WithdrawnSigners, SignerIds, SignerRow)
      /\ IsTable(ResetApproverRows, ApproverIds, ApproverRow)
      /\ IsTable(HiddenSigners, SignerIds, SignerRow)
      /\ IsTable(before.approvers, ApproverIds, ApproverRow)
      /\ TypeOK /\ docs \in [Versions -> Nat]
  BY TablesWhileEditing DEF SerialInv, TypeOK
<1> DEFINE copy == [content |-> content + 1, status |-> status, isSigned |-> isSigned]
<1>4. /\ content < MaxEdits /\ docs = before.docs
      /\ req[t] = [pc |-> req[t].pc, compose |-> copy]
      /\ At(t, "remove_curator") => signers = before.signers /\ approvers = before.approvers
      /\ At(t, "remove_assistants") => signers = RemainingSigners /\ approvers = before.approvers
      /\ At(t, "reset_signers") => signers = RemainingSigners /\ approvers = RemainingApprovers
      /\ At(t, "reset_approvers") => signers = WithdrawnSigners /\ approvers = RemainingApprovers
      /\ At(t, "hide") => /\ signers = WithdrawnSigners /\ approvers = ResetApproverRows
                          /\ DOMAIN RemainingApprovers # {}
      /\ At(t, "save_text") =>
           /\ signers = IF DOMAIN RemainingApprovers = {} THEN WithdrawnSigners ELSE HiddenSigners
           /\ approvers = ResetApproverRows
  BY <1>2 DEF Edits, At, Rows
<1> HIDE DEF copy
<1>5. ASSUME NEW pc \in Editing, Goto(t, pc), UNCHANGED <<doc, docs, used>>,
             IsTable(signers', SignerIds, SignerRow), IsTable(approvers', ApproverIds, ApproverRow),
             \/ pc = "remove_assistants" /\ signers' = RemainingSigners /\ approvers' = before.approvers
             \/ pc = "reset_signers" /\ signers' = RemainingSigners /\ approvers' = RemainingApprovers
             \/ pc = "reset_approvers" /\ signers' = WithdrawnSigners /\ approvers' = RemainingApprovers
             \/ /\ pc = "hide" /\ signers' = WithdrawnSigners /\ approvers' = ResetApproverRows
                /\ DOMAIN RemainingApprovers # {}
             \/ /\ pc = "save_text" /\ approvers' = ResetApproverRows
                /\ signers' = IF DOMAIN RemainingApprovers = {} THEN WithdrawnSigners ELSE HiddenSigners
      PROVE  SerialInv' /\ UNCHANGED Workflow!vars
  <2>1. DOMAIN req' = Requests /\ req'[t] = [pc |-> pc, compose |-> copy]
    BY <1>2, <1>4, <1>5, MovesOn DEF Editing
  <2>2. req'[t] # Idle
    BY <2>1, NotIdle DEF Editing
  <2>3. ASSUME before' = before
        PROVE  Where(t)'
    <3>1. UNCHANGED <<curator, content, status, isSigned>>
      BY <1>5 DEF doc
    <3>2. RemainingSigners' = RemainingSigners /\ RemainingApprovers' = RemainingApprovers /\ copy' = copy
      BY <2>3, <3>1 DEF RemainingSigners, RemainingApprovers, copy
    <3>3. WithdrawnSigners' = WithdrawnSigners /\ ResetApproverRows' = ResetApproverRows
      BY <3>2 DEF WithdrawnSigners, ResetApproverRows
    <3>4. HiddenSigners' = HiddenSigners
      BY <3>3 DEF HiddenSigners
    <3>5. Edits(t)'
      BY <1>4, <1>5, <2>1, <2>3, <3>1, <3>2, <3>3, <3>4 DEF Edits, At, Rows, copy
    <3>6. QED
      BY <3>5 DEF Where
  <2>4. QED
    BY <1>3, <1>5, <2>1, <2>2, <2>3, MidStep
<1>6. CASE RemoveCurator(t)
  <2>1. /\ At(t, "remove_curator") /\ Goto(t, "remove_assistants")
        /\ UNCHANGED <<approvers, doc, docs, used>>
        /\ signers' = Without(signers, CuratorRows(signers, curator))
    BY <1>6 DEF RemoveCurator
  <2>2. signers' = RemainingSigners /\ approvers = before.approvers
    BY <1>4, <2>1 DEF RemainingSigners
  <2>3. QED
    BY <1>3, <1>5, <2>1, <2>2 DEF Editing
<1>7. CASE RemoveAssistants(t)
  <2>1. /\ At(t, "remove_assistants") /\ Goto(t, "reset_signers")
        /\ UNCHANGED <<signers, doc, docs, used>>
        /\ approvers' = Without(approvers, AssistantRows(approvers, curator))
    BY <1>7 DEF RemoveAssistants
  <2>2. signers = RemainingSigners /\ approvers' = RemainingApprovers
    BY <1>4, <2>1 DEF RemainingApprovers
  <2>3. QED
    BY <1>3, <1>5, <2>1, <2>2 DEF Editing
<1>8. CASE ResetSigners(t)
  <2>1. /\ At(t, "reset_signers") /\ Goto(t, "reset_approvers")
        /\ UNCHANGED <<approvers, doc, docs, used>>
        /\ signers' = [s \in DOMAIN signers |-> Withdrawn(signers[s])]
    BY <1>8 DEF ResetSigners
  <2>2. signers' = WithdrawnSigners /\ approvers = RemainingApprovers
    BY <1>4, <2>1 DEF WithdrawnSigners
  <2>3. QED
    BY <1>3, <1>5, <2>1, <2>2 DEF Editing
<1>9. CASE ResetApprovers(t)
  <2>1. /\ At(t, "reset_approvers") /\ UNCHANGED <<signers, doc, docs, used>>
        /\ approvers' = [a \in DOMAIN approvers |-> [approvers[a] EXCEPT !.ok = "null"]]
        /\ Goto(t, IF DOMAIN approvers = {} THEN "save_text" ELSE "hide")
    BY <1>9 DEF ResetApprovers
  <2>2. signers = WithdrawnSigners /\ approvers' = ResetApproverRows /\ approvers = RemainingApprovers
    BY <1>4, <2>1 DEF ResetApproverRows
  <2>3. CASE DOMAIN RemainingApprovers = {}
    <3>1. Goto(t, "save_text")
      BY <2>1, <2>2, <2>3
    <3>2. QED
      BY <1>3, <1>5, <2>1, <2>2, <2>3, <3>1 DEF Editing
  <2>4. CASE DOMAIN RemainingApprovers # {}
    <3>1. Goto(t, "hide")
      BY <2>1, <2>2, <2>4
    <3>2. QED
      BY <1>3, <1>5, <2>1, <2>2, <2>4, <3>1 DEF Editing
  <2>5. QED
    BY <2>3, <2>4
<1>10. CASE HideFromSigners(t)
  <2>1. /\ At(t, "hide") /\ Goto(t, "save_text") /\ UNCHANGED <<approvers, doc, docs, used>>
        /\ signers' = [s \in DOMAIN signers |-> [signers[s] EXCEPT !.visible = "no"]]
    BY <1>10 DEF HideFromSigners
  <2>2. signers' = HiddenSigners /\ approvers = ResetApproverRows /\ DOMAIN RemainingApprovers # {}
    BY <1>4, <2>1 DEF HiddenSigners
  <2>3. QED
    BY <1>3, <1>5, <2>1, <2>2 DEF Editing
<1>11. CASE SaveText(t)
  <2>1. /\ At(t, "save_text") /\ SaveCompose(req[t].compose) /\ Finish(t)
        /\ UNCHANGED <<signers, approvers, curator, docs, used>>
    BY <1>11 DEF SaveText
  <2>2. req[t].compose = copy
    BY <1>4
  <2>3. content' = content + 1 /\ status' = status /\ isSigned' = isSigned
    BY <2>1, <2>2 DEF SaveCompose, copy
  <2>4. content' \in Versions
    BY <1>3, <1>4, <2>3, BoundAssumption DEF TypeOK, Versions
  <2>5. TypeOK'
    BY <1>3, <2>1, <2>3, <2>4 DEF TypeOK, used
  <2>6. req'[t] = Idle /\ DOMAIN req' = Requests
    BY <1>2, <2>1 DEF Finish
  <2>7. SerialInv' /\ Answered
    BY <2>5, <2>6, EndStep DEF Answered
  <2>8. Workflow!CustomUpdate
    BY <1>4, <2>1, <2>3, <2>7, EditMap
  <2>9. QED
    BY <2>7, <2>8 DEF Workflow!Next
<1>12. QED
  BY <1>6, <1>7, <1>8, <1>9, <1>10, <1>11

(* add_approvers is one statement.                                          *)
LEMMA AddingServed ==
    ASSUME SerialInv, OneAtATime, Remembers, NEW t \in Requests, req[t] = Idle, UNCHANGED req,
           NEW u \in LateApprovers, NEW by \in Callers, AddApprover(u, by)
    PROVE  SerialInv' /\ Workflow!Next
<1>1. Rests(t) /\ TypeOK /\ req'[t] = Idle /\ DOMAIN req' = Requests
  BY WhereByPlace DEF SerialInv
<1>2. NewApprover(u, by) \in ApproverRow
  BY RowAssumption, NewRows
<1>3. IsTable(approvers', ApproverIds, ApproverRow)
  BY <1>1, <1>2, CreatedTable DEF AddApprover, TypeOK
<1>4. late' \in 0 .. MaxLate
  BY <1>1, BoundAssumption DEF AddApprover, TypeOK
<1>5. TypeOK'
  BY <1>1, <1>3, <1>4 DEF AddApprover, TypeOK, doc
<1>6. SerialInv' /\ Answered
  BY <1>1, <1>5, EndStep DEF Answered
<1>7. Workflow!AddApprover(u, by)
  BY <1>1, <1>6, AddApproverMap
<1>8. QED
  BY <1>6, <1>7 DEF Workflow!Next

(* Every statement of a request is a stutter of ComposeWorkflow or, where   *)
(* the request is through, its one step.                                    *)
LEMMA StatementServed ==
    ASSUME SerialInv, OneAtATime, [SerialNext]_<<requestVars, before>>
    PROVE  SerialInv' /\ [Workflow!Next]_(Workflow!vars)
<1>1. CASE SerialNext
  <2>1. Remembers
    BY <1>1 DEF SerialNext, Remembers
  <2>2. PICK t \in Requests : Answer(t) \/ Change(t) \/ RegistrationFails(t)
    BY <1>1 DEF SerialNext, RequestNext
  <2>3. CASE \/ \E a \in DOMAIN approvers :
                   LoadApproval(t, a) \/ LoadRefusal(t, a) \/ LoadApproverRow(t, a)
             \/ \E s \in DOMAIN signers :
                   LoadSigning(t, s) \/ LoadRejection(t, s) \/ LoadSignerRow(t, s)
             \/ LoadEdit(t)
    BY <2>1, <2>3, BeginServed
  <2>4. CASE SaveApproval(t) \/ ShowToSigners(t) \/ AskCurator(t) \/ CreateCurator(t)
    BY <2>1, <2>4, ApprovingServed
  <2>5. CASE SaveRefusal(t) \/ SaveRejection(t) \/ SaveDeclined(t)
    BY <2>1, <2>5, RefusingServed
  <2>6. CASE \/ SaveSigning(t) \/ PruneApprovers(t) \/ HandOver(t) \/ CreateAssistant(t)
             \/ CheckRegistration(t) \/ OpenDocument(t)
             \/ RegistrationFails(t) /\ At(t, "open")
    BY <2>1, <2>6, SigningServed
  <2>7. CASE CloseDocument(t) \/ (RegistrationFails(t) /\ At(t, "close"))
    BY <2>1, <2>7, ClosingServed
  <2>8. CASE \/ RemoveCurator(t) \/ RemoveAssistants(t) \/ ResetSigners(t)
             \/ ResetApprovers(t) \/ HideFromSigners(t) \/ SaveText(t)
    BY <2>1, <2>8, EditingServed
  <2>9. CASE /\ req[t] = Idle
             /\ \E u \in LateApprovers, by \in Callers : AddApprover(u, by)
             /\ UNCHANGED req
    BY <2>1, <2>9, AddingServed
  <2>10. CASE SaveApproverRow(t) \/ SaveSignerRow(t)
    BY <2>1, <2>10, ReadingServed
  <2>11. RegistrationFails(t) => At(t, "open") \/ At(t, "close")
    BY DEF RegistrationFails, At
  <2>12. QED
    BY <2>2, <2>3, <2>4, <2>5, <2>6, <2>7, <2>8, <2>9, <2>10, <2>11 DEF Answer, Change
<1>2. CASE UNCHANGED <<requestVars, before>>
  <2>1. UNCHANGED <<signers, approvers, curator, content, status, isSigned, docs, updates, late, failed,
                    req, before>>
    BY <1>2 DEF requestVars, vars, doc, used
  <2>2. ASSUME NEW t \in Requests
        PROVE  Where(t)'
    <3>1. Where(t)
      BY DEF SerialInv
    <3>2. Where(t)' = Where(t)
      BY <2>1 DEF Where, Rests, Approves, Signs, Closes, Refuses, Rejects, Edits,
                  ReadsApprover, ReadsSigner, At, Rows,
                  ApprovedRow, AfterApproval, AfterShowing, CuratorIsNext, IsAssistant, SignedRow,
                  AfterSigning, AfterPruning, EverythingIsThere, MayHandOver, AssistantIsNext,
                  MayBeSigned, RefusedRow, RejectedRow, RemainingSigners, RemainingApprovers,
                  WithdrawnSigners, ResetApproverRows, HiddenSigners
    <3>3. QED
      BY <3>1, <3>2
  <2>3. SerialInv'
    BY <2>1, <2>2 DEF SerialInv, TypeOK, ComposeKept
  <2>4. UNCHANGED Workflow!vars
    BY <2>1 DEF Workflow!vars, Workflow!doc, Workflow!used
  <2>5. QED
    BY <2>3, <2>4
<1>3. QED
  BY <1>1, <1>2

(* Before the first request the two agree.                                  *)
LEMMA SerialBegins ==
    ASSUME SerialInit
    PROVE  SerialInv
<1>1. TypeOK
  BY InitTypeOK DEF SerialInit, RequestInit
<1>2. /\ before.signers = signers /\ before.approvers = approvers /\ before.curator = curator
      /\ before.content = content /\ before.status = status /\ before.isSigned = isSigned
      /\ before.docs = docs /\ before.updates = updates /\ before.late = late /\ before.failed = failed
  BY DEF SerialInit, Database
<1>3. req = [t \in Requests |-> Idle]
  BY DEF SerialInit, RequestInit
<1>4. \A t \in Requests : Where(t)
  BY <1>2, <1>3 DEF Where, Rests, Rows
<1>5. QED
  BY <1>1, <1>2, <1>3, <1>4 DEF SerialInv, TypeOK, ComposeKept

(* With one request at a time, the statements of the handlers of approve,   *)
(* sign, reject, custom_update and add_approvers add up to the one step     *)
(* that ComposeWorkflow takes for each, and those of retrieve to none: what *)
(* is proved of it holds of the database between requests.                  *)
THEOREM OneRequestIsOneStep ==
    ASSUME OneAtATime
    PROVE  SerialSpec => ImplementsWorkflow
<1>1. SerialInit => SerialInv /\ Workflow!Init
  BY SerialBegins, FirstMap
<1>2. SerialInv /\ [SerialNext]_<<requestVars, before>> => SerialInv' /\ [Workflow!Next]_(Workflow!vars)
  BY StatementServed
<1>3. QED
  BY <1>1, <1>2, PTL DEF SerialSpec, ImplementsWorkflow, Workflow!Spec
=============================================================================
