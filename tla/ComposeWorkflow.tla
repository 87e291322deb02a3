--------------------------- MODULE ComposeWorkflow ---------------------------
(****************************************************************************)
(* The signing workflow of one composed document (apps/compose), with every *)
(* request handler taken as one step.  The document carries two sets of     *)
(* rows, Approver and Signer; approvers agree first, signers sign next, and *)
(* when the document has a curator the curator's assistant and then the     *)
(* curator are asked last.  The signature that completes the set registers  *)
(* the document: it creates a BaseDocument and marks the compose done.      *)
(*                                                                          *)
(* A function whose DOMAIN is the set of live row ids stands for a table.   *)
(* NULL, True and False of a nullable BooleanField are "null", "yes", "no". *)
(* The text of the document is abstracted to the number of times it changed.*)
(****************************************************************************)
EXTENDS Integers, FiniteSets, Functions

CONSTANTS
    Users,          \* the people who may hold a row
    Curators,       \* those who may be the curator of the document
    Assistants,     \* curator -> the active assistants of that curator
    Nobody,         \* a null foreign key
    SignerIds,      \* primary keys available to Signer rows (a bound)
    ApproverIds,    \* primary keys available to Approver rows (a bound)
    AskedSigners,   \* row id -> user: the signers an author may ask at creation
    AskedApprovers, \* row id -> user: the approvers an author may ask at creation
    LateApprovers,  \* users who may be named in a call of add-approvers
    Callers,        \* users who may call add-approvers
    SkipsApproval,  \* is the document an ACT_SERVICE_CONTRACT_WORKS?
    MaxEdits,       \* bound on text changes
    MaxUpdates,     \* bound on updates by the author
    MaxLate,        \* bound on approvers added by add-approvers
    MaxFailures     \* bound on registrations that break off

ASSUME RowAssumption ==
    /\ Nobody \notin Users
    /\ Curators \subseteq Users
    /\ Assistants \in [Curators -> SUBSET Users]
    /\ SignerIds \subseteq Nat
    /\ ApproverIds \subseteq Nat
    /\ DOMAIN AskedSigners \subseteq SignerIds
    /\ DOMAIN AskedApprovers \subseteq ApproverIds
    /\ \A s \in DOMAIN AskedSigners : AskedSigners[s] \in Users
    /\ \A a \in DOMAIN AskedApprovers : AskedApprovers[a] \in Users
    /\ LateApprovers \subseteq Users
    /\ Callers \subseteq Users
    /\ SkipsApproval \in BOOLEAN

ASSUME BoundAssumption ==
    /\ MaxEdits \in Nat
    /\ MaxUpdates \in Nat
    /\ MaxLate \in Nat
    /\ MaxFailures \in Nat

VARIABLES
    signers,    \* Signer rows: user, kind, is_signed, is_all_approved, text signed
    approvers,  \* Approver rows: user, added_by, is_approved
    curator,    \* Compose.curator, or Nobody
    content,    \* version of Compose.content
    status,     \* Compose.status
    isSigned,   \* Compose.is_signed
    docs,       \* version of the text -> number of its BaseDocuments
    updates,    \* author updates so far
    late,       \* approvers added by add-approvers so far
    failed      \* registrations that broke off so far

doc  == <<curator, content, status, isSigned>>
used == <<updates, late, failed>>
vars == <<signers, approvers, doc, docs, used>>

Tri      == {"null", "yes", "no"}
Kinds    == {"signer", "basic_signer"} \* negotiator and invited behave as signer
Statuses == {"default", "done", "declined_from_approver", "declined_from_signer"}
Versions == 0 .. MaxEdits
Unsigned == -1                         \* the text version of an unsigned row

SignerRow   == [user : Users, kind : Kinds, signed : Tri, visible : Tri,
                over : Versions \cup {Unsigned}]
ApproverRow == [user : Users, addedBy : Users \cup {Nobody}, ok : Tri]

-----------------------------------------------------------------------------
(* Tables: deleting rows, and inserting a row under the next free key.      *)

IsTable(table, ids, rows) ==
    DOMAIN table \subseteq ids /\ table \in [DOMAIN table -> rows]
Without(table, rows) == Restrict(table, DOMAIN table \ rows)
Insert(table, key, row) ==
    [k \in DOMAIN table \cup {key} |-> IF k = key THEN row ELSE table[k]]
NextKeys(ids, table) ==
    {key \in ids \ DOMAIN table : \A k \in ids \ DOMAIN table : key <= k}
Created(table, ids, row) == {Insert(table, key, row) : key \in NextKeys(ids, table)}

NewSigner(user, kind, visible) ==
    [user |-> user, kind |-> kind, signed |-> "null", visible |-> visible, over |-> Unsigned]
Withdrawn(row) == [row EXCEPT !.signed = "null", !.over = Unsigned]
NewApprover(user, by) == [user |-> user, addedBy |-> by, ok |-> "null"]

Pending(A) == {a \in DOMAIN A : A[a].ok # "yes"}
AllApproved(A) == Pending(A) = {}
AllSigned(S) == \A s \in DOMAIN S : S[s].signed = "yes"
AllSignedAndApproved(S, A) == AllSigned(S) /\ AllApproved(A)

(* The rows that exist for a curator: his own signer row, and the approver  *)
(* rows of his assistants.                                                  *)
CuratorRows(S, c) == {s \in DOMAIN S : S[s].user = c /\ S[s].kind = "basic_signer"}
AssistantRows(A, c) ==
    IF c \in Curators THEN {a \in DOMAIN A : A[a].user \in Assistants[c]} ELSE {}

(* curator.assistants.filter(is_active=True).first()                        *)
FirstAssistant(c) == CHOOSE u \in Assistants[c] : TRUE

-----------------------------------------------------------------------------
(* Registration of the current text, given the BaseDocuments D that exist.  *)
(* Between the BaseDocument and the last save of the compose stand the      *)
(* assignment, the PDF and the file store; an exception in any of them, or  *)
(* before the BaseDocument is there, breaks the registration off.           *)

Register(D) ==
    /\ docs' = [D EXCEPT ![content] = @ + 1]
    /\ status' = "done"
    /\ isSigned' = TRUE
    /\ UNCHANGED failed

BreakOff(D) ==
    /\ failed < MaxFailures
    /\ failed' = failed + 1
    /\ docs' = D \/ docs' = [D EXCEPT ![content] = @ + 1]
    /\ UNCHANGED <<status, isSigned>>

(* Slip: a document that is done is not registered again. *)
Slip_RegisterOnce(S, A, D) ==
    \/ AllSignedAndApproved(S, A) /\ status # "done" /\ (Register(D) \/ BreakOff(D))
    \/ /\ ~AllSignedAndApproved(S, A) \/ status = "done"
       /\ docs' = D
       /\ UNCHANGED <<status, isSigned, failed>>

RegisterDocumentAfterSigning(S, A, D) ==
    \/ AllSignedAndApproved(S, A) /\ Register(D)
    \/ AllSignedAndApproved(S, A) /\ BreakOff(D)
    \/ /\ ~AllSignedAndApproved(S, A)
       /\ docs' = D
       /\ UNCHANGED <<status, isSigned, failed>>

-----------------------------------------------------------------------------
(* ApproveViewSet                                                           *)

(* Slip: the approver who just approved decides alone. *)
Slip_VisibleAtOnce(S, A) == [s \in DOMAIN S |-> [S[s] EXCEPT !.visible = "yes"]]
(* Slip: documents without approvals still to come are left hidden. *)
Slip_StayHidden(S, A) ==
    IF Pending(approvers) # {} /\ AllApproved(A) THEN S
    ELSE [s \in DOMAIN S |-> [S[s] EXCEPT !.visible = "yes"]]

MakeVisibleToSigners(S, A) ==
    IF AllApproved(A) THEN [s \in DOMAIN S |-> [S[s] EXCEPT !.visible = "yes"]] ELSE S

(* Slip: the assistant's approval is enough to ask the curator. *)
Slip_AskAtOnce(a, S, A) == a \in AssistantRows(A, curator)

(* Only the approval of an assistant of the curator asks the curator.       *)
AsksCurator(a, S, A) ==
    /\ a \in AssistantRows(A, curator)
    /\ AllSignedAndApproved(S, A)

Approve(a) ==
    LET A == [approvers EXCEPT ![a].ok = "yes"]
        S == MakeVisibleToSigners(signers, A)
    IN  /\ approvers[a].ok # "yes"
        /\ approvers' = A
        /\ \/ ~AsksCurator(a, S, A) /\ signers' = S
           \/ /\ AsksCurator(a, S, A)
              /\ signers' \in Created(S, SignerIds, NewSigner(curator, "basic_signer", "yes"))
        /\ UNCHANGED <<doc, docs, used>>

RejectApproval(a) ==
    /\ approvers[a].ok = "null"
    /\ approvers' = [approvers EXCEPT ![a].ok = "no"]
    /\ status' = "declined_from_approver"
    /\ UNCHANGED <<signers, curator, content, isSigned, docs, used>>

-----------------------------------------------------------------------------
(* SignerViewSet                                                            *)

(* Slip: whoever has signed may sign again. *)
Slip_MaySignAgain(s) == signers[s].visible = "yes" \/ SkipsApproval

MaySign(s) ==
    /\ signers[s].signed # "yes"
    /\ signers[s].visible = "yes" \/ SkipsApproval

Signed(s) == [signers EXCEPT ![s].signed = "yes", ![s].visible = "yes", ![s].over = content]

(* The approvers this signer had added and who have not agreed are deleted. *)
Pruned(s) == Without(approvers, {a \in Pending(approvers) : approvers[a].addedBy = signers[s].user})

(* Slip: the excluded types instead of the included ones. *)
Slip_HandOverByCurator(s, S, A) ==
    /\ signers[s].kind = "basic_signer"
    /\ curator # Nobody
    /\ AllSignedAndApproved(S, A)

HandsOver(s, S, A) ==
    /\ signers[s].kind # "basic_signer"
    /\ curator # Nobody
    /\ AllSignedAndApproved(S, A)

(* Slip: a row is created whether or not there is an assistant. *)
Slip_AssistantOrNobody(A) ==
    approvers' \in Created(A, ApproverIds,
        NewApprover(IF Assistants[curator] = {} THEN Nobody ELSE FirstAssistant(curator), Nobody))

(* A curator without an active assistant: AttributeError, the rows saved so *)
(* far stay and nothing is registered.                                      *)
SendToCuratorAssistant(A) ==
    \/ Assistants[curator] = {} /\ approvers' = A
    \/ /\ Assistants[curator] # {}
       /\ approvers' \in Created(A, ApproverIds, NewApprover(FirstAssistant(curator), Nobody))

Sign(s) ==
    LET S == Signed(s)
        A == Pruned(s)
    IN  /\ MaySign(s)
        /\ signers' = S
        /\ \/ /\ HandsOver(s, S, A)
              /\ SendToCuratorAssistant(A)
              /\ UNCHANGED <<docs, status, isSigned, failed>>
           \/ /\ ~HandsOver(s, S, A)
              /\ approvers' = A
              /\ RegisterDocumentAfterSigning(S, A, docs)
        /\ UNCHANGED <<curator, content, updates, late>>

RejectSigning(s) ==
    /\ signers[s].signed = "null"
    /\ signers' = [signers EXCEPT ![s].signed = "no"]
    /\ status' = "declined_from_signer"
    /\ UNCHANGED <<approvers, curator, content, isSigned, docs, used>>

AddApprover(u, by) ==
    /\ late < MaxLate
    /\ ~ \E a \in DOMAIN approvers : approvers[a].user = u /\ approvers[a].addedBy = by
    /\ approvers' \in Created(approvers, ApproverIds, NewApprover(u, by))
    /\ late' = late + 1
    /\ UNCHANGED <<signers, doc, docs, updates, failed>>

-----------------------------------------------------------------------------
(* ComposeViewSet.custom_update with a changed text.  The status and        *)
(* Compose.is_signed keep their values.                                     *)

CustomUpdate ==
    LET S == Without(signers, CuratorRows(signers, curator))
        A == Without(approvers, AssistantRows(approvers, curator))
        hidden == IF DOMAIN A = {} THEN S ELSE [s \in DOMAIN S |-> [S[s] EXCEPT !.visible = "no"]]
    IN  /\ content < MaxEdits
        /\ content' = content + 1
        /\ signers' = [s \in DOMAIN S |-> Withdrawn(hidden[s])]
        /\ approvers' = [a \in DOMAIN A |-> [A[a] EXCEPT !.ok = "null"]]
        /\ UNCHANGED <<curator, status, isSigned, docs, used>>

-----------------------------------------------------------------------------
(* ComposeViewSet.update: the author sends the text, the curator and the    *)
(* lists of approvers and signers.  The handler keys the existing rows by   *)
(* user, so of several rows of one user a single one, the entry, is seen.   *)

UsersOf(table, rows) == {table[r].user : r \in rows}

Entries(table) ==
    {rows \in SUBSET DOMAIN table :
        /\ UsersOf(table, rows) = UsersOf(table, DOMAIN table)
        /\ \A r, q \in rows : table[r].user = table[q].user => r = q}

Listed(table, entries, list) == {r \in entries : table[r].user \in list}

(* New rows of a list: at most one per call (a bound).                      *)
Asked(table, list) == list \ UsersOf(table, DOMAIN table)

(* Approvers added by a signer who leaves the list are deleted first; then  *)
(* listed rows are kept (and reset if the text changed), the others deleted.*)
AddedByRemoved(A, list) ==
    {a \in DOMAIN A : A[a].addedBy \in UsersOf(signers, DOMAIN signers) \ list}

KeptApprovers(A, entries, list, edited) ==
    LET kept == Listed(A, entries, list)
        B == Without(A, entries \ kept)
    IN  [a \in DOMAIN B |-> IF edited /\ a \in kept THEN [B[a] EXCEPT !.ok = "null"] ELSE B[a]]

(* The listed signer rows are visited in the order of the list, each asking *)
(* the database again whether an approver is pending.  When the text        *)
(* changed, a visit that finds one withdraws the signature and deletes the  *)
(* rows of the curator and his assistants, so later visits may find none;   *)
(* and saving a listed curator row after its deletion inserts it again.     *)
Withdraws(A, kept, edited) == edited /\ Pending(A) # {} /\ kept # {}
Removes(A, kept, edited, c) == Withdraws(A, kept, edited) /\ c # Nobody
AfterFirstVisit(A, kept, edited, c) ==
    IF Removes(A, kept, edited, c) THEN Without(A, AssistantRows(A, c)) ELSE A

PendingAt(s, A, kept, edited, c, order) ==
    Pending(IF s = order[1] THEN A ELSE AfterFirstVisit(A, kept, edited, c)) # {}

(* Slip: only the visibility is reset. *)
Slip_VisitKeepsSignature(row, edited, pending) ==
    [row EXCEPT !.visible = IF ~pending THEN "yes" ELSE IF edited THEN "null" ELSE "no"]

Visited(row, edited, pending) ==
    IF edited /\ pending THEN [Withdrawn(row) EXCEPT !.visible = "null"]
    ELSE [row EXCEPT !.visible = IF pending THEN "no" ELSE "yes"]

RemovedRows(A, kept, edited, c, order) ==
    IF ~Removes(A, kept, edited, c) THEN {}
    ELSE {s \in CuratorRows(signers, c) :
            s \in kept => Pending(AfterFirstVisit(A, kept, edited, c)) # {} /\ s # order[2]}

KeptSigners(A, entries, list, edited, c, order) ==
    LET kept == Listed(signers, entries, list)
        S == Without(signers, (entries \ kept) \cup RemovedRows(A, kept, edited, c, order))
    IN  [s \in DOMAIN S |->
           IF s \in kept THEN Visited(S[s], edited, PendingAt(s, A, kept, edited, c, order))
           ELSE S[s]]

(* Afterwards the listed users who have no row get one: an approver before  *)
(* the signers are visited, a signer after it, hidden if the text changed.  *)
WithNew(table, ids, rows) ==
    IF rows = {} THEN {table} ELSE UNION {Created(table, ids, row) : row \in rows}

NewVisible(A, edited) ==
    IF edited THEN "null" ELSE IF Pending(A) = {} THEN "yes" ELSE "no"

(* The rows visited first and last (0 where no row is).                     *)
VisitOrders(kept) ==
    IF kept = {} THEN {<<0, 0>>}
    ELSE {o \in kept \X kept : o[1] = o[2] <=> kept = {o[1]}}

(* A changed text resets the status.  Otherwise a new curator displaces the *)
(* old one, and the assistant of the new one is asked if all have signed:   *)
(* without an assistant the list index is out of range, after the deletions.*)
Displaces(edited, c) == ~edited /\ curator # Nobody /\ c # Nobody /\ c # curator

AskAssistantOf(c, S, A) ==
    \/ (~AllSigned(S) \/ Assistants[c] = {}) /\ approvers' = A
    \/ /\ AllSigned(S) /\ Assistants[c] # {}
       /\ approvers' \in Created(A, ApproverIds, NewApprover(FirstAssistant(c), Nobody))

(* One call of update: edited says whether the text changed, c is the       *)
(* curator sent, listA and listS the users of the two lists.                *)
UpdateRows(edited, c, listA, listS) ==
    LET A0 == Without(approvers, AddedByRemoved(approvers, listS))
        newA == {NewApprover(u, Nobody) : u \in Asked(A0, listA)}
    IN  /\ Cardinality(newA) <= 1 /\ Cardinality(Asked(signers, listS)) <= 1
        /\ \E entriesA \in Entries(A0), entriesS \in Entries(signers) :
           \E A1 \in WithNew(KeptApprovers(A0, entriesA, listA, edited), ApproverIds, newA),
              order \in VisitOrders(Listed(signers, entriesS, listS)) :
             LET kept == Listed(signers, entriesS, listS)
                 newS == {NewSigner(u, "signer", NewVisible(A1, edited)) : u \in Asked(signers, listS)}
                 A2 == AfterFirstVisit(A1, kept, edited, c)
             IN  \E S \in WithNew(KeptSigners(A1, entriesS, listS, edited, c, order), SignerIds, newS) :
                   \/ /\ ~Displaces(edited, c)
                      /\ signers' = S
                      /\ approvers' = A2
                   \/ /\ Displaces(edited, c)
                      /\ signers' = Without(S, CuratorRows(S, curator))
                      /\ AskAssistantOf(c, signers', Without(A2, AssistantRows(A2, curator)))

AuthorUpdate ==
    /\ status # "done"
    /\ updates < MaxUpdates
    /\ updates' = updates + 1
    /\ \E edited \in BOOLEAN, c \in Curators \cup {Nobody},
          listA \in SUBSET (UsersOf(approvers, DOMAIN approvers) \cup Range(AskedApprovers)),
          listS \in (SUBSET (UsersOf(signers, DOMAIN signers) \cup Range(AskedSigners))) \ {{}} :
            /\ edited => content < MaxEdits
            /\ content' = IF edited THEN content + 1 ELSE content
            /\ curator' = c
            /\ status' = IF edited THEN "default" ELSE status
            /\ UpdateRows(edited, c, listA, listS)
    /\ UNCHANGED <<isSigned, docs, late, failed>>

-----------------------------------------------------------------------------
(* RestoreCompose: the BaseDocuments are deleted before anything is asked.  *)

RestoreCompose ==
    /\ RegisterDocumentAfterSigning(signers, approvers, [v \in Versions |-> 0])
    /\ UNCHANGED <<signers, approvers, curator, content, updates, late>>

-----------------------------------------------------------------------------
(* ComposeSerializer.create: one transaction.  A row of kind basic_signer   *)
(* is asked by the author only where there is no curator to ask last.       *)

Init ==
    /\ curator \in Curators \cup {Nobody}
    /\ \E S \in (SUBSET DOMAIN AskedSigners) \ {{}}, A \in SUBSET DOMAIN AskedApprovers,
          kind \in Kinds :
         /\ curator # Nobody => kind = "signer"
         /\ signers = [s \in S |->
                NewSigner(AskedSigners[s], kind, IF A = {} THEN "yes" ELSE "null")]
         /\ approvers = [a \in A |-> NewApprover(AskedApprovers[a], Nobody)]
    /\ content = 0
    /\ status = "default"
    /\ isSigned = FALSE
    /\ docs = [v \in Versions |-> 0]
    /\ updates = 0 /\ late = 0 /\ failed = 0

Next ==
    \/ \E a \in DOMAIN approvers : Approve(a) \/ RejectApproval(a)
    \/ \E s \in DOMAIN signers : Sign(s) \/ RejectSigning(s)
    \/ \E u \in LateApprovers, by \in Callers : AddApprover(u, by)
    \/ CustomUpdate
    \/ AuthorUpdate
    \/ RestoreCompose

Spec == Init /\ [][Next]_vars

(* Everyone who is asked answers in the end: an approver approves, a signer *)
(* who may sign signs and the registration it may start does not break off. *)
Fairness ==
    /\ \A a \in ApproverIds : WF_vars(a \in DOMAIN approvers /\ Approve(a))
    /\ \A s \in SignerIds : WF_vars(s \in DOMAIN signers /\ Sign(s) /\ UNCHANGED failed)

FairSpec == Spec /\ Fairness

-----------------------------------------------------------------------------
TypeOK ==
    /\ IsTable(signers, SignerIds, SignerRow)
    /\ IsTable(approvers, ApproverIds, ApproverRow)
    /\ curator \in Curators \cup {Nobody}
    /\ content \in Versions
    /\ status \in Statuses
    /\ isSigned \in BOOLEAN
    /\ docs \in [Versions -> Nat]
    /\ updates \in 0 .. MaxUpdates
    /\ late \in 0 .. MaxLate
    /\ failed \in 0 .. MaxFailures

(* A text is registered once.  Only an approver added by add-approvers and  *)
(* a registration that broke off can each bring about one more BaseDocument *)
(* of the same text, whatever the order of approvals, signatures, edits,    *)
(* updates and restores.                                                    *)
OneDocumentPerText == \A v \in Versions : docs[v] <= 1 + late + failed

(* The author's update keys rows by user: of two signer rows of one user    *)
(* the second is out of its sight.                                          *)
NoTwins == \A r, q \in DOMAIN signers : signers[r].user = signers[q].user => r = q

(* A signature survives a change of the text only when nobody is left who   *)
(* still has to approve the new text.                                       *)
EditWithdrawsSignatures ==
    [][(/\ content' # content
        /\ NoTwins
        /\ \E s \in DOMAIN signers' : signers'[s].signed = "yes")
          => AllApproved(approvers')]_vars

(* A signer who sees the document and has not signed sees it with every     *)
(* approval given, and no request but one that adds an approver on the side *)
(* changes that.                                                            *)
SeenTooEarly ==
    \E s \in DOMAIN signers :
       signers[s].visible = "yes" /\ signers[s].signed # "yes" /\ ~AllApproved(approvers)

VisibleAfterApproval ==
    [][~SeenTooEarly /\ late' = late /\ NoTwins => ~SeenTooEarly']_vars

(* The curator is asked for the final signature: while his own is missing   *)
(* every other signature is there, unless the author changed the lists.     *)
CuratorAskedLast ==
    (updates = 0 /\ curator # Nobody) =>
        \A c \in CuratorRows(signers, curator) : signers[c].signed # "yes" =>
            \A s \in DOMAIN signers \ CuratorRows(signers, curator) : signers[s].signed = "yes"

(* A document with a curator is registered by a signature only once the     *)
(* curator signed.                                                          *)
CuratorSignsBeforeRegistration ==
    [][(docs' # docs /\ curator # Nobody /\ updates = 0 /\ \E s \in DOMAIN signers : Sign(s))
         => \E c \in CuratorRows(signers', curator) : signers'[c].signed = "yes"]_vars

(* If everyone asked answers, the text the document ends up with is         *)
(* registered for good, however often approvals and signatures were refused *)
(* or withdrawn by edits.  Only a curator without an assistant, whom nobody *)
(* asks, keeps a document open.                                             *)
EventuallyRegistered ==
    <>[](docs[content] >= 1 \/ (curator # Nobody /\ Assistants[curator] = {}))

(* The docstring of make_visible_to_signers, "making the document visible   *)
(* to signers after all approvers have approved the document": a signer     *)
(* never waits for an approval that nobody is left to give.                 *)
VisibleOnceAllApproved ==
    AllApproved(approvers) => \A s \in DOMAIN signers : signers[s].visible = "yes"

(* The comment in sign, "register as the base document after all signers    *)
(* have signed the document": with every signature and approval there, the  *)
(* text is registered.                                                      *)
RegisteredOnceAllSigned ==
    AllSignedAndApproved(signers, approvers) => docs[content] >= 1

(* The docstring of remove_curator_and_assistant, "If the document has been *)
(* changed, [...] the document will be sent to the approvers and signers    *)
(* again": no signature on an older text stands.                            *)
SignedTextIsCurrent ==
    \A s \in DOMAIN signers : signers[s].signed = "yes" => signers[s].over = content
=============================================================================
