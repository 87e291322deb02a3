------------------------------- MODULE DocFlow -------------------------------
(****************************************************************************)
(* One registered document under review and execution: its reviewers, the   *)
(* assignments (resolutions) they give, the assignees who carry them out,   *)
(* and the inbox that signals on every saved or deleted reviewer and        *)
(* assignee derive from these tables.                                       *)
(*                                                                          *)
(* A table is a function whose domain is its live row ids.  Every action is *)
(* a whole request.  The inbox is unique per user and kind, so the review   *)
(* items are a set of users, and the execution items a function from a user *)
(* to the assignment of his item.                                           *)
(****************************************************************************)
EXTENDS Naturals, FiniteSets, Functions

CONSTANTS
    Users,          \* people
    Assisted,       \* the people who have an assistant
    Listed,         \* the sets of reviewers an author may register a document with
    ReviewerIds,    \* row keys
    AssignmentIds,
    AssigneeIds,
    MaxChanges,     \* bounds on the requests that change who reviews, and who executes
    MaxList         \* bound on the assignees one request names

ASSUME DocFlowAssumption ==
    /\ Assisted \subseteq Users
    /\ Listed \subseteq SUBSET Users
    /\ MaxChanges \in [{"review", "execute"} -> Nat]
    /\ MaxList \in Nat

VARIABLES
    reviewers,    \* id -> row
    assignments,  \* id -> row; "above" holds its parent, the parent's parent, ...
    assignees,    \* id -> row
    toReview,     \* the users with an item to_review
    toExecute,    \* user -> the assignment his item to_execute names
    changes       \* how many there were

docVars == <<reviewers, assignments, assignees, toReview, toExecute, changes>>

Statuses == {"default", "in_progress", "on_hold", "done"}

ReviewerRow == [user : Users, status : Statuses \cup {"none"}, read : BOOLEAN, hasResolution : BOOLEAN]
AssignmentRow == [reviewer : ReviewerIds, by : Users, project : BOOLEAN,
                  verified : BOOLEAN, above : SUBSET AssignmentIds]
AssigneeRow == [assignment : AssignmentIds, user : Users, controller : BOOLEAN,
                read : BOOLEAN, performed : BOOLEAN, status : Statuses]

IsTable(rows, Keys, Row) == DOMAIN rows \subseteq Keys /\ rows \in [DOMAIN rows -> Row]

NoRows == [i \in {} |-> i]

NewReviewer(u, status) == [user |-> u, status |-> status, read |-> FALSE, hasResolution |-> FALSE]
NewAssignee(a, u, controller) ==
    [assignment |-> a, user |-> u, controller |-> controller,
     read |-> FALSE, performed |-> FALSE, status |-> "default"]

UsersIn(rows) == {rows[i].user : i \in DOMAIN rows}
AssigneesOf(rows, a) == {p \in DOMAIN rows : rows[p].assignment = a}
UsersOf(rows, a) == {rows[p].user : p \in AssigneesOf(rows, a)}
AssignmentsOf(r) == {a \in DOMAIN assignments : assignments[a].reviewer = r}
Insert(rows, new) == [i \in DOMAIN rows \cup DOMAIN new |-> IF i \in DOMAIN new THEN new[i] ELSE rows[i]]

(* Lists a request may send: distinct users with their controller flags.    *)
Lists(us) == UNION {[U -> BOOLEAN] : U \in {V \in SUBSET us : V # {} /\ Cardinality(V) <= MaxList}}
(* The keys the rows of a list get.                                         *)
Numberings(Keys, U) == UNION {{f \in [K -> U] : IsInjective(f) /\ Range(f) = U} :
                              K \in {L \in SUBSET Keys : Cardinality(L) = Cardinality(U)}}

-----------------------------------------------------------------------------
(* The fan-out: the signal handlers compare the table with the inbox, add   *)
(* what is missing and delete what is too much.                             *)

SyncFanoutToReview(rows) == toReview' = UsersIn(rows)

(* Slip: the fan-out only adds. *)
Slip_NoDeletion(items, a, target) ==
    [u \in target \cup DOMAIN items |-> IF u \in DOMAIN items THEN items[u] ELSE a]

(* For the assignees of assignment a the target is a's users, but what is   *)
(* compared are the items of the whole document.                            *)
SyncFanoutToAssignee(items, a, target) ==
    [u \in target |-> IF u \in DOMAIN items THEN items[u] ELSE a]

Counted(kind) == changes[kind] < MaxChanges[kind] /\ changes' = [changes EXCEPT ![kind] = @ + 1]

-----------------------------------------------------------------------------
(* The document: its author lists the reviewers.                            *)

DocInit ==
    /\ \E U \in Listed : \E f \in Numberings(ReviewerIds, U) :
          reviewers = [r \in DOMAIN f |-> NewReviewer(f[r], "default")]
    /\ toReview = UsersIn(reviewers)
    /\ assignments = NoRows
    /\ assignees = NoRows
    /\ toExecute = NoRows
    /\ changes = [k \in {"review", "execute"} |-> 0]

(* Slip: the handler ignores an assignment it does not find. *)
Slip_DeletionPasses(A) == FALSE

(* Deleting a reviewer deletes his assignments and their assignees.  The    *)
(* assignment row goes first, and the handler that runs for a deleted       *)
(* assignee looks it up: it raises, and the deletion is rolled back.        *)
DeletionFails(A) == \E p \in DOMAIN assignees : assignees[p].assignment \in A
Subtree(A) == {b \in DOMAIN assignments : b \in A \/ assignments[b].above \cap A # {}}
Without(rows, K) == [i \in DOMAIN rows \ K |-> rows[i]]

(* The author sends the list of reviewers: rows it names are kept and saved *)
(* again, others deleted one after the other until a deletion fails.        *)
UpdateReviewers(kept, added) ==
    LET gone == DOMAIN reviewers \ kept
        stuck == {r \in gone : DeletionFails(Subtree(AssignmentsOf(r)))}
    IN
    /\ Counted("review")
    /\ DOMAIN added \cap DOMAIN reviewers = {}
    /\ Range(added) \cap UsersIn(reviewers) = {}
    /\ \E deleted \in SUBSET (gone \ stuck) :
          /\ stuck = {} => deleted = gone
          /\ reviewers' = Insert(Without(reviewers, deleted),
                                 [r \in DOMAIN added |-> NewReviewer(added[r], "none")])
          /\ assignments' = Without(assignments, Subtree(UNION {AssignmentsOf(r) : r \in deleted}))
          /\ IF kept \cup DOMAIN added \cup deleted = {} THEN UNCHANGED toReview
             ELSE SyncFanoutToReview(reviewers')
    /\ UNCHANGED <<assignees, toExecute>>

(* A reviewer, or an assistant of his, deletes the reviewer's row.          *)
DestroyReviewer(r) ==
    /\ Counted("review")
    /\ ~DeletionFails(Subtree(AssignmentsOf(r)))
    /\ reviewers' = Without(reviewers, {r})
    /\ assignments' = Without(assignments, Subtree(AssignmentsOf(r)))
    /\ SyncFanoutToReview(reviewers')
    /\ UNCHANGED <<assignees, toExecute>>

(* Slip: the row is updated in place, no handler runs. *)
Slip_UpdateReviewer(r, row) ==
    /\ reviewers' = [reviewers EXCEPT ![r] = row]
    /\ UNCHANGED toReview

SaveReviewer(r, row) ==
    /\ reviewers' = [reviewers EXCEPT ![r] = row]
    /\ SyncFanoutToReview(reviewers')

(* The reviewer reads the document once, an assistant of his at any time.   *)
AcquaintReviewer(r) ==
    /\ ~reviewers[r].read \/ reviewers[r].user \in Assisted
    /\ SaveReviewer(r, [reviewers[r] EXCEPT !.read = TRUE, !.status = "in_progress"])
    /\ UNCHANGED <<assignments, assignees, toExecute, changes>>

PerformReview(r) ==
    /\ SaveReviewer(r, [reviewers[r] EXCEPT !.read = TRUE, !.status = "done"])
    /\ UNCHANGED <<assignments, assignees, toExecute, changes>>

(* Slip: the review is handed on although people were assigned. *)
Slip_ChangeAnyReviewer(r, u) ==
    /\ Counted("review")
    /\ ~reviewers[r].hasResolution
    /\ u \notin UsersIn(reviewers)
    /\ SaveReviewer(r, NewReviewer(u, "default"))
    /\ UNCHANGED <<assignments, assignees, toExecute>>

ChangeReviewer(r, u) ==
    /\ Counted("review")
    /\ ~reviewers[r].hasResolution
    /\ u \notin UsersIn(reviewers)
    /\ AssignmentsOf(r) = {}
    /\ SaveReviewer(r, NewReviewer(u, "default"))
    /\ UNCHANGED <<assignments, assignees, toExecute>>

-----------------------------------------------------------------------------
(* Assignments.                                                             *)

(* The assignments whose assignees a new one under parent must not repeat.  *)
Line(parent) == parent \cup UNION {assignments[a].above : a \in parent}
CheckDuplicates(parent, list) ==
    \E p \in DOMAIN assignees : assignees[p].assignment \in Line(parent) /\ assignees[p].user \in DOMAIN list

(* parent is the set of the parent, or empty.  The assignment is created    *)
(* and its reviewer marked before the assignees are looked at: a duplicate  *)
(* leaves it there, without assignees, parent or verification.  The first   *)
(* assignee saved fans out alone.                                           *)
CreateAssignment(by, r, parent, project, list, a, ids) ==
    LET refused == CheckDuplicates(parent, list)
        row == [reviewer |-> r, by |-> by, project |-> project,
                verified |-> ~project /\ ~refused,
                above |-> IF refused THEN {} ELSE Line(parent)]
    IN
    /\ Counted("execute")
    /\ parent \subseteq AssignmentsOf(r)
    /\ a \in AssignmentIds \ DOMAIN assignments
    /\ DOMAIN ids \cap DOMAIN assignees = {}
    /\ assignments' = Insert(assignments, [i \in {a} |-> row])
    /\ IF project THEN SaveReviewer(r, [reviewers[r] EXCEPT !.hasResolution = TRUE])
       ELSE UNCHANGED <<reviewers, toReview>>
    /\ IF refused THEN UNCHANGED <<assignees, toExecute>>
       ELSE /\ assignees' = Insert(assignees, [p \in DOMAIN ids |-> NewAssignee(a, ids[p], list[ids[p]])])
            /\ \E first \in DOMAIN list :
                  toExecute' = SyncFanoutToAssignee(SyncFanoutToAssignee(toExecute, a, {first}), a, DOMAIN list)

(* The list names the rows that stay and adds users, who are compared with  *)
(* nobody.  Which row is saved first decides the first fan-out; the rows    *)
(* that go, go last.                                                        *)
UpdateAssignment(a, kept, ids) ==
    LET before == UsersOf(assignees, a)
        all == before \cup Range(ids)
    IN
    /\ Counted("execute")
    /\ kept \subseteq AssigneesOf(assignees, a)
    /\ kept \cup DOMAIN ids # {}
    /\ DOMAIN ids \cap DOMAIN assignees = {}
    /\ assignees' = Insert(Without(assignees, AssigneesOf(assignees, a) \ kept),
                           [p \in DOMAIN ids |-> NewAssignee(a, ids[p], FALSE)])
    /\ \E first \in (IF kept = {} THEN {} ELSE {before}) \cup {before \cup {u} : u \in Range(ids)} :
          toExecute' = SyncFanoutToAssignee(
                          SyncFanoutToAssignee(SyncFanoutToAssignee(toExecute, a, first), a, all),
                          a, UsersOf(assignees', a))
    /\ UNCHANGED <<reviewers, assignments, toReview>>

(* The reviewer verifies some of his assignments, or withdraws it.          *)
Verify(u, A, isVerified) ==
    /\ A # {}
    /\ \A a \in A : reviewers[assignments[a].reviewer].user = u
    /\ assignments' = [a \in DOMAIN assignments |->
                         IF a \in A THEN [assignments[a] EXCEPT !.verified = isVerified] ELSE assignments[a]]
    /\ UNCHANGED <<reviewers, assignees, toReview, toExecute, changes>>

(* A verified project stays.  Of another project the reviewer's mark is     *)
(* cleared and saved before the deletion, which may fail.                   *)
DestroyAssignment(u, a) ==
    LET row == assignments[a]
        r == row.reviewer
        ofReviewer == row.project /\ reviewers[r].user = u
        failed == DeletionFails(Subtree({a}))
    IN
    /\ Counted("execute")
    /\ ~(row.project /\ row.verified)
    /\ ofReviewer \/ row.by = u
    /\ IF ofReviewer
       THEN SaveReviewer(r, [reviewers[r] EXCEPT !.hasResolution = FALSE, !.status = "default"])
       ELSE UNCHANGED <<reviewers, toReview>>
    /\ assignments' = IF failed THEN assignments ELSE Without(assignments, Subtree({a}))
    /\ UNCHANGED <<assignees, toExecute>>

-----------------------------------------------------------------------------
(* Execution: assignees find the verified assignments they have.            *)

Verified(p) == assignments[assignees[p].assignment].verified

Performed(row) == [row EXCEPT !.performed = TRUE, !.status = "done"]

(* Saving an assignee fans out his assignment.                              *)
SaveAssignee(p, row) ==
    /\ assignees' = [assignees EXCEPT ![p] = row]
    /\ toExecute' = SyncFanoutToAssignee(toExecute, row.assignment, UsersOf(assignees', row.assignment))

AcquaintAssignee(p) ==
    /\ Verified(p)
    /\ ~assignees[p].read
    /\ SaveAssignee(p, [assignees[p] EXCEPT !.read = TRUE,
                           !.status = IF assignees[p].controller THEN @ ELSE "in_progress"])
    /\ UNCHANGED <<reviewers, assignments, toReview, changes>>

(* Slip: reviewers who are done are put on hold too. *)
Slip_UpdateAnyParent(r) == reviewers' = [reviewers EXCEPT ![r].status = "on_hold"]

(* Updating rows in place runs no signal handler.                           *)
UpdateParentStatus(r) ==
    reviewers' = IF reviewers[r].status = "done" THEN reviewers
                 ELSE [reviewers EXCEPT ![r].status = "on_hold"]

(* Slip: the task need not be read. *)
Slip_PerformUnread(p) ==
    /\ Verified(p)
    /\ ~assignees[p].controller
    /\ SaveAssignee(p, Performed(assignees[p]))
    /\ UpdateParentStatus(assignments[assignees[p].assignment].reviewer)
    /\ UNCHANGED <<assignments, toReview, changes>>

(* Once performed, only the text of the answer changes.                     *)
PerformAssignment(p) ==
    /\ Verified(p)
    /\ ~assignees[p].controller
    /\ assignees[p].read
    /\ IF assignees[p].performed
       THEN SaveAssignee(p, assignees[p]) /\ UNCHANGED reviewers
       ELSE /\ SaveAssignee(p, Performed(assignees[p]))
            /\ UpdateParentStatus(assignments[assignees[p].assignment].reviewer)
    /\ UNCHANGED <<assignments, toReview, changes>>

SetOtherStatusAsCompleted(rows, a) ==
    [q \in DOMAIN rows |-> IF rows[q].assignment = a /\ ~rows[q].controller THEN Performed(rows[q]) ELSE rows[q]]

(* The controller closes the task for everybody.                            *)
RemoveFromControl(p) ==
    LET a == assignees[p].assignment IN
    /\ Verified(p)
    /\ assignees[p].controller
    /\ assignees[p].read
    /\ assignees' = IF assignees[p].performed THEN assignees
                    ELSE SetOtherStatusAsCompleted([assignees EXCEPT ![p] = Performed(@)], a)
    /\ toExecute' = SyncFanoutToAssignee(toExecute, a, UsersOf(assignees, a))
    /\ UNCHANGED <<reviewers, assignments, toReview, changes>>

-----------------------------------------------------------------------------

ReviewStep(r) ==
    \/ DestroyReviewer(r)
    \/ AcquaintReviewer(r)
    \/ PerformReview(r)
    \/ \E u \in Users : ChangeReviewer(r, u)

Parents == {{}} \cup {{a} : a \in DOMAIN assignments}

AssignStep(a) ==
    \/ \E by \in Users, r \in DOMAIN reviewers, parent \in Parents, project \in BOOLEAN :
          \E list \in Lists(Users) : \E ids \in Numberings(AssigneeIds \ DOMAIN assignees, DOMAIN list) :
             CreateAssignment(by, r, parent, project, list, a, ids)
    \/ /\ a \in DOMAIN assignments
       /\ \/ \E kept \in SUBSET AssigneesOf(assignees, a), U \in SUBSET Users :
                /\ Cardinality(kept) + Cardinality(U) <= MaxList
                /\ \E ids \in Numberings(AssigneeIds \ DOMAIN assignees, U) : UpdateAssignment(a, kept, ids)
          \/ \E u \in Users : DestroyAssignment(u, a)

ExecuteStep(p) == AcquaintAssignee(p) \/ PerformAssignment(p) \/ RemoveFromControl(p)

DocNext ==
    \/ \E kept \in SUBSET DOMAIN reviewers, U \in SUBSET (Users \ UsersIn(reviewers)) :
          \E added \in Numberings(ReviewerIds \ DOMAIN reviewers, U) : UpdateReviewers(kept, added)
    \/ \E r \in DOMAIN reviewers : ReviewStep(r)
    \/ \E a \in AssignmentIds : AssignStep(a)
    \/ \E u \in Users, A \in SUBSET DOMAIN assignments, isVerified \in BOOLEAN : Verify(u, A, isVerified)
    \/ \E p \in DOMAIN assignees : ExecuteStep(p)

DocSpec == DocInit /\ [][DocNext]_docVars

-----------------------------------------------------------------------------
(* Properties.                                                              *)

ForeignKeys ==
    /\ \A a \in DOMAIN assignments : /\ assignments[a].reviewer \in DOMAIN reviewers
                                     /\ assignments[a].above \subseteq DOMAIN assignments
    /\ \A p \in DOMAIN assignees : assignees[p].assignment \in DOMAIN assignments

(* Type invariant: rows are where their foreign keys point, through every   *)
(* cascade.                                                                 *)
DocTypeOK ==
    /\ IsTable(reviewers, ReviewerIds, ReviewerRow)
    /\ IsTable(assignments, AssignmentIds, AssignmentRow)
    /\ IsTable(assignees, AssigneeIds, AssigneeRow)
    /\ toReview \subseteq Users
    /\ IsTable(toExecute, Users, AssignmentIds)
    /\ changes \in [{"review", "execute"} -> Nat]
    /\ \A k \in {"review", "execute"} : changes[k] <= MaxChanges[k]
    /\ ForeignKeys

(* The items to_review of the document belong exactly to its current        *)
(* reviewers, whatever was updated, changed, deleted or rolled back.        *)
ReviewInboxExact == toReview = UsersIn(reviewers)

(* The items to_execute are exactly the assignees of one assignment, that   *)
(* of the assignee saved or deleted last: nobody keeps an item without a    *)
(* task, but the assignees of another assignment may have none.             *)
ExecuteInboxOfOneAssignment ==
    \/ DOMAIN toExecute = {}
    \/ \E a \in DOMAIN assignments : DOMAIN toExecute = UsersOf(assignees, a)

(* An assignment that has assignees is not deleted, and neither is its      *)
(* reviewer nor is the review handed to another person.                     *)
AssigneesKeepReviewer ==
    [][\A p \in DOMAIN assignees :
          LET a == assignees[p].assignment
              r == assignments[a].reviewer
          IN /\ a \in DOMAIN assignments'
             /\ r \in DOMAIN reviewers'
             /\ reviewers'[r].user = reviewers[r].user]_docVars

(* Finished work is not reopened by somebody else's work: an assignee is    *)
(* done until he reads a task that control was removed from, a reviewer     *)
(* until an assistant reads, his project is deleted or he is replaced.      *)
DoneStaysDone ==
    [][/\ \A p \in DOMAIN assignees \cap DOMAIN assignees' :
             assignees[p].status = "done" =>
                \/ assignees'[p].status = "done"
                \/ ~assignees[p].read /\ assignees'[p].read
       /\ \A r \in DOMAIN reviewers \cap DOMAIN reviewers' :
             reviewers[r].status = "done" => reviewers'[r].status # "on_hold"]_docVars

(* A task is performed by an assignee who has read it, or for everybody at  *)
(* once by a controller who has read it, and only while it is verified.     *)
PerformedByReader ==
    [][\A p \in DOMAIN assignees \cap DOMAIN assignees' :
          ~assignees[p].performed /\ assignees'[p].performed =>
             /\ Verified(p)
             /\ \/ assignees[p].read
                \/ \E c \in AssigneesOf(assignees, assignees[p].assignment) :
                      assignees[c].controller /\ assignees[c].read /\ assignees'[c].performed]_docVars

(* What the docstring of sync_fanout_to_assignee promises: the inbox        *)
(* exactly matches the current assignees.                                   *)
ExecuteInboxExact == DOMAIN toExecute = UsersIn(assignees)
=============================================================================
