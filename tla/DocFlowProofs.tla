---------------------------- MODULE DocFlowProofs ----------------------------
(****************************************************************************)
(* For every set of people, keys and bounds: rows are where their foreign   *)
(* keys point, the review inbox is exact, the execution inbox is that of    *)
(* one assignment, and requests leave the work of the others in place.      *)
(****************************************************************************)
EXTENDS DocFlow, TLAPS

(* Below a deleted assignment everything is deleted, so the line above an   *)
(* assignment must contain the lines above its members.                     *)
AboveClosed ==
    \A a \in DOMAIN assignments : \A b \in assignments[a].above :
       assignments[b].above \subseteq assignments[a].above

DocInv == DocTypeOK /\ AboveClosed

-----------------------------------------------------------------------------
(* Tables.                                                                  *)

(* Deleting rows of a table.                                                *)
LEMMA WithoutTable ==
    ASSUME NEW rows, NEW Keys, NEW Row, IsTable(rows, Keys, Row), NEW K
    PROVE  /\ IsTable(Without(rows, K), Keys, Row)
           /\ DOMAIN Without(rows, K) = DOMAIN rows \ K
           /\ \A i \in DOMAIN rows \ K : Without(rows, K)[i] = rows[i]
  BY DEF Without, IsTable

(* Inserting rows into a table.                                             *)
LEMMA InsertTable ==
    ASSUME NEW rows, NEW Keys, NEW Row, NEW new, IsTable(rows, Keys, Row), IsTable(new, Keys, Row)
    PROVE  /\ IsTable(Insert(rows, new), Keys, Row)
           /\ DOMAIN Insert(rows, new) = DOMAIN rows \cup DOMAIN new
           /\ \A i \in DOMAIN new : Insert(rows, new)[i] = new[i]
           /\ \A i \in DOMAIN rows \ DOMAIN new : Insert(rows, new)[i] = rows[i]
  BY DEF Insert, IsTable

(* Changing one row of a table.                                             *)
LEMMA ExceptTable ==
    ASSUME NEW rows, NEW Keys, NEW Row, NEW i \in DOMAIN rows, NEW row \in Row, IsTable(rows, Keys, Row)
    PROVE  /\ IsTable([rows EXCEPT ![i] = row], Keys, Row)
           /\ DOMAIN [rows EXCEPT ![i] = row] = DOMAIN rows
           /\ [rows EXCEPT ![i] = row][i] = row
           /\ \A j \in DOMAIN rows \ {i} : [rows EXCEPT ![i] = row][j] = rows[j]
  BY DEF IsTable

(* The new rows a request numbers have free keys.                           *)
LEMMA NumberingKeys ==
    ASSUME NEW Keys, NEW U, NEW f \in Numberings(Keys, U)
    PROVE  /\ DOMAIN f \subseteq Keys
           /\ f \in [DOMAIN f -> U]
           /\ Range(f) = U
  BY DEF Numberings

(* A fan-out gives items to the target and to nobody else, and they name    *)
(* assignments.                                                             *)
LEMMA FanoutTable ==
    ASSUME NEW items, NEW a \in AssignmentIds, NEW target \in SUBSET Users, IsTable(items, Users, AssignmentIds)
    PROVE  /\ IsTable(SyncFanoutToAssignee(items, a, target), Users, AssignmentIds)
           /\ DOMAIN SyncFanoutToAssignee(items, a, target) = target
  BY DEF SyncFanoutToAssignee, IsTable

(* New rows have the right type.                                            *)
LEMMA NewRows ==
    /\ \A u \in Users, st \in Statuses \cup {"none"} : NewReviewer(u, st) \in ReviewerRow
    /\ \A a \in AssignmentIds, u \in Users, c \in BOOLEAN : NewAssignee(a, u, c) \in AssigneeRow
  BY DEF NewReviewer, NewAssignee, ReviewerRow, AssigneeRow, Statuses

(* Each user of a table is a person.                                        *)
LEMMA UsersArePeople ==
    /\ \A rows : IsTable(rows, ReviewerIds, ReviewerRow) => UsersIn(rows) \subseteq Users
    /\ \A rows, a : IsTable(rows, AssigneeIds, AssigneeRow) => UsersOf(rows, a) \subseteq Users
  BY DEF IsTable, UsersIn, UsersOf, AssigneesOf, ReviewerRow, AssigneeRow

(* Saving a reviewer's row changes no key.                                  *)
LEMMA SaveReviewerTable ==
    ASSUME IsTable(reviewers, ReviewerIds, ReviewerRow),
           NEW r \in DOMAIN reviewers, NEW row \in ReviewerRow, SaveReviewer(r, row)
    PROVE  /\ IsTable(reviewers', ReviewerIds, ReviewerRow)
           /\ DOMAIN reviewers' = DOMAIN reviewers
           /\ toReview' \subseteq Users
  <1>1. /\ IsTable(reviewers', ReviewerIds, ReviewerRow)
        /\ DOMAIN reviewers' = DOMAIN reviewers
    BY ExceptTable DEF SaveReviewer
  <1>2. toReview' \subseteq Users
    BY <1>1, UsersArePeople DEF SaveReviewer, SyncFanoutToReview
  <1>3. QED
    BY <1>1, <1>2

(* The counter of changes stays within its bound.                           *)
LEMMA CountedBound ==
    ASSUME changes \in [{"review", "execute"} -> Nat],
           \A k \in {"review", "execute"} : changes[k] <= MaxChanges[k],
           NEW kind \in {"review", "execute"}, Counted(kind)
    PROVE  /\ changes' \in [{"review", "execute"} -> Nat]
           /\ \A k \in {"review", "execute"} : changes'[k] <= MaxChanges[k]
  BY DocFlowAssumption DEF Counted

(* Deleting assignments with all that is below them leaves no dangling key, *)
(* as long as no assignee is among them.                                    *)
LEMMA CascadeKeeps ==
    ASSUME DocInv, NEW A, ~DeletionFails(Subtree(A)),
           assignments' = Without(assignments, Subtree(A)), assignees' = assignees
    PROVE  /\ IsTable(assignments', AssignmentIds, AssignmentRow)
           /\ \A a \in DOMAIN assignments' : /\ a \notin A
                                             /\ a \in DOMAIN assignments
                                             /\ assignments'[a] = assignments[a]
                                             /\ assignments[a].above \subseteq DOMAIN assignments'
           /\ \A p \in DOMAIN assignees' : assignees'[p].assignment \in DOMAIN assignments'
           /\ AboveClosed'
  <1>1. /\ IsTable(assignments', AssignmentIds, AssignmentRow)
        /\ DOMAIN assignments' = DOMAIN assignments \ Subtree(A)
        /\ \A a \in DOMAIN assignments' : assignments'[a] = assignments[a]
    <2>1. IsTable(assignments, AssignmentIds, AssignmentRow)
      BY DEF DocInv, DocTypeOK
    <2>2. IsTable(assignments', AssignmentIds, AssignmentRow)
      BY <2>1, WithoutTable
    <2>3. DOMAIN assignments' = DOMAIN assignments \ Subtree(A)
      BY <2>1, WithoutTable
    <2>4. \A a \in DOMAIN assignments' : assignments'[a] = assignments[a]
      BY <2>1, <2>3, WithoutTable
    <2>5. QED
      BY <2>2, <2>3, <2>4
  <1>2. \A a \in DOMAIN assignments' : a \in DOMAIN assignments /\ a \notin A
    BY <1>1 DEF Subtree
  <1>3. ASSUME NEW a \in DOMAIN assignments', NEW b \in assignments[a].above
        PROVE  b \in DOMAIN assignments'
    <2>1. b \in DOMAIN assignments /\ assignments[b].above \subseteq assignments[a].above
      BY <1>2 DEF DocInv, DocTypeOK, ForeignKeys, AboveClosed
    <2>2. assignments[a].above \cap A = {}
      BY <1>1, <1>2 DEF Subtree
    <2>3. QED
      BY <1>1, <2>1, <2>2 DEF Subtree
  <1>4. \A p \in DOMAIN assignees' : assignees'[p].assignment \in DOMAIN assignments'
    BY <1>1 DEF DocInv, DocTypeOK, ForeignKeys, DeletionFails
  <1>5. AboveClosed'
    BY <1>1, <1>2, <1>3 DEF DocInv, AboveClosed
  <1>6. QED
    BY <1>1, <1>2, <1>3, <1>4, <1>5

-----------------------------------------------------------------------------
(* The type invariant, one lemma per group of requests.                     *)

(* What a request that leaves assignments and assignees alone must show.    *)
LEMMA SameAssignments ==
    ASSUME DocInv, UNCHANGED <<assignments, assignees, toExecute>>,
           IsTable(reviewers', ReviewerIds, ReviewerRow),
           DOMAIN reviewers \subseteq DOMAIN reviewers',
           toReview' \subseteq Users,
           changes' \in [{"review", "execute"} -> Nat],
           \A k \in {"review", "execute"} : changes'[k] <= MaxChanges[k]
    PROVE  DocInv'
  BY DEF DocInv, DocTypeOK, ForeignKeys, AboveClosed

(* A PUT of the document replaces its reviewers, and what hangs on those    *)
(* dropped.                                                                 *)
LEMMA UpdateReviewersKeeps ==
    ASSUME DocInv, NEW kept \in SUBSET DOMAIN reviewers, NEW U \in SUBSET Users,
           NEW added \in Numberings(ReviewerIds \ DOMAIN reviewers, U),
           UpdateReviewers(kept, added)
    PROVE  DocInv'
  <1> DEFINE gone == DOMAIN reviewers \ kept
             stuck == {r \in gone : DeletionFails(Subtree(AssignmentsOf(r)))}
             A(deleted) == UNION {AssignmentsOf(r) : r \in deleted}
             new == [r \in DOMAIN added |-> NewReviewer(added[r], "none")]
  <1>1. PICK deleted \in SUBSET (gone \ stuck) :
           /\ reviewers' = Insert(Without(reviewers, deleted), new)
           /\ assignments' = Without(assignments, Subtree(A(deleted)))
           /\ toReview' = toReview \/ toReview' = UsersIn(reviewers')
    BY DEF UpdateReviewers, SyncFanoutToReview
  <1>2. UNCHANGED <<assignees, toExecute>> /\ Counted("review")
    BY DEF UpdateReviewers
  <1>3. IsTable(reviewers', ReviewerIds, ReviewerRow) /\ DOMAIN reviewers \ deleted \subseteq DOMAIN reviewers'
    <2>1. IsTable(new, ReviewerIds, ReviewerRow)
      BY NumberingKeys, NewRows DEF IsTable
    <2>2. IsTable(reviewers, ReviewerIds, ReviewerRow)
      BY DEF DocInv, DocTypeOK
    <2>3. /\ IsTable(Without(reviewers, deleted), ReviewerIds, ReviewerRow)
          /\ DOMAIN Without(reviewers, deleted) = DOMAIN reviewers \ deleted
      BY <2>2, WithoutTable
    <2> HIDE DEF new
    <2>4. IsTable(reviewers', ReviewerIds, ReviewerRow)
      BY <1>1, <2>1, <2>3, InsertTable
    <2>5. DOMAIN reviewers' = DOMAIN Without(reviewers, deleted) \cup DOMAIN new
      BY <1>1 DEF Insert
    <2>6. QED
      BY <2>3, <2>4, <2>5
  <1>4. ~DeletionFails(Subtree(A(deleted)))
    <2>1. \A r \in deleted : ~DeletionFails(Subtree(AssignmentsOf(r)))
      BY <1>1
    <2>2. QED
      BY <2>1 DEF DeletionFails, Subtree
  <1> HIDE DEF A, new
  <1>5. /\ IsTable(assignments', AssignmentIds, AssignmentRow)
        /\ \A a \in DOMAIN assignments' : /\ a \notin A(deleted)
                                          /\ a \in DOMAIN assignments
                                          /\ assignments'[a] = assignments[a]
                                          /\ assignments[a].above \subseteq DOMAIN assignments'
        /\ \A p \in DOMAIN assignees' : assignees'[p].assignment \in DOMAIN assignments'
        /\ AboveClosed'
    BY <1>1, <1>2, <1>4, CascadeKeeps
  <1>6. \A a \in DOMAIN assignments' : assignments'[a].reviewer \in DOMAIN reviewers'
    BY <1>3, <1>5 DEF A, AssignmentsOf, DocInv, DocTypeOK, ForeignKeys
  <1>7. toReview' \subseteq Users
    BY <1>1, <1>3, UsersArePeople DEF DocInv, DocTypeOK
  <1>8. /\ changes' \in [{"review", "execute"} -> Nat]
        /\ \A k \in {"review", "execute"} : changes'[k] <= MaxChanges[k]
    BY <1>2, CountedBound DEF DocInv, DocTypeOK
  <1>9. ForeignKeys'
    BY <1>5, <1>6 DEF ForeignKeys
  <1>10. QED
    BY <1>2, <1>3, <1>5, <1>7, <1>8, <1>9 DEF DocInv, DocTypeOK

(* A reviewer is deleted with his assignments.                              *)
LEMMA DestroyReviewerKeeps ==
    ASSUME DocInv, NEW r \in DOMAIN reviewers, DestroyReviewer(r)
    PROVE  DocInv'
  <1>1. /\ reviewers' = Without(reviewers, {r})
        /\ assignments' = Without(assignments, Subtree(AssignmentsOf(r)))
        /\ UNCHANGED <<assignees, toExecute>>
        /\ toReview' = UsersIn(reviewers')
        /\ Counted("review")
        /\ ~DeletionFails(Subtree(AssignmentsOf(r)))
    BY DEF DestroyReviewer, SyncFanoutToReview
  <1>2. /\ IsTable(reviewers', ReviewerIds, ReviewerRow)
        /\ DOMAIN reviewers' = DOMAIN reviewers \ {r}
    BY <1>1, WithoutTable DEF DocInv, DocTypeOK
  <1>3. /\ IsTable(assignments', AssignmentIds, AssignmentRow)
        /\ \A a \in DOMAIN assignments' : /\ a \notin AssignmentsOf(r)
                                          /\ a \in DOMAIN assignments
                                          /\ assignments'[a] = assignments[a]
                                          /\ assignments[a].above \subseteq DOMAIN assignments'
        /\ \A p \in DOMAIN assignees' : assignees'[p].assignment \in DOMAIN assignments'
        /\ AboveClosed'
    BY <1>1, CascadeKeeps
  <1>4. \A a \in DOMAIN assignments' : assignments'[a].reviewer \in DOMAIN reviewers'
    BY <1>2, <1>3 DEF AssignmentsOf, DocInv, DocTypeOK, ForeignKeys
  <1>5. toReview' \subseteq Users
    BY <1>1, <1>2, UsersArePeople
  <1>6. /\ changes' \in [{"review", "execute"} -> Nat]
        /\ \A k \in {"review", "execute"} : changes'[k] <= MaxChanges[k]
    BY <1>1, CountedBound DEF DocInv, DocTypeOK
  <1>7. ForeignKeys'
    BY <1>3, <1>4 DEF ForeignKeys
  <1>8. QED
    BY <1>1, <1>2, <1>3, <1>5, <1>6, <1>7 DEF DocInv, DocTypeOK

(* A reviewer reads, performs or hands over.                                *)
LEMMA ReviewStepKeeps ==
    ASSUME DocInv, NEW r \in DOMAIN reviewers, ReviewStep(r)
    PROVE  DocInv'
  <1>1. /\ IsTable(reviewers, ReviewerIds, ReviewerRow)
        /\ changes \in [{"review", "execute"} -> Nat]
        /\ \A k \in {"review", "execute"} : changes[k] <= MaxChanges[k]
        /\ reviewers[r] \in ReviewerRow
    BY DEF DocInv, DocTypeOK, IsTable
  <1>2. CASE DestroyReviewer(r)
    BY <1>2, DestroyReviewerKeeps
  <1>3. CASE AcquaintReviewer(r)
    <2>1. [reviewers[r] EXCEPT !.read = TRUE, !.status = "in_progress"] \in ReviewerRow
      BY <1>1 DEF ReviewerRow, Statuses
    <2>2. QED
      BY <1>1, <1>3, <2>1, SaveReviewerTable, SameAssignments DEF AcquaintReviewer
  <1>4. CASE PerformReview(r)
    <2>1. [reviewers[r] EXCEPT !.read = TRUE, !.status = "done"] \in ReviewerRow
      BY <1>1 DEF ReviewerRow, Statuses
    <2>2. QED
      BY <1>1, <1>4, <2>1, SaveReviewerTable, SameAssignments DEF PerformReview
  <1>5. ASSUME NEW u \in Users, ChangeReviewer(r, u)
        PROVE  DocInv'
    <2>1. NewReviewer(u, "default") \in ReviewerRow
      BY NewRows DEF Statuses
    <2>2. SaveReviewer(r, NewReviewer(u, "default")) /\ Counted("review") /\ UNCHANGED <<assignments, assignees, toExecute>>
      BY <1>5 DEF ChangeReviewer
    <2>3. /\ IsTable(reviewers', ReviewerIds, ReviewerRow)
          /\ DOMAIN reviewers' = DOMAIN reviewers
          /\ toReview' \subseteq Users
      BY <1>1, <2>1, <2>2, SaveReviewerTable
    <2>4. /\ changes' \in [{"review", "execute"} -> Nat]
          /\ \A k \in {"review", "execute"} : changes'[k] <= MaxChanges[k]
      BY <1>1, <2>2, CountedBound
    <2>5. QED
      BY <2>2, <2>3, <2>4, SameAssignments
  <1>6. QED
    BY <1>2, <1>3, <1>4, <1>5 DEF ReviewStep

(* A new assignment hangs on a reviewer or on an assignment of one.         *)
LEMMA CreateAssignmentKeeps ==
    ASSUME DocInv, NEW by \in Users, NEW r \in DOMAIN reviewers, NEW parent \in Parents,
           NEW project \in BOOLEAN, NEW list \in Lists(Users), NEW a \in AssignmentIds,
           NEW ids \in Numberings(AssigneeIds \ DOMAIN assignees, DOMAIN list),
           CreateAssignment(by, r, parent, project, list, a, ids)
    PROVE  DocInv'
  <1> DEFINE refused == CheckDuplicates(parent, list)
             row == [reviewer |-> r, by |-> by, project |-> project,
                     verified |-> ~project /\ ~refused,
                     above |-> IF refused THEN {} ELSE Line(parent)]
             new == [i \in {a} |-> row]
             people == [p \in DOMAIN ids |-> NewAssignee(a, ids[p], list[ids[p]])]
  <1>1. /\ IsTable(reviewers, ReviewerIds, ReviewerRow)
        /\ IsTable(assignments, AssignmentIds, AssignmentRow)
        /\ IsTable(assignees, AssigneeIds, AssigneeRow)
        /\ IsTable(toExecute, Users, AssignmentIds)
        /\ toReview \subseteq Users
        /\ ForeignKeys /\ AboveClosed
    BY DEF DocInv, DocTypeOK
  <1>2. /\ parent \subseteq DOMAIN assignments
        /\ a \notin DOMAIN assignments
        /\ Counted("execute")
        /\ assignments' = Insert(assignments, new)
    BY DEF CreateAssignment, AssignmentsOf
  <1>3. /\ Line(parent) \subseteq DOMAIN assignments
        /\ \A b \in Line(parent) : assignments[b].above \subseteq Line(parent)
    BY <1>1, <1>2 DEF Line, ForeignKeys, AboveClosed, Parents
  <1>4. /\ IsTable(reviewers', ReviewerIds, ReviewerRow)
        /\ DOMAIN reviewers' = DOMAIN reviewers
        /\ toReview' \subseteq Users
    <2>1. [reviewers[r] EXCEPT !.hasResolution = TRUE] \in ReviewerRow
      BY <1>1 DEF ReviewerRow, IsTable
    <2>2. CASE project
      BY <1>1, <2>1, <2>2, SaveReviewerTable DEF CreateAssignment
    <2>3. CASE ~project
      BY <1>1, <2>3 DEF CreateAssignment
    <2>4. QED
      BY <2>2, <2>3
  <1>5. /\ IsTable(assignments', AssignmentIds, AssignmentRow)
        /\ DOMAIN assignments' = DOMAIN assignments \cup {a}
        /\ assignments'[a] = row
        /\ \A b \in DOMAIN assignments : assignments'[b] = assignments[b]
    <2>1. row \in AssignmentRow
      <3>1. Line(parent) \subseteq AssignmentIds
        BY <1>1, <1>3 DEF IsTable
      <3>2. r \in ReviewerIds
        BY <1>1 DEF IsTable
      <3>3. (IF refused THEN {} ELSE Line(parent)) \in SUBSET AssignmentIds
        BY <3>1
      <3>4. (~project /\ ~refused) \in BOOLEAN
        OBVIOUS
      <3> HIDE DEF refused
      <3>5. QED
        BY <3>2, <3>3, <3>4 DEF AssignmentRow
    <2> HIDE DEF row
    <2>2. \A i \in DOMAIN assignments' : i \in DOMAIN assignments \/ i = a
      BY <1>2 DEF Insert
    <2>3. DOMAIN assignments' = DOMAIN assignments \cup {a}
      BY <1>2 DEF Insert
    <2>4. assignments'[a] = row /\ \A b \in DOMAIN assignments : assignments'[b] = assignments[b]
      BY <1>2 DEF Insert
    <2>5. assignments' = [i \in DOMAIN assignments \cup {a} |-> IF i = a THEN row ELSE assignments[i]]
      BY <1>2 DEF Insert
    <2>6. IsTable(assignments', AssignmentIds, AssignmentRow)
      BY <1>1, <2>1, <2>5 DEF IsTable
    <2>7. QED
      BY <2>3, <2>4, <2>6
  <1>6. /\ IsTable(assignees', AssigneeIds, AssigneeRow)
        /\ \A p \in DOMAIN assignees' : assignees'[p].assignment \in DOMAIN assignments'
        /\ IsTable(toExecute', Users, AssignmentIds)
    <2>1. CASE refused
      BY <1>1, <1>5, <2>1 DEF CreateAssignment, ForeignKeys
    <2>2. CASE ~refused
      <3>1. /\ assignees' = Insert(assignees, people)
            /\ \E first \in DOMAIN list :
                  toExecute' = SyncFanoutToAssignee(SyncFanoutToAssignee(toExecute, a, {first}), a, DOMAIN list)
        BY <2>2 DEF CreateAssignment
      <3>2. DOMAIN list \subseteq Users /\ list \in [DOMAIN list -> BOOLEAN]
        BY DEF Lists
      <3>3. DOMAIN ids \subseteq AssigneeIds /\ ids \in [DOMAIN ids -> DOMAIN list]
        BY NumberingKeys
      <3>4. IsTable(people, AssigneeIds, AssigneeRow) /\ \A p \in DOMAIN people : people[p].assignment = a
        BY <3>2, <3>3, NewRows DEF IsTable, NewAssignee
      <3> HIDE DEF people
      <3>5. IsTable(assignees', AssigneeIds, AssigneeRow)
        BY <1>1, <3>1, <3>4, InsertTable
      <3>6. \A p \in DOMAIN assignees' : assignees'[p].assignment \in DOMAIN assignments \cup {a}
        BY <1>1, <3>1, <3>4 DEF Insert, ForeignKeys
      <3>7. PICK first \in DOMAIN list :
               toExecute' = SyncFanoutToAssignee(SyncFanoutToAssignee(toExecute, a, {first}), a, DOMAIN list)
        BY <3>1
      <3>8. IsTable(SyncFanoutToAssignee(toExecute, a, {first}), Users, AssignmentIds)
        BY <1>1, <3>2, FanoutTable
      <3>9. IsTable(toExecute', Users, AssignmentIds)
        BY <3>2, <3>7, <3>8, FanoutTable
      <3>10. QED
        BY <1>5, <3>5, <3>6, <3>9
    <2>3. QED
      BY <2>1, <2>2
  <1>7. /\ changes' \in [{"review", "execute"} -> Nat]
        /\ \A k \in {"review", "execute"} : changes'[k] <= MaxChanges[k]
    BY <1>2, CountedBound DEF DocInv, DocTypeOK
  <1>8. /\ row.reviewer = r
        /\ row.above \subseteq Line(parent)
        /\ row.above = {} \/ row.above = Line(parent)
    OBVIOUS
  <1> HIDE DEF row
  <1>9. ForeignKeys'
    BY <1>1, <1>3, <1>4, <1>5, <1>6, <1>8 DEF ForeignKeys
  <1>10. AboveClosed'
    BY <1>1, <1>3, <1>5, <1>8 DEF AboveClosed, ForeignKeys
  <1>11. QED
    BY <1>4, <1>5, <1>6, <1>7, <1>9, <1>10 DEF DocInv, DocTypeOK

(* What a request that changes only assignees and their inbox must show.    *)
LEMMA SameReviews ==
    ASSUME DocInv, UNCHANGED <<assignments, toReview>>,
           IsTable(reviewers', ReviewerIds, ReviewerRow),
           DOMAIN reviewers' = DOMAIN reviewers,
           IsTable(assignees', AssigneeIds, AssigneeRow),
           \A p \in DOMAIN assignees' : assignees'[p].assignment \in DOMAIN assignments,
           IsTable(toExecute', Users, AssignmentIds),
           changes' \in [{"review", "execute"} -> Nat],
           \A k \in {"review", "execute"} : changes'[k] <= MaxChanges[k]
    PROVE  DocInv'
  BY DEF DocInv, DocTypeOK, ForeignKeys, AboveClosed

(* A PUT of the assignment replaces its assignees.                          *)
LEMMA UpdateAssignmentKeeps ==
    ASSUME DocInv, NEW a \in DOMAIN assignments, NEW kept \in SUBSET AssigneesOf(assignees, a),
           NEW U \in SUBSET Users, NEW ids \in Numberings(AssigneeIds \ DOMAIN assignees, U),
           UpdateAssignment(a, kept, ids)
    PROVE  DocInv'
  <1> DEFINE old == Without(assignees, AssigneesOf(assignees, a) \ kept)
             new == [p \in DOMAIN ids |-> NewAssignee(a, ids[p], FALSE)]
             before == UsersOf(assignees, a)
             all == before \cup Range(ids)
  <1>1. /\ IsTable(reviewers, ReviewerIds, ReviewerRow)
        /\ IsTable(assignments, AssignmentIds, AssignmentRow)
        /\ IsTable(assignees, AssigneeIds, AssigneeRow)
        /\ IsTable(toExecute, Users, AssignmentIds)
        /\ ForeignKeys
        /\ a \in AssignmentIds
    BY DEF DocInv, DocTypeOK, IsTable
  <1>2. /\ DOMAIN ids \subseteq AssigneeIds
        /\ ids \in [DOMAIN ids -> Users]
        /\ Range(ids) \subseteq Users
    BY NumberingKeys
  <1>3. /\ assignees' = Insert(old, new)
        /\ \E first \in SUBSET all :
              toExecute' = SyncFanoutToAssignee(
                              SyncFanoutToAssignee(SyncFanoutToAssignee(toExecute, a, first), a, all),
                              a, UsersOf(assignees', a))
        /\ UNCHANGED <<reviewers, assignments, toReview>>
        /\ Counted("execute")
    BY DEF UpdateAssignment
  <1>4. IsTable(new, AssigneeIds, AssigneeRow) /\ \A p \in DOMAIN new : new[p].assignment = a
    BY <1>1, <1>2, NewRows DEF IsTable, NewAssignee
  <1> HIDE DEF new
  <1>5. IsTable(old, AssigneeIds, AssigneeRow)
    BY <1>1, WithoutTable
  <1>6. \A p \in DOMAIN old : old[p].assignment \in DOMAIN assignments
    BY <1>1 DEF Without, ForeignKeys
  <1> HIDE DEF old
  <1>7. IsTable(assignees', AssigneeIds, AssigneeRow)
    BY <1>3, <1>4, <1>5, InsertTable
  <1>8. \A p \in DOMAIN assignees' : assignees'[p].assignment \in DOMAIN assignments
    BY <1>3, <1>4, <1>6 DEF Insert
  <1>9. IsTable(toExecute', Users, AssignmentIds)
    <2>1. before \subseteq Users /\ UsersOf(assignees', a) \subseteq Users
      BY <1>1, <1>7, UsersArePeople
    <2>2. all \subseteq Users
      BY <1>2, <2>1
    <2>3. PICK first \in SUBSET all :
              toExecute' = SyncFanoutToAssignee(
                              SyncFanoutToAssignee(SyncFanoutToAssignee(toExecute, a, first), a, all),
                              a, UsersOf(assignees', a))
      BY <1>3
    <2> HIDE DEF all
    <2>4. IsTable(SyncFanoutToAssignee(toExecute, a, first), Users, AssignmentIds)
      BY <1>1, <2>2, FanoutTable
    <2>5. IsTable(SyncFanoutToAssignee(SyncFanoutToAssignee(toExecute, a, first), a, all), Users, AssignmentIds)
      BY <1>1, <2>2, <2>4, FanoutTable
    <2>6. QED
      BY <1>1, <2>1, <2>3, <2>5, FanoutTable
  <1>10. /\ changes' \in [{"review", "execute"} -> Nat]
         /\ \A k \in {"review", "execute"} : changes'[k] <= MaxChanges[k]
    BY <1>3, CountedBound DEF DocInv, DocTypeOK
  <1>11. QED
    BY <1>1, <1>3, <1>7, <1>8, <1>9, <1>10, SameReviews

(* A resolution is verified or refused.                                     *)
LEMMA VerifyKeeps ==
    ASSUME DocInv, NEW u \in Users, NEW A \in SUBSET DOMAIN assignments, NEW isVerified \in BOOLEAN,
           Verify(u, A, isVerified)
    PROVE  DocInv'
  <1>1. /\ assignments' = [a \in DOMAIN assignments |->
                             IF a \in A THEN [assignments[a] EXCEPT !.verified = isVerified] ELSE assignments[a]]
        /\ UNCHANGED <<reviewers, assignees, toReview, toExecute, changes>>
    BY DEF Verify
  <1>2. \A a \in DOMAIN assignments : assignments[a] \in AssignmentRow
    BY DEF DocInv, DocTypeOK, IsTable
  <1>3. \A a \in DOMAIN assignments : /\ assignments'[a] \in AssignmentRow
                                      /\ assignments'[a].reviewer = assignments[a].reviewer
                                      /\ assignments'[a].above = assignments[a].above
    BY <1>1, <1>2 DEF AssignmentRow
  <1>4. DOMAIN assignments' = DOMAIN assignments /\ IsTable(assignments', AssignmentIds, AssignmentRow)
    BY <1>1, <1>3 DEF DocInv, DocTypeOK, IsTable
  <1>5. ForeignKeys' /\ AboveClosed'
    BY <1>1, <1>3, <1>4 DEF DocInv, DocTypeOK, ForeignKeys, AboveClosed
  <1>6. QED
    BY <1>1, <1>4, <1>5 DEF DocInv, DocTypeOK

(* The deletion is done or rolled back as a whole.                          *)
LEMMA DestroyAssignmentKeeps ==
    ASSUME DocInv, NEW u \in Users, NEW a \in DOMAIN assignments, DestroyAssignment(u, a)
    PROVE  DocInv'
  <1> DEFINE r == assignments[a].reviewer
             failed == DeletionFails(Subtree({a}))
  <1>1. /\ assignments' = IF failed THEN assignments ELSE Without(assignments, Subtree({a}))
        /\ UNCHANGED <<assignees, toExecute>>
        /\ Counted("execute")
    BY DEF DestroyAssignment
  <1>2. /\ IsTable(reviewers', ReviewerIds, ReviewerRow)
        /\ DOMAIN reviewers' = DOMAIN reviewers
        /\ toReview' \subseteq Users
    <2>1. /\ IsTable(reviewers, ReviewerIds, ReviewerRow)
          /\ toReview \subseteq Users
          /\ r \in DOMAIN reviewers
      BY DEF DocInv, DocTypeOK, ForeignKeys
    <2>2. [reviewers[r] EXCEPT !.hasResolution = FALSE, !.status = "default"] \in ReviewerRow
      BY <2>1 DEF ReviewerRow, IsTable, Statuses
    <2>3. CASE SaveReviewer(r, [reviewers[r] EXCEPT !.hasResolution = FALSE, !.status = "default"])
      BY <2>1, <2>2, <2>3, SaveReviewerTable
    <2>4. CASE UNCHANGED <<reviewers, toReview>>
      BY <2>1, <2>4
    <2>5. QED
      BY <2>3, <2>4 DEF DestroyAssignment
  <1>3. /\ IsTable(assignments', AssignmentIds, AssignmentRow)
        /\ \A b \in DOMAIN assignments' : /\ b \in DOMAIN assignments
                                          /\ assignments'[b] = assignments[b]
                                          /\ assignments[b].above \subseteq DOMAIN assignments'
        /\ \A p \in DOMAIN assignees' : assignees'[p].assignment \in DOMAIN assignments'
        /\ AboveClosed'
    <2>1. CASE failed
      BY <1>1, <2>1 DEF DocInv, DocTypeOK, ForeignKeys, AboveClosed
    <2>2. CASE ~failed
      BY <1>1, <2>2, CascadeKeeps
    <2>3. QED
      BY <2>1, <2>2
  <1>4. ForeignKeys'
    BY <1>2, <1>3 DEF ForeignKeys, DocInv, DocTypeOK
  <1>5. /\ changes' \in [{"review", "execute"} -> Nat]
        /\ \A k \in {"review", "execute"} : changes'[k] <= MaxChanges[k]
    BY <1>1, CountedBound DEF DocInv, DocTypeOK
  <1>6. QED
    BY <1>1, <1>2, <1>3, <1>4, <1>5 DEF DocInv, DocTypeOK

(* An assignee reads or performs.                                           *)
LEMMA ExecuteStepKeeps ==
    ASSUME DocInv, NEW p \in DOMAIN assignees, ExecuteStep(p)
    PROVE  DocInv'
  <1> DEFINE a == assignees[p].assignment
  <1>1. /\ IsTable(reviewers, ReviewerIds, ReviewerRow)
        /\ IsTable(assignees, AssigneeIds, AssigneeRow)
        /\ IsTable(toExecute, Users, AssignmentIds)
        /\ \A q \in DOMAIN assignees : assignees[q].assignment \in DOMAIN assignments
        /\ a \in DOMAIN assignments /\ a \in AssignmentIds
        /\ assignments[a].reviewer \in DOMAIN reviewers
        /\ changes \in [{"review", "execute"} -> Nat]
        /\ \A k \in {"review", "execute"} : changes[k] <= MaxChanges[k]
        /\ \A q \in DOMAIN assignees : assignees[q] \in AssigneeRow
        /\ \A q \in DOMAIN reviewers : reviewers[q] \in ReviewerRow
    BY DEF DocInv, DocTypeOK, ForeignKeys, IsTable
  <1>2. ASSUME NEW row \in AssigneeRow, row.assignment = a, SaveAssignee(p, row)
        PROVE  /\ IsTable(assignees', AssigneeIds, AssigneeRow)
               /\ \A q \in DOMAIN assignees' : assignees'[q].assignment \in DOMAIN assignments
               /\ IsTable(toExecute', Users, AssignmentIds)
    <2>1. IsTable(assignees', AssigneeIds, AssigneeRow)
      BY <1>1, <1>2, ExceptTable DEF SaveAssignee
    <2>2. \A q \in DOMAIN assignees' : assignees'[q].assignment \in DOMAIN assignments
      BY <1>1, <1>2 DEF SaveAssignee
    <2>3. UsersOf(assignees', a) \subseteq Users
      BY <2>1, UsersArePeople
    <2>4. IsTable(toExecute', Users, AssignmentIds)
      BY <1>1, <1>2, <2>3, FanoutTable DEF SaveAssignee
    <2>5. QED
      BY <2>1, <2>2, <2>4
  <1>3. \A row \in AssigneeRow : Performed(row) \in AssigneeRow /\ Performed(row).assignment = row.assignment
    BY DEF Performed, AssigneeRow, Statuses
  <1>4. CASE AcquaintAssignee(p)
    <2> DEFINE row == [assignees[p] EXCEPT !.read = TRUE,
                          !.status = IF assignees[p].controller THEN @ ELSE "in_progress"]
    <2>1. row \in AssigneeRow /\ row.assignment = a
      BY <1>1 DEF AssigneeRow, Statuses
    <2>2. SaveAssignee(p, row) /\ UNCHANGED <<reviewers, assignments, toReview, changes>>
      BY <1>4 DEF AcquaintAssignee
    <2> HIDE DEF row
    <2>3. QED
      BY <1>1, <1>2, <2>1, <2>2, SameReviews
  <1>5. CASE PerformAssignment(p)
    <2>1. PICK row \in {assignees[p], Performed(assignees[p])} : SaveAssignee(p, row)
      BY <1>5 DEF PerformAssignment
    <2>2. row \in AssigneeRow /\ row.assignment = a
      BY <1>1, <1>3, <2>1
    <2>3. IsTable(reviewers', ReviewerIds, ReviewerRow) /\ DOMAIN reviewers' = DOMAIN reviewers
      <3> DEFINE r == assignments[a].reviewer
      <3>1. [reviewers[r] EXCEPT !.status = "on_hold"] \in ReviewerRow
        BY <1>1 DEF ReviewerRow, Statuses
      <3>2. CASE reviewers' = reviewers
        BY <1>1, <3>2
      <3>3. CASE reviewers' = [reviewers EXCEPT ![r] = [reviewers[r] EXCEPT !.status = "on_hold"]]
        <4>1. IsTable(reviewers', ReviewerIds, ReviewerRow)
          BY <1>1, <3>1, <3>3 DEF IsTable
        <4>2. DOMAIN reviewers' = DOMAIN reviewers
          BY <3>3
        <4>3. QED
          BY <4>1, <4>2
      <3>4. UNCHANGED reviewers \/ UpdateParentStatus(r)
        BY <1>5 DEF PerformAssignment
      <3>5. UpdateParentStatus(r) =>
               \/ reviewers' = reviewers
               \/ reviewers' = [reviewers EXCEPT ![r] = [reviewers[r] EXCEPT !.status = "on_hold"]]
        BY DEF UpdateParentStatus
      <3>6. QED
        BY <3>2, <3>3, <3>4, <3>5
    <2>4. QED
      BY <1>1, <1>2, <1>5, <2>1, <2>2, <2>3, SameReviews DEF PerformAssignment
  <1>6. CASE RemoveFromControl(p)
    <2> DEFINE rows == [assignees EXCEPT ![p] = Performed(assignees[p])]
    <2>1. /\ assignees' = assignees \/ assignees' = SetOtherStatusAsCompleted(rows, a)
          /\ toExecute' = SyncFanoutToAssignee(toExecute, a, UsersOf(assignees, a))
          /\ UNCHANGED <<reviewers, assignments, toReview, changes>>
      BY <1>6 DEF RemoveFromControl
    <2>2. DOMAIN rows = DOMAIN assignees
      OBVIOUS
    <2>3. \A q \in DOMAIN rows : rows[q] \in AssigneeRow /\ rows[q].assignment = assignees[q].assignment
      BY <1>1, <1>3
    <2> HIDE DEF rows
    <2>4. /\ IsTable(SetOtherStatusAsCompleted(rows, a), AssigneeIds, AssigneeRow)
          /\ \A q \in DOMAIN SetOtherStatusAsCompleted(rows, a) :
                SetOtherStatusAsCompleted(rows, a)[q].assignment \in DOMAIN assignments
      BY <1>1, <1>3, <2>2, <2>3 DEF SetOtherStatusAsCompleted, IsTable
    <2>5. IsTable(toExecute', Users, AssignmentIds)
      BY <1>1, <2>1, UsersArePeople, FanoutTable
    <2>6. QED
      BY <1>1, <2>1, <2>4, <2>5, SameReviews
  <1>7. QED
    BY <1>4, <1>5, <1>6 DEF ExecuteStep

(* The invariant holds at the beginning and in every step.                  *)
LEMMA DocInvInductive ==
    /\ DocInit => DocInv
    /\ DocInv /\ [DocNext]_docVars => DocInv'
  <1>1. ASSUME DocInit
        PROVE  DocInv
    <2>1. PICK U \in Listed : \E f \in Numberings(ReviewerIds, U) :
                 reviewers = [r \in DOMAIN f |-> NewReviewer(f[r], "default")]
      BY <1>1 DEF DocInit
    <2>2. PICK f \in Numberings(ReviewerIds, U) :
                 reviewers = [r \in DOMAIN f |-> NewReviewer(f[r], "default")]
      BY <2>1
    <2>3. IsTable(reviewers, ReviewerIds, ReviewerRow)
      BY <2>2, NumberingKeys, NewRows, DocFlowAssumption DEF IsTable, Statuses
    <2>4. toReview \subseteq Users
      BY <1>1, <2>3, UsersArePeople DEF DocInit
    <2>5. \A Keys, Row : IsTable(NoRows, Keys, Row) /\ DOMAIN NoRows = {}
      BY DEF NoRows, IsTable
    <2>6. ForeignKeys /\ AboveClosed
      BY <1>1, <2>5 DEF DocInit, ForeignKeys, AboveClosed
    <2>7. /\ changes \in [{"review", "execute"} -> Nat]
          /\ \A k \in {"review", "execute"} : changes[k] <= MaxChanges[k]
      BY <1>1, DocFlowAssumption DEF DocInit
    <2>8. QED
      BY <1>1, <2>3, <2>4, <2>5, <2>6, <2>7 DEF DocInv, DocTypeOK, DocInit
  <1>2. ASSUME DocInv, DocNext
        PROVE  DocInv'
    <2>1. CASE \E kept \in SUBSET DOMAIN reviewers, U \in SUBSET (Users \ UsersIn(reviewers)) :
                  \E added \in Numberings(ReviewerIds \ DOMAIN reviewers, U) : UpdateReviewers(kept, added)
      BY <1>2, <2>1, UpdateReviewersKeeps
    <2>2. CASE \E r \in DOMAIN reviewers : ReviewStep(r)
      BY <1>2, <2>2, ReviewStepKeeps
    <2>3. ASSUME NEW a \in AssignmentIds, AssignStep(a)
          PROVE  DocInv'
      BY <1>2, <2>3, CreateAssignmentKeeps, UpdateAssignmentKeeps, DestroyAssignmentKeeps DEF AssignStep
    <2>4. CASE \E u \in Users, A \in SUBSET DOMAIN assignments, isVerified \in BOOLEAN : Verify(u, A, isVerified)
      BY <1>2, <2>4, VerifyKeeps
    <2>5. CASE \E p \in DOMAIN assignees : ExecuteStep(p)
      BY <1>2, <2>5, ExecuteStepKeeps
    <2>6. QED
      BY <1>2, <2>1, <2>2, <2>3, <2>4, <2>5 DEF DocNext
  <1>3. ASSUME DocInv, UNCHANGED docVars
        PROVE  DocInv'
    BY <1>3 DEF DocInv, DocTypeOK, ForeignKeys, AboveClosed, docVars
  <1>4. QED
    BY <1>1, <1>2, <1>3

(* Rows are where their foreign keys point, whatever is updated, deleted or *)
(* rolled back.                                                             *)
THEOREM DocTypeCorrect == DocSpec => []DocTypeOK
  <1>1. DocInv => DocTypeOK
    BY DEF DocInv
  <1>2. QED
    BY <1>1, DocInvInductive, PTL DEF DocSpec

-----------------------------------------------------------------------------
(* The inboxes.                                                             *)

(* The users of a table depend on the user column only.                     *)
LEMMA SameUsers ==
    ASSUME NEW rows, NEW i \in DOMAIN rows, NEW row, row.user = rows[i].user
    PROVE  UsersIn([rows EXCEPT ![i] = row]) = UsersIn(rows)
  BY DEF UsersIn

(* Every step that changes reviewers runs the fan-out to their inbox.       *)
LEMMA ReviewInboxStep ==
    ASSUME DocInv, ReviewInboxExact, DocNext
    PROVE  ReviewInboxExact'
  <1> USE DEF ReviewInboxExact
  <1>1. \A r, row : SaveReviewer(r, row) => toReview' = UsersIn(reviewers')
    BY DEF SaveReviewer, SyncFanoutToReview
  <1>2. ASSUME UNCHANGED <<reviewers, toReview>>
        PROVE  ReviewInboxExact'
    BY <1>2 DEF UsersIn
  <1>3. ASSUME NEW kept \in SUBSET DOMAIN reviewers, NEW U,
               NEW added \in Numberings(ReviewerIds \ DOMAIN reviewers, U), UpdateReviewers(kept, added)
        PROVE  ReviewInboxExact'
    <2>1. PICK deleted \in SUBSET DOMAIN reviewers :
             /\ reviewers' = Insert(Without(reviewers, deleted),
                                    [r \in DOMAIN added |-> NewReviewer(added[r], "none")])
             /\ \/ kept \cup DOMAIN added \cup deleted = {} /\ UNCHANGED toReview
                \/ toReview' = UsersIn(reviewers')
      BY <1>3 DEF UpdateReviewers, SyncFanoutToReview
    <2>2. CASE kept \cup DOMAIN added \cup deleted = {} /\ UNCHANGED toReview
      <3>1. DOMAIN added = {} /\ deleted = {}
        BY <2>2
      <3>2. DOMAIN reviewers' = DOMAIN reviewers /\ \A r \in DOMAIN reviewers : reviewers'[r] = reviewers[r]
        BY <2>1, <3>1 DEF Insert, Without
      <3>3. QED
        BY <2>2, <3>2 DEF UsersIn
    <2>3. QED
      BY <2>1, <2>2
  <1>4. ASSUME NEW r \in DOMAIN reviewers, ReviewStep(r)
        PROVE  ReviewInboxExact'
    BY <1>1, <1>4 DEF ReviewStep, DestroyReviewer, AcquaintReviewer, PerformReview, ChangeReviewer,
                      SyncFanoutToReview
  <1>5. ASSUME NEW a \in AssignmentIds, AssignStep(a)
        PROVE  ReviewInboxExact'
    <2>1. ASSUME NEW by, NEW r, NEW parent, NEW project, NEW list, NEW ids,
                 CreateAssignment(by, r, parent, project, list, a, ids)
          PROVE  ReviewInboxExact'
      BY <1>1, <1>2, <2>1 DEF CreateAssignment
    <2>2. ASSUME NEW kept, NEW ids, UpdateAssignment(a, kept, ids)
          PROVE  ReviewInboxExact'
      BY <1>2, <2>2 DEF UpdateAssignment
    <2>3. ASSUME NEW u, DestroyAssignment(u, a)
          PROVE  ReviewInboxExact'
      BY <1>1, <1>2, <2>3 DEF DestroyAssignment
    <2>4. QED
      BY <1>5, <2>1, <2>2, <2>3 DEF AssignStep
  <1>6. ASSUME NEW p \in DOMAIN assignees, ExecuteStep(p)
        PROVE  ReviewInboxExact'
    <2>1. CASE UNCHANGED <<reviewers, toReview>>
      BY <1>2, <2>1
    <2>2. ASSUME NEW r, UpdateParentStatus(r), UNCHANGED toReview, r \in DOMAIN reviewers
          PROVE  ReviewInboxExact'
      <3>1. CASE reviewers' = reviewers
        BY <1>2, <2>2, <3>1
      <3>2. CASE reviewers' = [reviewers EXCEPT ![r] = [reviewers[r] EXCEPT !.status = "on_hold"]]
        <4>1. reviewers[r] \in ReviewerRow
          BY <2>2 DEF DocInv, DocTypeOK, IsTable
        <4>2. [reviewers[r] EXCEPT !.status = "on_hold"].user = reviewers[r].user
          BY <4>1 DEF ReviewerRow
        <4>3. QED
          BY <2>2, <3>2, <4>2, SameUsers
      <3>3. QED
        BY <2>2, <3>1, <3>2 DEF UpdateParentStatus
    <2>3. \/ UNCHANGED <<reviewers, toReview>>
          \/ UpdateParentStatus(assignments[assignees[p].assignment].reviewer) /\ UNCHANGED toReview
      BY <1>6 DEF ExecuteStep, AcquaintAssignee, PerformAssignment, RemoveFromControl
    <2>4. assignments[assignees[p].assignment].reviewer \in DOMAIN reviewers
      BY DEF DocInv, DocTypeOK, ForeignKeys
    <2>5. QED
      BY <2>1, <2>2, <2>3, <2>4
  <1>7. ASSUME NEW u, NEW A, NEW v, Verify(u, A, v)
        PROVE  ReviewInboxExact'
    BY <1>2, <1>7 DEF Verify
  <1>8. QED
    BY <1>3, <1>4, <1>5, <1>6, <1>7 DEF DocNext

(* The review inbox equals the reviewers, for any number of requests.       *)
THEOREM ReviewInboxIsExact == DocSpec => []ReviewInboxExact
  <1>1. DocInit => ReviewInboxExact
    BY DEF DocInit, ReviewInboxExact
  <1>2. ReviewInboxExact /\ UNCHANGED docVars => ReviewInboxExact'
    BY DEF ReviewInboxExact, docVars, UsersIn
  <1>3. DocInv /\ ReviewInboxExact /\ [DocNext]_docVars => ReviewInboxExact'
    BY <1>2, ReviewInboxStep
  <1>4. QED
    BY <1>1, <1>3, DocInvInductive, PTL DEF DocSpec

-----------------------------------------------------------------------------
(* The execution inbox.                                                     *)

(* Requests that delete no assignment and leave assignees and inbox alone.  *)
LEMMA InboxOfSameAssignees ==
    ASSUME ExecuteInboxOfOneAssignment, UNCHANGED <<assignees, toExecute>>,
           \A a \in DOMAIN assignments : a \in DOMAIN assignments' \/ DOMAIN toExecute # UsersOf(assignees, a)
    PROVE  ExecuteInboxOfOneAssignment'
  <1>1. CASE DOMAIN toExecute = {}
    BY <1>1 DEF ExecuteInboxOfOneAssignment
  <1>2. ASSUME NEW a \in DOMAIN assignments, DOMAIN toExecute = UsersOf(assignees, a)
        PROVE  ExecuteInboxOfOneAssignment'
    <2>1. a \in DOMAIN assignments'
      BY <1>2
    <2>2. DOMAIN toExecute' = UsersOf(assignees', a)
      BY <1>2 DEF UsersOf, AssigneesOf
    <2>3. QED
      BY <2>1, <2>2 DEF ExecuteInboxOfOneAssignment
  <1>3. QED
    BY <1>1, <1>2 DEF ExecuteInboxOfOneAssignment

(* Deletions take only assignments nobody executes.                         *)
LEMMA InboxOfCascade ==
    ASSUME ExecuteInboxOfOneAssignment, UNCHANGED <<assignees, toExecute>>,
           NEW A, ~DeletionFails(A), DOMAIN assignments \ A \subseteq DOMAIN assignments'
    PROVE  ExecuteInboxOfOneAssignment'
  <1>1. ASSUME NEW a \in DOMAIN assignments, a \in A
        PROVE  UsersOf(assignees, a) = {}
    BY <1>1 DEF DeletionFails, UsersOf, AssigneesOf
  <1>2. CASE DOMAIN toExecute = {}
    BY <1>2 DEF ExecuteInboxOfOneAssignment
  <1>3. CASE DOMAIN toExecute # {}
    BY <1>1, <1>3, InboxOfSameAssignees
  <1>4. QED
    BY <1>2, <1>3

(* The last fan-out of a request has an assignment's assignees as target.   *)
LEMMA InboxOfFanout ==
    ASSUME NEW items, NEW a \in DOMAIN assignments',
           toExecute' = SyncFanoutToAssignee(items, a, UsersOf(assignees', a))
    PROVE  ExecuteInboxOfOneAssignment'
  <1>1. DOMAIN toExecute' = UsersOf(assignees', a)
    BY DEF SyncFanoutToAssignee
  <1>2. QED
    BY <1>1 DEF ExecuteInboxOfOneAssignment

(* Every step that changes assignees runs the fan-out of one assignment.    *)
LEMMA ExecuteInboxStep ==
    ASSUME DocInv, ExecuteInboxOfOneAssignment, DocNext
    PROVE  ExecuteInboxOfOneAssignment'
  <1>1. ASSUME UNCHANGED <<assignments, assignees, toExecute>>
        PROVE  ExecuteInboxOfOneAssignment'
    BY <1>1, InboxOfSameAssignees
  <1>2. ASSUME NEW kept \in SUBSET DOMAIN reviewers, NEW U,
               NEW added \in Numberings(ReviewerIds \ DOMAIN reviewers, U), UpdateReviewers(kept, added)
        PROVE  ExecuteInboxOfOneAssignment'
    <2> DEFINE Of(D) == Subtree(UNION {AssignmentsOf(r) : r \in D})
    <2>1. PICK deleted \in SUBSET DOMAIN reviewers :
             /\ \A r \in deleted : ~DeletionFails(Subtree(AssignmentsOf(r)))
             /\ assignments' = Without(assignments, Of(deleted))
      BY <1>2 DEF UpdateReviewers
    <2>2. ~DeletionFails(Of(deleted))
      BY <2>1 DEF DeletionFails, Subtree
    <2>3. DOMAIN assignments \ Of(deleted) \subseteq DOMAIN assignments'
      BY <2>1 DEF Without
    <2>4. UNCHANGED <<assignees, toExecute>>
      BY <1>2 DEF UpdateReviewers
    <2> HIDE DEF Of
    <2>5. QED
      BY <2>2, <2>3, <2>4, InboxOfCascade
  <1>3. ASSUME NEW r \in DOMAIN reviewers, ReviewStep(r)
        PROVE  ExecuteInboxOfOneAssignment'
    <2>1. CASE DestroyReviewer(r)
      <3>1. DOMAIN assignments \ Subtree(AssignmentsOf(r)) \subseteq DOMAIN assignments'
        BY <2>1 DEF DestroyReviewer, Without
      <3>2. QED
        BY <2>1, <3>1, InboxOfCascade DEF DestroyReviewer
    <2>2. CASE UNCHANGED <<assignments, assignees, toExecute>>
      BY <1>1, <2>2
    <2>3. QED
      BY <1>3, <2>1, <2>2 DEF ReviewStep, AcquaintReviewer, PerformReview, ChangeReviewer
  <1>4. ASSUME NEW a \in AssignmentIds, AssignStep(a)
        PROVE  ExecuteInboxOfOneAssignment'
    <2>1. ASSUME NEW by, NEW r, NEW parent, NEW project, NEW list,
                 NEW ids \in Numberings(AssigneeIds \ DOMAIN assignees, DOMAIN list),
                 CreateAssignment(by, r, parent, project, list, a, ids)
          PROVE  ExecuteInboxOfOneAssignment'
      <3>1. DOMAIN assignments \subseteq DOMAIN assignments' /\ a \in DOMAIN assignments'
        BY <2>1 DEF CreateAssignment, Insert
      <3>2. CASE CheckDuplicates(parent, list)
        <4>1. UNCHANGED <<assignees, toExecute>>
          BY <2>1, <3>2 DEF CreateAssignment
        <4>2. QED
          BY <3>1, <4>1, InboxOfSameAssignees
      <3>3. CASE ~CheckDuplicates(parent, list)
        <4>1. /\ assignees' = Insert(assignees, [p \in DOMAIN ids |-> NewAssignee(a, ids[p], list[ids[p]])])
              /\ \E items : toExecute' = SyncFanoutToAssignee(items, a, DOMAIN list)
          BY <2>1, <3>3 DEF CreateAssignment
        <4>2. a \notin DOMAIN assignments /\ DOMAIN ids \cap DOMAIN assignees = {}
          BY <2>1 DEF CreateAssignment
        <4>3. \A p \in DOMAIN assignees : assignees[p].assignment # a
          BY <4>2 DEF DocInv, DocTypeOK, ForeignKeys
        <4>4. /\ DOMAIN assignees' = DOMAIN assignees \cup DOMAIN ids
              /\ \A p \in DOMAIN ids : assignees'[p] = NewAssignee(a, ids[p], list[ids[p]])
              /\ \A p \in DOMAIN assignees : assignees'[p] = assignees[p]
          BY <4>1, <4>2 DEF Insert
        <4>5. /\ \A p \in DOMAIN ids : assignees'[p].assignment = a /\ assignees'[p].user = ids[p]
              /\ \A p \in DOMAIN assignees : assignees'[p].assignment # a
          BY <4>3, <4>4 DEF NewAssignee
        <4>6. Range(ids) = DOMAIN list
          BY NumberingKeys
        <4>7. UsersOf(assignees', a) = DOMAIN list
          <5>1. AssigneesOf(assignees', a) = DOMAIN ids
            BY <4>4, <4>5 DEF AssigneesOf
          <5>2. UsersOf(assignees', a) = {ids[p] : p \in DOMAIN ids}
            BY <4>5, <5>1 DEF UsersOf
          <5>3. QED
            BY <4>6, <5>2 DEF Range
        <4>8. QED
          BY <3>1, <4>1, <4>7, InboxOfFanout
      <3>4. QED
        BY <3>2, <3>3
    <2>2. ASSUME a \in DOMAIN assignments, NEW kept, NEW ids, UpdateAssignment(a, kept, ids)
          PROVE  ExecuteInboxOfOneAssignment'
      <3>1. PICK items : toExecute' = SyncFanoutToAssignee(items, a, UsersOf(assignees', a))
        BY <2>2 DEF UpdateAssignment
      <3>2. a \in DOMAIN assignments'
        BY <2>2 DEF UpdateAssignment
      <3>3. QED
        BY <3>1, <3>2, InboxOfFanout
    <2>3. ASSUME NEW u, DestroyAssignment(u, a)
          PROVE  ExecuteInboxOfOneAssignment'
      <3>1. UNCHANGED <<assignees, toExecute>>
        BY <2>3 DEF DestroyAssignment
      <3>2. CASE DeletionFails(Subtree({a}))
        <4>1. UNCHANGED assignments
          BY <2>3, <3>2 DEF DestroyAssignment
        <4>2. QED
          BY <1>1, <3>1, <4>1
      <3>3. CASE ~DeletionFails(Subtree({a}))
        <4>1. assignments' = Without(assignments, Subtree({a}))
          BY <2>3, <3>3 DEF DestroyAssignment
        <4>2. DOMAIN assignments \ Subtree({a}) \subseteq DOMAIN assignments'
          BY <4>1 DEF Without
        <4>3. QED
          BY <3>1, <3>3, <4>2, InboxOfCascade
      <3>4. QED
        BY <3>2, <3>3
    <2>4. QED
      BY <1>4, <2>1, <2>2, <2>3 DEF AssignStep
  <1>5. ASSUME NEW u, NEW A, NEW v, Verify(u, A, v)
        PROVE  ExecuteInboxOfOneAssignment'
    <2>1. DOMAIN assignments' = DOMAIN assignments /\ UNCHANGED <<assignees, toExecute>>
      BY <1>5 DEF Verify
    <2>2. QED
      BY <2>1, InboxOfSameAssignees
  <1>6. ASSUME NEW p \in DOMAIN assignees, ExecuteStep(p)
        PROVE  ExecuteInboxOfOneAssignment'
    <2> DEFINE a == assignees[p].assignment
    <2>1. assignees[p] \in AssigneeRow /\ a \in DOMAIN assignments
      BY DEF DocInv, DocTypeOK, ForeignKeys, IsTable
    <2>2. UNCHANGED assignments
      BY <1>6 DEF ExecuteStep, AcquaintAssignee, PerformAssignment, RemoveFromControl
    <2>3. ASSUME NEW row, row.assignment = a, SaveAssignee(p, row)
          PROVE  ExecuteInboxOfOneAssignment'
      <3>1. toExecute' = SyncFanoutToAssignee(toExecute, a, UsersOf(assignees', a))
        BY <2>3 DEF SaveAssignee
      <3>2. QED
        BY <2>1, <2>2, <3>1, InboxOfFanout
    <2>4. CASE AcquaintAssignee(p)
      <3> DEFINE row == [assignees[p] EXCEPT !.read = TRUE,
                            !.status = IF assignees[p].controller THEN @ ELSE "in_progress"]
      <3>1. row.assignment = a
        BY <2>1 DEF AssigneeRow
      <3>2. SaveAssignee(p, row)
        BY <2>4 DEF AcquaintAssignee
      <3> HIDE DEF row
      <3>3. QED
        BY <2>3, <3>1, <3>2
    <2>5. CASE PerformAssignment(p)
      <3>1. PICK row \in {assignees[p], Performed(assignees[p])} : SaveAssignee(p, row)
        BY <2>5 DEF PerformAssignment
      <3>2. row.assignment = a
        BY <2>1, <3>1 DEF Performed, AssigneeRow
      <3>3. QED
        BY <2>3, <3>1, <3>2
    <2>6. CASE RemoveFromControl(p)
      <3> DEFINE rows == [assignees EXCEPT ![p] = Performed(assignees[p])]
      <3>1. /\ assignees' = assignees \/ assignees' = SetOtherStatusAsCompleted(rows, a)
            /\ toExecute' = SyncFanoutToAssignee(toExecute, a, UsersOf(assignees, a))
        BY <2>6 DEF RemoveFromControl
      <3>2. DOMAIN rows = DOMAIN assignees
        OBVIOUS
      <3>3. \A q \in DOMAIN assignees : assignees[q] \in AssigneeRow
        BY DEF DocInv, DocTypeOK, IsTable
      <3>4. \A row \in AssigneeRow : /\ Performed(row) \in AssigneeRow
                                     /\ Performed(row).assignment = row.assignment
                                     /\ Performed(row).user = row.user
        BY DEF Performed, AssigneeRow, Statuses
      <3>5. \A q \in DOMAIN rows : /\ rows[q] \in AssigneeRow
                                   /\ rows[q].assignment = assignees[q].assignment
                                   /\ rows[q].user = assignees[q].user
        BY <3>3, <3>4
      <3> HIDE DEF rows
      <3>6. /\ DOMAIN assignees' = DOMAIN assignees
            /\ \A q \in DOMAIN assignees : /\ assignees'[q].assignment = assignees[q].assignment
                                           /\ assignees'[q].user = assignees[q].user
        BY <3>1, <3>2, <3>4, <3>5 DEF SetOtherStatusAsCompleted
      <3>7. UsersOf(assignees', a) = UsersOf(assignees, a)
        BY <3>6 DEF UsersOf, AssigneesOf
      <3>8. QED
        BY <2>1, <2>2, <3>1, <3>7, InboxOfFanout
    <2>7. QED
      BY <1>6, <2>4, <2>5, <2>6 DEF ExecuteStep
  <1>7. QED
    BY <1>2, <1>3, <1>4, <1>5, <1>6 DEF DocNext

(* Nobody has an item to_execute without being an assignee: the items are   *)
(* the assignees of one assignment.                                         *)
THEOREM ExecuteInboxIsOfOneAssignment == DocSpec => []ExecuteInboxOfOneAssignment
  <1>1. DocInit => ExecuteInboxOfOneAssignment
    BY DEF DocInit, ExecuteInboxOfOneAssignment, NoRows
  <1>2. ExecuteInboxOfOneAssignment /\ UNCHANGED docVars => ExecuteInboxOfOneAssignment'
    BY InboxOfSameAssignees DEF docVars
  <1>3. DocInv /\ ExecuteInboxOfOneAssignment /\ [DocNext]_docVars => ExecuteInboxOfOneAssignment'
    BY <1>2, ExecuteInboxStep
  <1>4. QED
    BY <1>1, <1>3, DocInvInductive, PTL DEF DocSpec

-----------------------------------------------------------------------------
(* Action properties: what one request does to the rows of the others.      *)

(* What a reviewer's row keeps: its person, unless nobody was assigned for  *)
(* him, and finished work is not put on hold.                               *)
ReviewerRowKept(r) ==
    /\ reviewers'[r].user = reviewers[r].user \/ AssignmentsOf(r) = {}
    /\ reviewers[r].status = "done" => reviewers'[r].status # "on_hold"

(* Saving one reviewer's row.                                               *)
LEMMA SavedReviewerKept ==
    ASSUME DocInv, NEW q \in DOMAIN reviewers, NEW row, SaveReviewer(q, row),
           row.user = reviewers[q].user \/ AssignmentsOf(q) = {},
           reviewers[q].status = "done" => row.status # "on_hold"
    PROVE  \A r \in DOMAIN reviewers \cap DOMAIN reviewers' : ReviewerRowKept(r)
  <1>1. IsTable(reviewers, ReviewerIds, ReviewerRow)
    BY DEF DocInv, DocTypeOK
  <1>2. reviewers'[q] = row /\ \A r \in DOMAIN reviewers \ {q} : reviewers'[r] = reviewers[r]
    BY <1>1 DEF SaveReviewer, IsTable
  <1>3. \A r \in DOMAIN reviewers : reviewers[r].status = "done" => reviewers[r].status # "on_hold"
    OBVIOUS
  <1>4. QED
    BY <1>2, <1>3 DEF ReviewerRowKept

(* A request that leaves the reviewers alone.                               *)
LEMMA SameReviewersKept ==
    ASSUME reviewers' = reviewers
    PROVE  \A r \in DOMAIN reviewers \cap DOMAIN reviewers' : ReviewerRowKept(r)
  BY DEF ReviewerRowKept

(* Every request keeps the rows of reviewers in that sense.                 *)
LEMMA ReviewerRowsKept ==
    ASSUME DocInv, DocNext
    PROVE  \A r \in DOMAIN reviewers \cap DOMAIN reviewers' : ReviewerRowKept(r)
  <1> DEFINE Kept == \A r \in DOMAIN reviewers \cap DOMAIN reviewers' : ReviewerRowKept(r)
  <1>0. \A r \in DOMAIN reviewers : reviewers[r] \in ReviewerRow
    BY DEF DocInv, DocTypeOK, IsTable
  <1>1. ASSUME NEW kept \in SUBSET DOMAIN reviewers, NEW U,
               NEW added \in Numberings(ReviewerIds \ DOMAIN reviewers, U), UpdateReviewers(kept, added)
        PROVE  Kept
    <2>1. PICK deleted :
             reviewers' = Insert(Without(reviewers, deleted),
                                 [r \in DOMAIN added |-> NewReviewer(added[r], "none")])
      BY <1>1 DEF UpdateReviewers
    <2>2. DOMAIN added \cap DOMAIN reviewers = {}
      BY <1>1 DEF UpdateReviewers
    <2>3. \A r \in DOMAIN reviewers \cap DOMAIN reviewers' : reviewers'[r] = reviewers[r]
      BY <2>1, <2>2 DEF Insert, Without
    <2>4. QED
      BY <2>3 DEF ReviewerRowKept
  <1>2. ASSUME NEW r \in DOMAIN reviewers, ReviewStep(r)
        PROVE  Kept
    <2>1. CASE DestroyReviewer(r)
      <3>1. \A q \in DOMAIN reviewers \cap DOMAIN reviewers' : reviewers'[q] = reviewers[q]
        BY <2>1 DEF DestroyReviewer, Without
      <3>2. QED
        BY <3>1 DEF ReviewerRowKept
    <2>2. CASE AcquaintReviewer(r)
      <3> DEFINE row == [reviewers[r] EXCEPT !.read = TRUE, !.status = "in_progress"]
      <3>1. row.user = reviewers[r].user /\ row.status # "on_hold"
        BY <1>0 DEF ReviewerRow
      <3>2. SaveReviewer(r, row)
        BY <2>2 DEF AcquaintReviewer
      <3> HIDE DEF row
      <3>3. QED
        BY <3>1, <3>2, SavedReviewerKept
    <2>3. CASE PerformReview(r)
      <3> DEFINE row == [reviewers[r] EXCEPT !.read = TRUE, !.status = "done"]
      <3>1. row.user = reviewers[r].user /\ row.status # "on_hold"
        BY <1>0 DEF ReviewerRow
      <3>2. SaveReviewer(r, row)
        BY <2>3 DEF PerformReview
      <3> HIDE DEF row
      <3>3. QED
        BY <3>1, <3>2, SavedReviewerKept
    <2>4. ASSUME NEW u \in Users, ChangeReviewer(r, u)
          PROVE  Kept
      <3>1. NewReviewer(u, "default").status # "on_hold"
        BY DEF NewReviewer
      <3>2. SaveReviewer(r, NewReviewer(u, "default")) /\ AssignmentsOf(r) = {}
        BY <2>4 DEF ChangeReviewer
      <3>3. QED
        BY <3>1, <3>2, SavedReviewerKept
    <2>5. QED
      BY <1>2, <2>1, <2>2, <2>3, <2>4 DEF ReviewStep
  <1>3. ASSUME NEW a \in AssignmentIds, AssignStep(a)
        PROVE  Kept
    <2>1. ASSUME NEW by, NEW r \in DOMAIN reviewers, NEW parent, NEW project, NEW list, NEW ids,
                 CreateAssignment(by, r, parent, project, list, a, ids)
          PROVE  Kept
      <3> DEFINE row == [reviewers[r] EXCEPT !.hasResolution = TRUE]
      <3>1. row.user = reviewers[r].user /\ row.status = reviewers[r].status
        BY <1>0 DEF ReviewerRow
      <3>2. SaveReviewer(r, row) \/ reviewers' = reviewers
        BY <2>1 DEF CreateAssignment
      <3> HIDE DEF row
      <3>3. QED
        BY <3>1, <3>2, SavedReviewerKept, SameReviewersKept
    <2>2. ASSUME NEW kept, NEW ids, UpdateAssignment(a, kept, ids)
          PROVE  Kept
      BY <2>2, SameReviewersKept DEF UpdateAssignment
    <2>3. ASSUME NEW u, a \in DOMAIN assignments, DestroyAssignment(u, a)
          PROVE  Kept
      <3> DEFINE r == assignments[a].reviewer
                 row == [reviewers[r] EXCEPT !.hasResolution = FALSE, !.status = "default"]
      <3>1. r \in DOMAIN reviewers
        BY <2>3 DEF DocInv, DocTypeOK, ForeignKeys
      <3>2. row.user = reviewers[r].user /\ row.status # "on_hold"
        BY <1>0, <3>1 DEF ReviewerRow
      <3>3. SaveReviewer(r, row) \/ reviewers' = reviewers
        BY <2>3 DEF DestroyAssignment
      <3> HIDE DEF r, row
      <3>4. QED
        BY <3>1, <3>2, <3>3, SavedReviewerKept, SameReviewersKept
    <2>4. QED
      BY <1>3, <2>1, <2>2, <2>3 DEF AssignStep
  <1>4. ASSUME NEW u, NEW A, NEW v, Verify(u, A, v)
        PROVE  Kept
    BY <1>4, SameReviewersKept DEF Verify
  <1>5. ASSUME NEW p \in DOMAIN assignees, ExecuteStep(p)
        PROVE  Kept
    <2> DEFINE r == assignments[assignees[p].assignment].reviewer
    <2>1. r \in DOMAIN reviewers
      BY DEF DocInv, DocTypeOK, ForeignKeys
    <2>2. \/ reviewers' = reviewers
          \/ reviewers[r].status # "done" /\ reviewers' = [reviewers EXCEPT ![r].status = "on_hold"]
      BY <1>5 DEF ExecuteStep, AcquaintAssignee, PerformAssignment, RemoveFromControl, UpdateParentStatus
    <2> HIDE DEF r
    <2>3. CASE reviewers[r].status # "done" /\ reviewers' = [reviewers EXCEPT ![r].status = "on_hold"]
      <3>1. /\ \A q \in DOMAIN reviewers \ {r} : reviewers'[q] = reviewers[q]
            /\ reviewers'[r].user = reviewers[r].user
        BY <1>0, <2>1, <2>3 DEF ReviewerRow
      <3>2. QED
        BY <2>3, <3>1 DEF ReviewerRowKept
    <2>4. QED
      BY <2>2, <2>3, SameReviewersKept
  <1>6. QED
    BY <1>1, <1>2, <1>3, <1>4, <1>5 DEF DocNext

(* An assignment stays with its reviewer, and a request that deletes one    *)
(* changes no assignee.                                                     *)
LEMMA AssignmentRowsKept ==
    ASSUME DocInv, DocNext
    PROVE  /\ \A a \in DOMAIN assignments \cap DOMAIN assignments' :
                assignments'[a].reviewer = assignments[a].reviewer
           /\ assignees' = assignees \/ DOMAIN assignments \subseteq DOMAIN assignments'
  <1> DEFINE Kept == /\ \A a \in DOMAIN assignments \cap DOMAIN assignments' :
                          assignments'[a].reviewer = assignments[a].reviewer
                     /\ assignees' = assignees \/ DOMAIN assignments \subseteq DOMAIN assignments'
  <1>1. ASSUME NEW A, assignments' = Without(assignments, A), assignees' = assignees
        PROVE  Kept
    BY <1>1 DEF Without
  <1>2. ASSUME assignments' = assignments
        PROVE  Kept
    BY <1>2
  <1>3. ASSUME NEW a \in AssignmentIds, AssignStep(a)
        PROVE  Kept
    <2>1. ASSUME NEW by, NEW r, NEW parent, NEW project, NEW list, NEW ids,
                 CreateAssignment(by, r, parent, project, list, a, ids)
          PROVE  Kept
      <3>1. PICK row : /\ a \notin DOMAIN assignments
                       /\ assignments' = Insert(assignments, [i \in {a} |-> row])
        BY <2>1 DEF CreateAssignment
      <3>2. /\ DOMAIN assignments \subseteq DOMAIN assignments'
            /\ \A b \in DOMAIN assignments : assignments'[b] = assignments[b]
        BY <3>1 DEF Insert
      <3>3. QED
        BY <3>2
    <2>2. ASSUME NEW kept, NEW ids, UpdateAssignment(a, kept, ids)
          PROVE  Kept
      BY <1>2, <2>2 DEF UpdateAssignment
    <2>3. ASSUME NEW u, DestroyAssignment(u, a)
          PROVE  Kept
      BY <1>1, <1>2, <2>3 DEF DestroyAssignment
    <2>4. QED
      BY <1>3, <2>1, <2>2, <2>3 DEF AssignStep
  <1>4. ASSUME NEW u, NEW A, NEW v, Verify(u, A, v)
        PROVE  Kept
    <2>1. \A a \in DOMAIN assignments : assignments[a] \in AssignmentRow
      BY DEF DocInv, DocTypeOK, IsTable
    <2>2. /\ DOMAIN assignments' = DOMAIN assignments
          /\ \A a \in DOMAIN assignments :
               assignments'[a] = IF a \in A THEN [assignments[a] EXCEPT !.verified = v] ELSE assignments[a]
      BY <1>4 DEF Verify
    <2>3. QED
      BY <2>1, <2>2 DEF AssignmentRow
  <1>5. QED
    <2>1. ASSUME NEW kept, NEW added, UpdateReviewers(kept, added)
          PROVE  Kept
      BY <1>1, <2>1 DEF UpdateReviewers
    <2>2. ASSUME NEW r, ReviewStep(r)
          PROVE  Kept
      BY <1>1, <1>2, <2>2 DEF ReviewStep, DestroyReviewer, AcquaintReviewer, PerformReview, ChangeReviewer
    <2>3. ASSUME NEW p, ExecuteStep(p)
          PROVE  Kept
      BY <1>2, <2>3 DEF ExecuteStep, AcquaintAssignee, PerformAssignment, RemoveFromControl
    <2> HIDE DEF Kept
    <2>4. Kept
      BY <1>3, <1>4, <2>1, <2>2, <2>3 DEF DocNext
    <2>5. QED
      BY <2>4 DEF Kept

(* Only those who execute change the row of an assignee who stays.          *)
LEMMA AssigneeRowsKept ==
    ASSUME DocNext, ~ \E p \in DOMAIN assignees : ExecuteStep(p)
    PROVE  \A p \in DOMAIN assignees \cap DOMAIN assignees' : assignees'[p] = assignees[p]
  <1> DEFINE Kept == \A p \in DOMAIN assignees \cap DOMAIN assignees' : assignees'[p] = assignees[p]
  <1>1. ASSUME NEW a \in AssignmentIds, AssignStep(a)
        PROVE  Kept
    <2>1. ASSUME NEW by, NEW r, NEW parent, NEW project, NEW list, NEW ids,
                 CreateAssignment(by, r, parent, project, list, a, ids)
          PROVE  Kept
      <3>1. DOMAIN ids \cap DOMAIN assignees = {}
        BY <2>1 DEF CreateAssignment
      <3>2. \/ assignees' = assignees
            \/ assignees' = Insert(assignees, [p \in DOMAIN ids |-> NewAssignee(a, ids[p], list[ids[p]])])
        BY <2>1 DEF CreateAssignment
      <3>3. QED
        BY <3>1, <3>2 DEF Insert
    <2>2. ASSUME NEW kept, NEW ids, UpdateAssignment(a, kept, ids)
          PROVE  Kept
      BY <2>2 DEF UpdateAssignment, Insert, Without
    <2>3. ASSUME NEW u, DestroyAssignment(u, a)
          PROVE  Kept
      BY <2>3 DEF DestroyAssignment
    <2>4. QED
      BY <1>1, <2>1, <2>2, <2>3 DEF AssignStep
  <1>2. CASE assignees' = assignees
    BY <1>2
  <1>3. QED
    BY <1>1, <1>2 DEF DocNext, UpdateReviewers, ReviewStep, DestroyReviewer, AcquaintReviewer,
                      PerformReview, ChangeReviewer, Verify

(* What those who execute do to the rows: one is read, or one or all of an  *)
(* assignment are performed.                                                *)
LEMMA ExecutedRows ==
    ASSUME DocInv, NEW p \in DOMAIN assignees, ExecuteStep(p)
    PROVE  /\ DOMAIN assignees' = DOMAIN assignees
           /\ \A q \in DOMAIN assignees :
                \/ /\ assignees'[q].performed = assignees[q].performed
                   /\ assignees'[q].status = assignees[q].status
                \/ /\ assignees'[q].performed = assignees[q].performed
                   /\ ~assignees[q].read /\ assignees'[q].read
                \/ /\ assignees'[q].status = "done"
                   /\ Verified(q)
                   /\ \/ assignees[q].read
                      \/ /\ p \in AssigneesOf(assignees, assignees[q].assignment)
                         /\ assignees[p].controller /\ assignees[p].read /\ assignees'[p].performed
  <1>0. \A q \in DOMAIN assignees : assignees[q] \in AssigneeRow
    BY DEF DocInv, DocTypeOK, IsTable
  <1>1. \A row \in AssigneeRow : /\ Performed(row).performed /\ Performed(row).status = "done"
                                 /\ Performed(row).controller = row.controller
                                 /\ Performed(row).assignment = row.assignment
    BY DEF Performed, AssigneeRow
  <1>2. CASE AcquaintAssignee(p)
    <2> DEFINE row == [assignees[p] EXCEPT !.read = TRUE,
                          !.status = IF assignees[p].controller THEN @ ELSE "in_progress"]
    <2>1. row.read /\ row.performed = assignees[p].performed
      BY <1>0 DEF AssigneeRow
    <2>2. assignees' = [assignees EXCEPT ![p] = row] /\ ~assignees[p].read
      BY <1>2 DEF AcquaintAssignee, SaveAssignee
    <2> HIDE DEF row
    <2>3. QED
      BY <2>1, <2>2
  <1>3. CASE PerformAssignment(p)
    <2>1. \/ assignees' = [assignees EXCEPT ![p] = assignees[p]]
          \/ assignees' = [assignees EXCEPT ![p] = Performed(assignees[p])]
      BY <1>3 DEF PerformAssignment, SaveAssignee
    <2>2. Verified(p) /\ assignees[p].read
      BY <1>3 DEF PerformAssignment
    <2>3. QED
      BY <1>0, <1>1, <2>1, <2>2
  <1>4. CASE RemoveFromControl(p)
    <2> DEFINE a == assignees[p].assignment
               rows == [assignees EXCEPT ![p] = Performed(assignees[p])]
    <2>1. Verified(p) /\ assignees[p].controller /\ assignees[p].read
      BY <1>4 DEF RemoveFromControl
    <2>2. assignees' = assignees \/ assignees' = SetOtherStatusAsCompleted(rows, a)
      BY <1>4 DEF RemoveFromControl
    <2>3. CASE assignees' = SetOtherStatusAsCompleted(rows, a)
      <3>1. DOMAIN assignees' = DOMAIN assignees
        BY <2>3 DEF SetOtherStatusAsCompleted
      <3>2. rows[p] = Performed(assignees[p]) /\ \A q \in DOMAIN assignees \ {p} : rows[q] = assignees[q]
        OBVIOUS
      <3>3. \A q \in DOMAIN assignees :
              assignees'[q] = IF rows[q].assignment = a /\ ~rows[q].controller THEN Performed(rows[q]) ELSE rows[q]
        BY <2>3 DEF SetOtherStatusAsCompleted
      <3>4. assignees'[p] = Performed(assignees[p])
        BY <1>0, <1>1, <2>1, <3>2, <3>3
      <3>5. \A q \in DOMAIN assignees \ {p} :
              \/ assignees'[q] = assignees[q]
              \/ assignees'[q] = Performed(assignees[q]) /\ assignees[q].assignment = a
        BY <3>2, <3>3
      <3>6. \A q \in DOMAIN assignees \ {p} : assignees[q].assignment = a =>
              Verified(q) /\ p \in AssigneesOf(assignees, assignees[q].assignment)
        BY <2>1 DEF Verified, AssigneesOf
      <3> HIDE DEF rows, a
      <3>7. QED
        BY <1>0, <1>1, <2>1, <3>1, <3>4, <3>5, <3>6
    <2>4. QED
      BY <2>2, <2>3
  <1>5. QED
    BY <1>2, <1>3, <1>4 DEF ExecuteStep

(* Nobody loses the assignment he was given, nor its reviewer: an           *)
(* assignment with assignees is not deleted, by whatever cascade            *)
(* (update_reviewers, destroy), and its review is not handed over           *)
(* (change_reviewer).                                                       *)
THEOREM AssignmentsWithAssigneesStay == DocSpec => AssigneesKeepReviewer
  <1>1. ASSUME DocInv, DocInv', [DocNext]_docVars, NEW p \in DOMAIN assignees
        PROVE  LET a == assignees[p].assignment
                   r == assignments[a].reviewer
               IN /\ a \in DOMAIN assignments'
                  /\ r \in DOMAIN reviewers'
                  /\ reviewers'[r].user = reviewers[r].user
    <2> DEFINE a == assignees[p].assignment
               r == assignments[a].reviewer
    <2>1. a \in DOMAIN assignments /\ r \in DOMAIN reviewers
      BY <1>1 DEF DocInv, DocTypeOK, ForeignKeys
    <2>2. CASE UNCHANGED docVars
      BY <2>1, <2>2 DEF docVars
    <2>3. CASE DocNext
      <3>1. a \in DOMAIN assignments'
        BY <1>1, <2>1, <2>3, AssignmentRowsKept DEF DocInv, DocTypeOK, ForeignKeys
      <3>2. assignments'[a].reviewer = r
        BY <1>1, <2>1, <2>3, <3>1, AssignmentRowsKept
      <3>3. r \in DOMAIN reviewers'
        BY <1>1, <3>1, <3>2 DEF DocInv, DocTypeOK, ForeignKeys
      <3>4. ReviewerRowKept(r)
        BY <1>1, <2>1, <2>3, <3>3, ReviewerRowsKept
      <3>5. AssignmentsOf(r) # {}
        BY <2>1 DEF AssignmentsOf
      <3>6. QED
        BY <3>1, <3>3, <3>4, <3>5 DEF ReviewerRowKept
    <2>4. QED
      BY <1>1, <2>2, <2>3
  <1>2. DocInv /\ DocInv' /\ [DocNext]_docVars =>
          \A p \in DOMAIN assignees :
             LET a == assignees[p].assignment
                 r == assignments[a].reviewer
             IN /\ a \in DOMAIN assignments'
                /\ r \in DOMAIN reviewers'
                /\ reviewers'[r].user = reviewers[r].user
    BY <1>1
  <1>3. QED
    BY <1>2, DocInvInductive, PTL DEF DocSpec, AssigneesKeepReviewer

(* Done stays done, whoever else acts on the document.                      *)
THEOREM DoneIsFinal == DocSpec => DoneStaysDone
  <1>1. ASSUME DocInv, [DocNext]_docVars
        PROVE  /\ \A p \in DOMAIN assignees \cap DOMAIN assignees' :
                    assignees[p].status = "done" =>
                       \/ assignees'[p].status = "done"
                       \/ ~assignees[p].read /\ assignees'[p].read
               /\ \A r \in DOMAIN reviewers \cap DOMAIN reviewers' :
                    reviewers[r].status = "done" => reviewers'[r].status # "on_hold"
    <2>1. CASE UNCHANGED docVars
      BY <2>1 DEF docVars
    <2>2. CASE DocNext
      <3>1. \A r \in DOMAIN reviewers \cap DOMAIN reviewers' : ReviewerRowKept(r)
        BY <1>1, <2>2, ReviewerRowsKept
      <3>2. ASSUME NEW p \in DOMAIN assignees \cap DOMAIN assignees', assignees[p].status = "done"
            PROVE  assignees'[p].status = "done" \/ (~assignees[p].read /\ assignees'[p].read)
        BY <1>1, <2>2, <3>2, AssigneeRowsKept, ExecutedRows
      <3>3. QED
        BY <3>1, <3>2 DEF ReviewerRowKept
    <2>3. QED
      BY <1>1, <2>1, <2>2
  <1>2. QED
    BY <1>1, DocInvInductive, PTL DEF DocSpec, DoneStaysDone

(* A task is marked as performed only through somebody who read it: the     *)
(* assignee himself, or a controller for everybody.                         *)
THEOREM PerformedByWhoRead == DocSpec => PerformedByReader
  <1>1. ASSUME DocInv, [DocNext]_docVars, NEW p \in DOMAIN assignees \cap DOMAIN assignees',
               ~assignees[p].performed, assignees'[p].performed
        PROVE  /\ Verified(p)
               /\ \/ assignees[p].read
                  \/ \E c \in AssigneesOf(assignees, assignees[p].assignment) :
                        assignees[c].controller /\ assignees[c].read /\ assignees'[c].performed
    <2>1. assignees'[p] # assignees[p]
      BY <1>1
    <2>2. PICK q \in DOMAIN assignees : ExecuteStep(q)
      BY <1>1, <2>1, AssigneeRowsKept DEF docVars
    <2>3. /\ Verified(p)
          /\ \/ assignees[p].read
             \/ /\ q \in AssigneesOf(assignees, assignees[p].assignment)
                /\ assignees[q].controller /\ assignees[q].read /\ assignees'[q].performed
      BY <1>1, <2>2, ExecutedRows
    <2>4. QED
      BY <2>3
  <1>2. DocInv /\ [DocNext]_docVars =>
          \A p \in DOMAIN assignees \cap DOMAIN assignees' :
             ~assignees[p].performed /\ assignees'[p].performed =>
                /\ Verified(p)
                /\ \/ assignees[p].read
                   \/ \E c \in AssigneesOf(assignees, assignees[p].assignment) :
                         assignees[c].controller /\ assignees[c].read /\ assignees'[c].performed
    BY <1>1
  <1>3. QED
    BY <1>2, DocInvInductive, PTL DEF DocSpec, PerformedByReader

=============================================================================
