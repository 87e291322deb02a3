------------------------ MODULE ComposeWorkflowProofs ------------------------
(* Proofs about ComposeWorkflow, for every set of people, every pair of     *)
(* lists and every bound.                                                   *)
EXTENDS ComposeWorkflow, TLAPS

-----------------------------------------------------------------------------
(* Tables.                                                                  *)

(* Deleting rows leaves a table.                                            *)
LEMMA WithoutTable ==
    ASSUME NEW ids, NEW rows, NEW T, IsTable(T, ids, rows), NEW gone
    PROVE  /\ IsTable(Without(T, gone), ids, rows)
           /\ DOMAIN Without(T, gone) = DOMAIN T \ gone
           /\ \A k \in DOMAIN T \ gone : Without(T, gone)[k] = T[k]
BY DEF IsTable, Without, Restrict

(* Inserting a row leaves a table.                                          *)
LEMMA CreatedTable ==
    ASSUME NEW ids, NEW rows, NEW T, IsTable(T, ids, rows), NEW row \in rows,
           NEW U \in Created(T, ids, row)
    PROVE  IsTable(U, ids, rows)
<1>1. PICK key \in ids \ DOMAIN T : U = Insert(T, key, row)
  BY DEF Created, NextKeys
<1>2. U = [k \in DOMAIN T \cup {key} |-> IF k = key THEN row ELSE T[k]]
  BY <1>1 DEF Insert
<1>3. \A k \in DOMAIN T : T[k] \in rows
  BY DEF IsTable
<1>4. QED
  BY <1>1, <1>2, <1>3 DEF IsTable

(* So does inserting one of a set of new rows, if there are any.            *)
LEMMA WithNewTable ==
    ASSUME NEW ids, NEW rows, NEW T, IsTable(T, ids, rows), NEW news \in SUBSET rows,
           NEW U \in WithNew(T, ids, news)
    PROVE  IsTable(U, ids, rows)
<1>1. CASE news = {}
  BY <1>1 DEF WithNew
<1>2. CASE news # {}
  <2>1. PICK row \in news : U \in Created(T, ids, row)
    BY <1>2 DEF WithNew
  <2>2. row \in rows
    BY <2>1
  <2>3. QED
    BY <2>1, <2>2, CreatedTable
<1>3. QED
  BY <1>1, <1>2

(* Rows are created with the right type.                                    *)
LEMMA NewRows ==
    /\ \A u \in Users, kind \in Kinds, visible \in Tri : NewSigner(u, kind, visible) \in SignerRow
    /\ \A u \in Users, by \in Users \cup {Nobody} : NewApprover(u, by) \in ApproverRow
BY DEF NewSigner, NewApprover, SignerRow, ApproverRow, Tri

(* Withdrawing a signature, or changing who sees the document, leaves a     *)
(* row.                                                                     *)
LEMMA WithdrawnRow ==
    ASSUME NEW row \in SignerRow
    PROVE  /\ Withdrawn(row) \in SignerRow
           /\ Withdrawn(row).signed = "null"
           /\ \A v \in Tri : [row EXCEPT !.visible = v] \in SignerRow
           /\ \A v \in Tri : [Withdrawn(row) EXCEPT !.visible = v] \in SignerRow
BY DEF Withdrawn, SignerRow, Tri

-----------------------------------------------------------------------------
(* The parts of the author's update return tables.                          *)

(* The approvers that an update of the author keeps form a table.           *)
LEMMA KeptApproversTable ==
    ASSUME NEW A, IsTable(A, ApproverIds, ApproverRow), NEW entries, NEW list, NEW edited
    PROVE  IsTable(KeptApprovers(A, entries, list, edited), ApproverIds, ApproverRow)
<1> DEFINE kept == Listed(A, entries, list)
           B == Without(A, entries \ kept)
           K == [a \in DOMAIN B |->
                   IF edited /\ a \in kept THEN [B[a] EXCEPT !.ok = "null"] ELSE B[a]]
<1>1. IsTable(B, ApproverIds, ApproverRow)
  BY WithoutTable
<1>2. \A a \in DOMAIN B : B[a] \in ApproverRow /\ [B[a] EXCEPT !.ok = "null"] \in ApproverRow
  BY <1>1 DEF IsTable, ApproverRow, Tri
<1>3. K \in [DOMAIN B -> ApproverRow]
  BY <1>2
<1>4. KeptApprovers(A, entries, list, edited) = K
  BY DEF KeptApprovers
<1> HIDE DEF kept, B, K
<1>5. QED
  BY <1>1, <1>3, <1>4 DEF IsTable

(* A visited signer row is a row.                                           *)
LEMMA VisitedRow ==
    ASSUME NEW row \in SignerRow, NEW edited, NEW pending
    PROVE  Visited(row, edited, pending) \in SignerRow
<1>1. /\ [Withdrawn(row) EXCEPT !.visible = "null"] \in SignerRow
      /\ [row EXCEPT !.visible = "no"] \in SignerRow
      /\ [row EXCEPT !.visible = "yes"] \in SignerRow
  BY WithdrawnRow DEF Tri
<1>2. QED
  BY <1>1 DEF Visited

(* The signers that an update of the author keeps form a table.             *)
LEMMA KeptSignersTable ==
    ASSUME IsTable(signers, SignerIds, SignerRow),
           NEW A, NEW entries, NEW list, NEW edited, NEW c, NEW order
    PROVE  IsTable(KeptSigners(A, entries, list, edited, c, order), SignerIds, SignerRow)
<1> DEFINE kept == Listed(signers, entries, list)
           S == Without(signers, (entries \ kept) \cup RemovedRows(A, kept, edited, c, order))
           K == [s \in DOMAIN S |->
                   IF s \in kept
                   THEN Visited(S[s], edited, PendingAt(s, A, kept, edited, c, order))
                   ELSE S[s]]
<1>1. IsTable(S, SignerIds, SignerRow)
  BY WithoutTable
<1>2. \A s \in DOMAIN S : S[s] \in SignerRow
  BY <1>1 DEF IsTable
<1>3. K \in [DOMAIN S -> SignerRow]
  <2>1. \A s \in DOMAIN S : Visited(S[s], edited, PendingAt(s, A, kept, edited, c, order)) \in SignerRow
    BY <1>2, VisitedRow
  <2> HIDE DEF kept, S
  <2>2. QED
    BY <1>2, <2>1
<1>4. KeptSigners(A, entries, list, edited, c, order) = K
  BY DEF KeptSigners
<1> HIDE DEF kept, S, K
<1>5. QED
  BY <1>1, <1>3, <1>4 DEF IsTable

-----------------------------------------------------------------------------
(* The two tables keep their type in every step.                            *)

TablesOK ==
    /\ IsTable(signers, SignerIds, SignerRow)
    /\ IsTable(approvers, ApproverIds, ApproverRow)

(* The assistant who is asked is a user.                                    *)
LEMMA FirstAssistantIsUser ==
    ASSUME NEW c \in Curators, Assistants[c] # {}
    PROVE  FirstAssistant(c) \in Users
<1>1. Assistants[c] \in SUBSET Users
  BY RowAssumption
<1>2. FirstAssistant(c) \in Assistants[c]
  BY DEF FirstAssistant
<1>3. QED
  BY <1>1, <1>2

(* approve leaves tables.                                                   *)
LEMMA ApproveTables ==
    ASSUME TypeOK, NEW a \in DOMAIN approvers, Approve(a)
    PROVE  TablesOK'
<1> DEFINE A == [approvers EXCEPT ![a].ok = "yes"]
           S == MakeVisibleToSigners(signers, A)
<1>1. IsTable(A, ApproverIds, ApproverRow)
  BY DEF TypeOK, IsTable, ApproverRow, Tri
<1>2. IsTable(S, SignerIds, SignerRow)
  BY DEF TypeOK, IsTable, MakeVisibleToSigners, SignerRow, Tri
<1>3. approvers' = A
  BY DEF Approve
<1>4. CASE signers' = S
  BY <1>1, <1>2, <1>3, <1>4 DEF TablesOK
<1>5. CASE /\ AsksCurator(a, S, A)
           /\ signers' \in Created(S, SignerIds, NewSigner(curator, "basic_signer", "yes"))
  <2>1. curator \in Users
    BY <1>5, RowAssumption DEF AsksCurator, AssistantRows
  <2>2. NewSigner(curator, "basic_signer", "yes") \in SignerRow
    BY <2>1, NewRows DEF Kinds, Tri
  <2> HIDE DEF S
  <2>3. IsTable(signers', SignerIds, SignerRow)
    BY <1>2, <1>5, <2>2, CreatedTable
  <2>4. QED
    BY <1>1, <1>3, <2>3 DEF TablesOK
<1>6. QED
  BY <1>4, <1>5 DEF Approve

(* sign leaves tables, with the row of an assistant or without.             *)
LEMMA SignTables ==
    ASSUME TypeOK, NEW s \in DOMAIN signers, Sign(s)
    PROVE  TablesOK'
<1> DEFINE S == Signed(s)
           A == Pruned(s)
<1>1. IsTable(S, SignerIds, SignerRow)
  <2>1. signers \in [DOMAIN signers -> SignerRow] /\ DOMAIN signers \subseteq SignerIds
    BY DEF TypeOK, IsTable
  <2>2. [signers[s] EXCEPT !.signed = "yes", !.visible = "yes", !.over = content] \in SignerRow
    BY <2>1 DEF TypeOK, SignerRow, Tri
  <2>3. S = [signers EXCEPT ![s] = [signers[s] EXCEPT !.signed = "yes", !.visible = "yes", !.over = content]]
    BY <2>1 DEF Signed
  <2>4. QED
    BY <2>1, <2>2, <2>3 DEF IsTable
<1>2. IsTable(A, ApproverIds, ApproverRow)
  BY WithoutTable DEF TypeOK, Pruned
<1>3. signers' = S
  BY DEF Sign
<1>4. CASE approvers' = A
  BY <1>1, <1>2, <1>3, <1>4 DEF TablesOK
<1>5. CASE HandsOver(s, S, A) /\ SendToCuratorAssistant(A)
  <2>1. CASE approvers' = A
    BY <1>4, <2>1
  <2>2. CASE /\ Assistants[curator] # {}
             /\ approvers' \in Created(A, ApproverIds, NewApprover(FirstAssistant(curator), Nobody))
    <3>1. curator \in Curators
      BY <1>5 DEF HandsOver, TypeOK
    <3>2. NewApprover(FirstAssistant(curator), Nobody) \in ApproverRow
      BY <2>2, <3>1, FirstAssistantIsUser, NewRows
    <3> HIDE DEF A
    <3>3. IsTable(approvers', ApproverIds, ApproverRow)
      BY <1>2, <2>2, <3>2, CreatedTable
    <3>4. QED
      BY <1>1, <1>3, <3>3 DEF TablesOK
  <2>3. QED
    BY <1>5, <2>1, <2>2 DEF SendToCuratorAssistant
<1>6. QED
  BY <1>4, <1>5 DEF Sign

(* add_approvers leaves tables.                                             *)
LEMMA AddApproverTables ==
    ASSUME TypeOK, NEW u \in LateApprovers, NEW by \in Callers, AddApprover(u, by)
    PROVE  TablesOK'
<1>1. NewApprover(u, by) \in ApproverRow
  BY RowAssumption, NewRows
<1>2. IsTable(approvers', ApproverIds, ApproverRow)
  BY <1>1, CreatedTable DEF AddApprover, TypeOK
<1>3. QED
  BY <1>2 DEF AddApprover, TypeOK, TablesOK

(* custom_update leaves tables.                                             *)
LEMMA CustomUpdateTables ==
    ASSUME TypeOK, CustomUpdate
    PROVE  TablesOK'
<1> DEFINE S == Without(signers, CuratorRows(signers, curator))
           A == Without(approvers, AssistantRows(approvers, curator))
           hidden == IF DOMAIN A = {} THEN S
                     ELSE [s \in DOMAIN S |-> [S[s] EXCEPT !.visible = "no"]]
           T == [s \in DOMAIN S |-> Withdrawn(hidden[s])]
           B == [a \in DOMAIN A |-> [A[a] EXCEPT !.ok = "null"]]
<1>1. IsTable(S, SignerIds, SignerRow) /\ IsTable(A, ApproverIds, ApproverRow)
  BY WithoutTable DEF TypeOK
<1>2. signers' = T /\ approvers' = B
  BY DEF CustomUpdate
<1>3. \A a \in DOMAIN A : [A[a] EXCEPT !.ok = "null"] \in ApproverRow
  BY <1>1 DEF IsTable, ApproverRow, Tri
<1>4. \A s \in DOMAIN S : hidden[s] \in SignerRow
  <2> HIDE DEF S
  <2>1. \A s \in DOMAIN S : S[s] \in SignerRow /\ [S[s] EXCEPT !.visible = "no"] \in SignerRow
    BY <1>1, WithdrawnRow DEF IsTable, Tri
  <2>2. QED
    BY <2>1
<1>5. \A s \in DOMAIN S : Withdrawn(hidden[s]) \in SignerRow
  <2> HIDE DEF hidden
  <2>1. QED
    BY <1>4, WithdrawnRow
<1> HIDE DEF S, A, hidden
<1>6. IsTable(T, SignerIds, SignerRow) /\ IsTable(B, ApproverIds, ApproverRow)
  BY <1>1, <1>3, <1>5 DEF IsTable
<1>7. QED
  BY <1>2, <1>6 DEF TablesOK

(* The author's update: each stage returns a table.                         *)
LEMMA UpdateRowsTables ==
    ASSUME TypeOK, NEW edited \in BOOLEAN, NEW c \in Curators \cup {Nobody},
           NEW listA \in SUBSET Users, NEW listS \in SUBSET Users,
           UpdateRows(edited, c, listA, listS)
    PROVE  TablesOK'
<1> DEFINE A0 == Without(approvers, AddedByRemoved(approvers, listS))
           newA == {NewApprover(u, Nobody) : u \in Asked(A0, listA)}
           kept(entriesS) == Listed(signers, entriesS, listS)
           newS(A1) == {NewSigner(u, "signer", NewVisible(A1, edited)) : u \in Asked(signers, listS)}
           final(A1, entriesS, S) ==
             LET A2 == AfterFirstVisit(A1, kept(entriesS), edited, c)
             IN  \/ /\ ~Displaces(edited, c)
                    /\ signers' = S
                    /\ approvers' = A2
                 \/ /\ Displaces(edited, c)
                    /\ signers' = Without(S, CuratorRows(S, curator))
                    /\ AskAssistantOf(c, signers', Without(A2, AssistantRows(A2, curator)))
<1>a. PICK entriesA \in Entries(A0), entriesS \in Entries(signers) :
        \E A1 \in WithNew(KeptApprovers(A0, entriesA, listA, edited), ApproverIds, newA),
           order \in VisitOrders(kept(entriesS)) :
          \E S \in WithNew(KeptSigners(A1, entriesS, listS, edited, c, order), SignerIds, newS(A1)) :
            final(A1, entriesS, S)
  BY Zenon DEF UpdateRows
<1>b. PICK A1 \in WithNew(KeptApprovers(A0, entriesA, listA, edited), ApproverIds, newA),
           order \in VisitOrders(kept(entriesS)) :
          \E S \in WithNew(KeptSigners(A1, entriesS, listS, edited, c, order), SignerIds, newS(A1)) :
            final(A1, entriesS, S)
  BY <1>a
<1>1. PICK S \in WithNew(KeptSigners(A1, entriesS, listS, edited, c, order), SignerIds, newS(A1)) :
        final(A1, entriesS, S)
  BY <1>b
<1> DEFINE A2 == AfterFirstVisit(A1, kept(entriesS), edited, c)
           A3 == Without(A2, AssistantRows(A2, curator))
<1>2. IsTable(A0, ApproverIds, ApproverRow)
  BY WithoutTable DEF TypeOK
<1>3. newA \in SUBSET ApproverRow
  BY NewRows DEF Asked
<1>4. IsTable(A1, ApproverIds, ApproverRow)
  <2> HIDE DEF A0, newA
  <2>1. IsTable(KeptApprovers(A0, entriesA, listA, edited), ApproverIds, ApproverRow)
    BY <1>2, KeptApproversTable
  <2>2. QED
    BY <1>b, <1>3, <2>1, WithNewTable
<1>5. newS(A1) \in SUBSET SignerRow
  BY NewRows DEF Asked, NewVisible, Kinds, Tri
<1>6. IsTable(S, SignerIds, SignerRow)
  <2>1. IsTable(KeptSigners(A1, entriesS, listS, edited, c, order), SignerIds, SignerRow)
    BY KeptSignersTable DEF TypeOK
  <2> HIDE DEF newS
  <2>2. QED
    BY <1>1, <1>5, <2>1, WithNewTable
<1>7. IsTable(A2, ApproverIds, ApproverRow)
  BY <1>4, WithoutTable DEF AfterFirstVisit
<1> HIDE DEF A2
<1>8. IsTable(A3, ApproverIds, ApproverRow)
  BY <1>7, WithoutTable
<1>9. CASE ~Displaces(edited, c) /\ signers' = S /\ approvers' = A2
  BY <1>6, <1>7, <1>9 DEF TablesOK
<1>10. CASE /\ Displaces(edited, c)
            /\ signers' = Without(S, CuratorRows(S, curator))
            /\ AskAssistantOf(c, signers', A3)
  <2>1. IsTable(signers', SignerIds, SignerRow)
    BY <1>6, <1>10, WithoutTable
  <2>2. IsTable(approvers', ApproverIds, ApproverRow)
    <3>1. c \in Curators
      BY <1>10 DEF Displaces
    <3>2. CASE approvers' = A3
      BY <1>8, <3>2
    <3>3. CASE /\ Assistants[c] # {}
               /\ approvers' \in Created(A3, ApproverIds, NewApprover(FirstAssistant(c), Nobody))
      <4>1. NewApprover(FirstAssistant(c), Nobody) \in ApproverRow
        BY <3>1, <3>3, FirstAssistantIsUser, NewRows
      <4> HIDE DEF A3
      <4>2. QED
        BY <1>8, <3>3, <4>1, CreatedTable
    <3>4. QED
      BY <1>10, <3>2, <3>3 DEF AskAssistantOf
  <2>3. QED
    BY <2>1, <2>2 DEF TablesOK
<1>11. QED
  BY <1>1, <1>9, <1>10 DEF A2

(* update leaves tables, whatever lists the author sends.                   *)
LEMMA AuthorUpdateTables ==
    ASSUME TypeOK, AuthorUpdate
    PROVE  TablesOK'
<1>1. PICK edited \in BOOLEAN, c \in Curators \cup {Nobody},
           listA \in SUBSET (UsersOf(approvers, DOMAIN approvers) \cup Range(AskedApprovers)),
           listS \in (SUBSET (UsersOf(signers, DOMAIN signers) \cup Range(AskedSigners))) \ {{}} :
             UpdateRows(edited, c, listA, listS)
  BY DEF AuthorUpdate
<1>2. Range(AskedApprovers) \subseteq Users /\ Range(AskedSigners) \subseteq Users
  BY RowAssumption DEF Range
<1>3. /\ UsersOf(approvers, DOMAIN approvers) \subseteq Users
      /\ UsersOf(signers, DOMAIN signers) \subseteq Users
  BY DEF TypeOK, IsTable, UsersOf, SignerRow, ApproverRow
<1>4. listA \in SUBSET Users /\ listS \in SUBSET Users
  BY <1>2, <1>3
<1>5. QED
  BY <1>1, <1>4, UpdateRowsTables

-----------------------------------------------------------------------------
(* Registration and the columns of the compose.                             *)

(* Registration, complete or broken off, keeps the types.                   *)
LEMMA RegisterType ==
    ASSUME TypeOK, NEW S, NEW A, NEW D \in [Versions -> Nat],
           RegisterDocumentAfterSigning(S, A, D)
    PROVE  /\ docs' \in [Versions -> Nat]
           /\ status' \in Statuses
           /\ isSigned' \in BOOLEAN
           /\ failed' \in 0 .. MaxFailures
<1>1. [D EXCEPT ![content] = @ + 1] \in [Versions -> Nat]
  BY DEF TypeOK
<1>2. CASE Register(D)
  BY <1>1, <1>2 DEF Register, TypeOK, Statuses
<1>3. CASE BreakOff(D)
  BY <1>1, <1>3, BoundAssumption DEF BreakOff, TypeOK
<1>4. CASE docs' = D /\ UNCHANGED <<status, isSigned, failed>>
  BY <1>4 DEF TypeOK
<1>5. QED
  BY <1>2, <1>3, <1>4 DEF RegisterDocumentAfterSigning

(* The rows an author asks for are rows.                                    *)
LEMMA InitTypeOK == Init => TypeOK
<1> SUFFICES ASSUME Init PROVE TypeOK
  OBVIOUS
<1>1. PICK S \in SUBSET DOMAIN AskedSigners, A \in SUBSET DOMAIN AskedApprovers, kind \in Kinds :
        /\ signers = [s \in S |-> NewSigner(AskedSigners[s], kind, IF A = {} THEN "yes" ELSE "null")]
        /\ approvers = [a \in A |-> NewApprover(AskedApprovers[a], Nobody)]
  BY DEF Init
<1>2. \A s \in S : NewSigner(AskedSigners[s], kind, IF A = {} THEN "yes" ELSE "null") \in SignerRow
  BY RowAssumption, NewRows DEF Tri
<1>3. \A a \in A : NewApprover(AskedApprovers[a], Nobody) \in ApproverRow
  BY RowAssumption, NewRows
<1>4. IsTable(signers, SignerIds, SignerRow) /\ IsTable(approvers, ApproverIds, ApproverRow)
  BY <1>1, <1>2, <1>3, RowAssumption DEF IsTable
<1>5. QED
  <2>1. curator \in Curators \cup {Nobody} /\ docs \in [Versions -> Nat]
    BY DEF Init
  <2>2. content \in Versions /\ updates \in 0 .. MaxUpdates /\ late \in 0 .. MaxLate /\ failed \in 0 .. MaxFailures
    BY BoundAssumption DEF Init, Versions
  <2>3. status \in Statuses /\ isSigned \in BOOLEAN
    BY DEF Init, Statuses
  <2>4. QED
    BY <1>4, <2>1, <2>2, <2>3 DEF TypeOK

(* Every step keeps the rows, the compose and the counters in their types:  *)
(* in particular no handler stores a row for nobody.                        *)
THEOREM TypeCorrect == Spec => []TypeOK
<1>1. Init => TypeOK
  BY InitTypeOK
<1>2. TypeOK /\ [Next]_vars => TypeOK'
  <2> SUFFICES ASSUME TypeOK, [Next]_vars PROVE TypeOK'
    OBVIOUS
  <2>1. ASSUME NEW a \in DOMAIN approvers, Approve(a) PROVE TypeOK'
    <3>1. TablesOK'
      BY <2>1, ApproveTables
    <3>2. UNCHANGED <<doc, docs, used>>
      BY <2>1 DEF Approve
    <3>3. QED
      BY <3>1, <3>2 DEF TypeOK, TablesOK, doc, used, IsTable
  <2>2. ASSUME NEW a \in DOMAIN approvers, RejectApproval(a) PROVE TypeOK'
    <3>1. IsTable([approvers EXCEPT ![a].ok = "no"], ApproverIds, ApproverRow)
      BY DEF TypeOK, IsTable, ApproverRow, Tri
    <3>2. QED
      BY <2>2, <3>1 DEF RejectApproval, TypeOK, Statuses, used, IsTable
  <2>3. ASSUME NEW s \in DOMAIN signers, Sign(s) PROVE TypeOK'
    <3>1. docs' \in [Versions -> Nat] /\ status' \in Statuses /\ isSigned' \in BOOLEAN /\ failed' \in 0 .. MaxFailures
      <4>1. CASE UNCHANGED <<docs, status, isSigned, failed>>
        BY <4>1 DEF TypeOK
      <4>2. CASE RegisterDocumentAfterSigning(Signed(s), Pruned(s), docs)
        BY <4>2, RegisterType DEF TypeOK
      <4>3. QED
        BY <2>3, <4>1, <4>2 DEF Sign
    <3>2. QED
      BY <2>3, <3>1, SignTables DEF Sign, TypeOK, TablesOK, IsTable
  <2>4. ASSUME NEW s \in DOMAIN signers, RejectSigning(s) PROVE TypeOK'
    <3>1. IsTable([signers EXCEPT ![s].signed = "no"], SignerIds, SignerRow)
      BY DEF TypeOK, IsTable, SignerRow, Tri
    <3>2. QED
      BY <2>4, <3>1 DEF RejectSigning, TypeOK, Statuses, used, IsTable
  <2>5. ASSUME NEW u \in LateApprovers, NEW by \in Callers, AddApprover(u, by) PROVE TypeOK'
    BY <2>5, AddApproverTables, BoundAssumption DEF AddApprover, TypeOK, TablesOK, doc, IsTable
  <2>6. CASE CustomUpdate
    BY <2>6, CustomUpdateTables, BoundAssumption DEF CustomUpdate, TypeOK, TablesOK, used, Versions, IsTable
  <2>7. CASE AuthorUpdate
    <3>1. TablesOK'
      BY <2>7, AuthorUpdateTables
    <3>2. curator' \in Curators \cup {Nobody} /\ content' \in Versions /\ status' \in Statuses
      BY <2>7, BoundAssumption DEF AuthorUpdate, TypeOK, Versions, Statuses
    <3>3. updates' \in 0 .. MaxUpdates
      BY <2>7, BoundAssumption DEF AuthorUpdate, TypeOK
    <3>4. QED
      BY <2>7, <3>1, <3>2, <3>3 DEF AuthorUpdate, TypeOK, TablesOK, IsTable
  <2>8. CASE RestoreCompose
    <3>1. [v \in Versions |-> 0] \in [Versions -> Nat]
      OBVIOUS
    <3>2. docs' \in [Versions -> Nat] /\ status' \in Statuses /\ isSigned' \in BOOLEAN /\ failed' \in 0 .. MaxFailures
      BY <2>8, <3>1, RegisterType DEF RestoreCompose
    <3>3. QED
      BY <2>8, <3>2 DEF RestoreCompose, TypeOK, IsTable
  <2>9. CASE UNCHANGED vars
    BY <2>9 DEF vars, doc, used, TypeOK, IsTable
  <2>10. QED
    BY <2>1, <2>2, <2>3, <2>4, <2>5, <2>6, <2>7, <2>8, <2>9 DEF Next
<1>3. QED
  BY <1>1, <1>2, PTL DEF Spec

-----------------------------------------------------------------------------
(* One BaseDocument per text.  The bound alone is not inductive: a step     *)
(* that registers must be known to start below it.  That is so because a    *)
(* text that has used up its allowance is done, with every signature and    *)
(* approval given, and then no handler gets as far as registering again.    *)
(* A new text starts with nothing registered, whence the first conjunct.    *)

Allowance == 1 + late + failed

DocumentsInv ==
    /\ \A v \in Versions : v > content => docs[v] = 0
    /\ OneDocumentPerText
    /\ docs[content] = Allowance =>
         status = "done" /\ AllSignedAndApproved(signers, approvers)

(* Registration keeps the invariant when it starts below the allowance,     *)
(* from whatever number D of BaseDocuments.                                 *)
LEMMA RegisterWithinAllowance ==
    ASSUME TypeOK, NEW D \in [Versions -> Nat],
           \A v \in Versions : D[v] <= Allowance,
           \A v \in Versions : v > content => D[v] = 0,
           AllSignedAndApproved(signers', approvers') => D[content] < Allowance,
           D[content] = Allowance => status = "done" /\ AllSignedAndApproved(signers', approvers'),
           RegisterDocumentAfterSigning(signers', approvers', D),
           UNCHANGED <<content, late>>
    PROVE  DocumentsInv'
<1>1. content \in Versions /\ late \in Nat /\ failed \in Nat
  BY BoundAssumption DEF TypeOK
<1>2. CASE AllSignedAndApproved(signers', approvers') /\ Register(D)
  BY <1>1, <1>2 DEF Register, DocumentsInv, OneDocumentPerText, Allowance, Versions
<1>3. CASE AllSignedAndApproved(signers', approvers') /\ BreakOff(D)
  <2>1. Allowance \in Nat /\ Allowance' = Allowance + 1
    BY <1>1, <1>3 DEF BreakOff, Allowance
  <2>2. \A v \in Versions : docs'[v] = D[v] \/ (v = content /\ docs'[v] = D[v] + 1)
    BY <1>3 DEF BreakOff
  <2>3. \A v \in Versions : docs'[v] < Allowance'
    BY <1>3, <2>1, <2>2
  <2>4. \A v \in Versions : v > content => docs'[v] = 0
    BY <1>1, <2>2 DEF Versions
  <2>5. \A v \in Versions : docs'[v] \in Nat
    BY <2>2
  <2>6. OneDocumentPerText'
    <3>1. \A v \in Versions : docs'[v] <= Allowance'
      BY <2>1, <2>3, <2>5
    <3>2. QED
      BY <3>1 DEF OneDocumentPerText, Allowance, Versions
  <2>7. docs'[content'] # Allowance'
    BY <1>1, <2>1, <2>3, <2>5
  <2>8. QED
    BY <2>4, <2>6, <2>7 DEF DocumentsInv, Versions
<1>4. CASE ~AllSignedAndApproved(signers', approvers') /\ docs' = D /\ UNCHANGED <<status, isSigned, failed>>
  BY <1>1, <1>4 DEF DocumentsInv, OneDocumentPerText, Allowance
<1>5. QED
  BY <1>2, <1>3, <1>4 DEF RegisterDocumentAfterSigning

(* A row that still lacks its signature or approval leaves room.            *)
LEMMA RoomWhileSomethingIsMissing ==
    ASSUME TypeOK, DocumentsInv, ~AllSignedAndApproved(signers, approvers)
    PROVE  docs[content] < Allowance
<1>1. docs[content] # Allowance
  BY DEF DocumentsInv
<1>2. docs[content] <= Allowance /\ docs[content] \in Nat /\ Allowance \in Nat
  BY BoundAssumption DEF DocumentsInv, OneDocumentPerText, TypeOK, Allowance
<1>3. QED
  BY <1>1, <1>2

(* A step that leaves the text and the documents alone, or only widens the  *)
(* allowance, is harmless if it starts with room.                           *)
LEMMA NothingRegistered ==
    ASSUME TypeOK, DocumentsInv, docs[content] < Allowance,
           UNCHANGED <<content, docs, failed>>, late' \in Nat, late' >= late
    PROVE  DocumentsInv'
<1>1. Allowance \in Nat /\ late \in Nat /\ failed \in Nat /\ docs[content] \in Nat
  BY BoundAssumption DEF TypeOK, Allowance
<1>2. QED
  BY <1>1 DEF DocumentsInv, OneDocumentPerText, Allowance, TypeOK

(* A new text has no BaseDocument yet.                                      *)
LEMMA TextChanged ==
    ASSUME TypeOK, DocumentsInv, content < MaxEdits, content' = content + 1,
           UNCHANGED <<docs, late, failed>>
    PROVE  DocumentsInv'
<1>1. content + 1 \in Versions
  BY BoundAssumption DEF TypeOK, Versions
<1>2. docs[content + 1] = 0
  BY <1>1 DEF DocumentsInv, TypeOK, Versions
<1>3. late \in Nat /\ failed \in Nat
  BY BoundAssumption DEF TypeOK
<1>4. QED
  BY <1>1, <1>2, <1>3 DEF DocumentsInv, OneDocumentPerText, Allowance, TypeOK, Versions

(* No text is registered twice, but for approvers added on the side and     *)
(* registrations that broke off: for any people, lists, edits and order of  *)
(* requests (register_document_after_signing).                              *)
THEOREM OneDocument == Spec => []OneDocumentPerText
<1>1. Init => DocumentsInv
  BY BoundAssumption DEF Init, DocumentsInv, OneDocumentPerText, Allowance, Versions
<1>2. TypeOK /\ TypeOK' /\ DocumentsInv /\ [Next]_vars => DocumentsInv'
  <2> SUFFICES ASSUME TypeOK, TypeOK', DocumentsInv, [Next]_vars PROVE DocumentsInv'
    OBVIOUS
  <2>0. late \in Nat /\ failed \in Nat
    BY BoundAssumption DEF TypeOK
  <2>1. ASSUME NEW a \in DOMAIN approvers, Approve(a) \/ RejectApproval(a) PROVE DocumentsInv'
    <3>1. approvers[a].ok # "yes"
      BY <2>1 DEF Approve, RejectApproval
    <3>2. ~AllSignedAndApproved(signers, approvers)
      BY <3>1 DEF AllSignedAndApproved, AllApproved, Pending
    <3>3. UNCHANGED <<content, docs, failed, late>>
      BY <2>1 DEF Approve, RejectApproval, doc, used
    <3>4. QED
      BY <2>0, <3>2, <3>3, RoomWhileSomethingIsMissing, NothingRegistered
  <2>2. ASSUME NEW s \in DOMAIN signers, Sign(s) PROVE DocumentsInv'
    <3>1. docs[content] < Allowance
      <4>1. ~AllSignedAndApproved(signers, approvers)
        BY <2>2 DEF Sign, MaySign, AllSignedAndApproved, AllSigned
      <4>2. QED
        BY <4>1, RoomWhileSomethingIsMissing
    <3>2. CASE UNCHANGED <<docs, failed>>
      BY <2>0, <2>2, <3>1, <3>2, NothingRegistered DEF Sign
    <3>3. CASE RegisterDocumentAfterSigning(signers', approvers', docs)
      <4>1. UNCHANGED <<content, late>>
        BY <2>2 DEF Sign
      <4>2. docs \in [Versions -> Nat] /\ docs[content] \in Nat /\ Allowance \in Nat
        BY <2>0 DEF TypeOK, Allowance
      <4>3. QED
        BY <3>1, <3>3, <4>1, <4>2, RegisterWithinAllowance DEF DocumentsInv, OneDocumentPerText, Allowance
    <3>4. QED
      BY <2>2, <3>2, <3>3 DEF Sign
  <2>3. ASSUME NEW s \in DOMAIN signers, RejectSigning(s) PROVE DocumentsInv'
    <3>1. ~AllSignedAndApproved(signers, approvers)
      BY <2>3 DEF RejectSigning, AllSignedAndApproved, AllSigned
    <3>2. QED
      BY <2>0, <2>3, <3>1, RoomWhileSomethingIsMissing, NothingRegistered DEF RejectSigning, used
  <2>4. ASSUME NEW u \in LateApprovers, NEW by \in Callers, AddApprover(u, by) PROVE DocumentsInv'
    <3>1. late' = late + 1 /\ UNCHANGED <<content, docs, failed>>
      BY <2>4 DEF AddApprover, doc
    <3>2. content \in Versions /\ docs \in [Versions -> Nat]
      BY DEF TypeOK
    <3>3. QED
      BY <2>0, <3>1, <3>2 DEF DocumentsInv, OneDocumentPerText, Allowance
  <2>5. CASE CustomUpdate
    BY <2>5, TextChanged DEF CustomUpdate, used
  <2>6. CASE AuthorUpdate
    <3>1. CASE content' = content + 1 /\ content < MaxEdits
      BY <2>6, <3>1, TextChanged DEF AuthorUpdate
    <3>2. CASE content' = content
      <4>1. status # "done"
        BY <2>6 DEF AuthorUpdate
      <4>2. docs[content] < Allowance
        <5>1. docs[content] # Allowance
          BY <4>1 DEF DocumentsInv
        <5>2. docs[content] <= Allowance /\ docs[content] \in Nat /\ Allowance \in Nat
          BY <2>0 DEF DocumentsInv, OneDocumentPerText, TypeOK, Allowance
        <5>3. QED
          BY <5>1, <5>2
      <4>3. QED
        BY <2>0, <2>6, <3>2, <4>2, NothingRegistered DEF AuthorUpdate
    <3>3. QED
      BY <2>6, <3>1, <3>2 DEF AuthorUpdate
  <2>7. CASE RestoreCompose
    <3> DEFINE none == [v \in Versions |-> 0]
    <3>1. none \in [Versions -> Nat] /\ \A v \in Versions : none[v] = 0
      OBVIOUS
    <3>2. RegisterDocumentAfterSigning(signers', approvers', none) /\ UNCHANGED <<content, late>>
      BY <2>7 DEF RestoreCompose
    <3>3. content \in Versions /\ Allowance \in Nat /\ Allowance > 0
      BY <2>0 DEF TypeOK, Allowance
    <3> HIDE DEF none
    <3>4. QED
      BY <3>1, <3>2, <3>3, RegisterWithinAllowance
  <2>8. CASE UNCHANGED vars
    BY <2>8 DEF vars, doc, used, DocumentsInv, OneDocumentPerText, Allowance
  <2>9. QED
    BY <2>1, <2>2, <2>3, <2>4, <2>5, <2>6, <2>7, <2>8 DEF Next
<1>3. DocumentsInv => OneDocumentPerText
  BY DEF DocumentsInv
<1>4. QED
  BY <1>1, <1>2, <1>3, TypeCorrect, PTL DEF Spec

-----------------------------------------------------------------------------
(* Approvals before signatures.                                             *)

(* Inserting a row keeps the others.                                        *)
LEMMA CreatedRows ==
    ASSUME NEW ids, NEW T, NEW row, NEW U \in Created(T, ids, row)
    PROVE  \E key \in ids \ DOMAIN T :
             /\ DOMAIN U = DOMAIN T \cup {key}
             /\ U[key] = row
             /\ \A k \in DOMAIN T : U[k] = T[k]
<1>1. PICK key \in ids \ DOMAIN T : U = Insert(T, key, row)
  BY DEF Created, NextKeys
<1>2. QED
  BY <1>1 DEF Insert

(* So does inserting one of a set of new rows, if there are any.            *)
LEMMA WithNewRows ==
    ASSUME NEW ids, NEW T, NEW news, NEW U \in WithNew(T, ids, news)
    PROVE  /\ DOMAIN T \subseteq DOMAIN U
           /\ \A k \in DOMAIN T : U[k] = T[k]
           /\ \A k \in DOMAIN U \ DOMAIN T : U[k] \in news
<1>1. CASE news = {}
  BY <1>1 DEF WithNew
<1>2. CASE news # {}
  <2>1. PICK row \in news : U \in Created(T, ids, row)
    BY <1>2 DEF WithNew
  <2>2. PICK key \in ids \ DOMAIN T : /\ DOMAIN U = DOMAIN T \cup {key}
                                      /\ U[key] = row
                                      /\ \A k \in DOMAIN T : U[k] = T[k]
    BY <2>1, CreatedRows
  <2>3. QED
    BY <2>1, <2>2
<1>3. QED
  BY <1>1, <1>2

(* Deleting signer rows keeps the others.                                   *)
LEMMA SignersLeft ==
    ASSUME TypeOK, NEW gone
    PROVE  /\ DOMAIN Without(signers, gone) = DOMAIN signers \ gone
           /\ \A s \in DOMAIN signers \ gone :
                Without(signers, gone)[s] = signers[s] /\ signers[s] \in SignerRow
<1>1. IsTable(signers, SignerIds, SignerRow)
  BY DEF TypeOK
<1>2. \A s \in DOMAIN signers : signers[s] \in SignerRow
  BY <1>1 DEF IsTable
<1>3. /\ DOMAIN Without(signers, gone) = DOMAIN signers \ gone
      /\ \A k \in DOMAIN signers \ gone : Without(signers, gone)[k] = signers[k]
  BY <1>1, WithoutTable
<1>4. QED
  BY <1>2, <1>3

(* Deleting approver rows keeps the others.                                 *)
LEMMA ApproversLeft ==
    ASSUME TypeOK, NEW gone
    PROVE  /\ DOMAIN Without(approvers, gone) = DOMAIN approvers \ gone
           /\ \A a \in DOMAIN approvers \ gone :
                Without(approvers, gone)[a] = approvers[a] /\ approvers[a] \in ApproverRow
<1>1. IsTable(approvers, ApproverIds, ApproverRow)
  BY DEF TypeOK
<1>2. \A a \in DOMAIN approvers : approvers[a] \in ApproverRow
  BY <1>1 DEF IsTable
<1>3. /\ DOMAIN Without(approvers, gone) = DOMAIN approvers \ gone
      /\ \A k \in DOMAIN approvers \ gone : Without(approvers, gone)[k] = approvers[k]
  BY <1>1, WithoutTable
<1>4. QED
  BY <1>2, <1>3

(* If nobody has two rows, the update sees every row.                       *)
LEMMA EveryRowIsAnEntry ==
    ASSUME NoTwins, NEW entries \in Entries(signers)
    PROVE  entries = DOMAIN signers
<1>1. entries \subseteq DOMAIN signers
  BY DEF Entries
<1>2. ASSUME NEW r \in DOMAIN signers PROVE r \in entries
  <2>1. signers[r].user \in UsersOf(signers, entries)
    BY DEF Entries, UsersOf
  <2>2. PICK q \in entries : signers[q].user = signers[r].user
    BY <2>1 DEF UsersOf
  <2>3. QED
    BY <1>1, <2>2 DEF NoTwins
<1>3. QED
  BY <1>1, <1>2

(* Deleting approvers leaves nobody pending who was not.                    *)
LEMMA WithoutPending ==
    ASSUME NEW A, NEW gone
    PROVE  Pending(Without(A, gone)) \subseteq Pending(A)
BY DEF Pending, Without, Restrict

(* A visit that leaves a row visible, or its signature on a changed text,   *)
(* has found everybody's approval, and the visits delete no more then.      *)
LEMMA VisitFindsApproval ==
    ASSUME NEW row \in SignerRow, NEW edited \in BOOLEAN, NEW s, NEW A, NEW kept, NEW c, NEW order,
           \/ Visited(row, edited, PendingAt(s, A, kept, edited, c, order)).visible = "yes"
           \/ edited /\ Visited(row, edited, PendingAt(s, A, kept, edited, c, order)).signed = "yes"
    PROVE  AllApproved(AfterFirstVisit(A, kept, edited, c))
<1>1. ~PendingAt(s, A, kept, edited, c, order)
  BY DEF Visited, Withdrawn, SignerRow
<1>2. CASE s = order[1]
  BY <1>1, <1>2 DEF PendingAt, AfterFirstVisit, Removes, Withdraws, AllApproved
<1>3. CASE s # order[1]
  BY <1>1, <1>3 DEF PendingAt, AllApproved
<1>4. QED
  BY <1>2, <1>3

(* The same of all signers after the visits and the creation of new ones.   *)
LEMMA VisitedSigners ==
    ASSUME TypeOK, NoTwins, NEW edited \in BOOLEAN, NEW c, NEW list, NEW entries \in Entries(signers),
           NEW A, NEW order, NEW news,
           \A row \in news : \E u : row = NewSigner(u, "signer", NewVisible(A, edited)),
           NEW S \in WithNew(KeptSigners(A, entries, list, edited, c, order), SignerIds, news),
           NEW s \in DOMAIN S,
           S[s].visible = "yes" \/ (edited /\ S[s].signed = "yes")
    PROVE  AllApproved(AfterFirstVisit(A, Listed(signers, entries, list), edited, c))
<1> DEFINE kept == Listed(signers, entries, list)
           gone == (entries \ kept) \cup RemovedRows(A, kept, edited, c, order)
           K == KeptSigners(A, entries, list, edited, c, order)
<1>1. CASE s \in DOMAIN K
  <2>1. DOMAIN K = DOMAIN signers \ gone
    BY SignersLeft DEF KeptSigners
  <2>2. s \in DOMAIN signers \ gone /\ s \in kept
    BY <1>1, <2>1, EveryRowIsAnEntry DEF Listed
  <2>3. Without(signers, gone)[s] = signers[s]
    BY <2>2, SignersLeft
  <2>4. K[s] = Visited(signers[s], edited, PendingAt(s, A, kept, edited, c, order))
    <3>1. K[s] = IF s \in kept THEN Visited(Without(signers, gone)[s], edited,
                                            PendingAt(s, A, kept, edited, c, order))
                 ELSE Without(signers, gone)[s]
      BY <2>2, SignersLeft DEF KeptSigners
    <3>2. QED
      BY <2>2, <2>3, <3>1
  <2>5. S[s] = K[s]
    BY <1>1, WithNewRows
  <2>6. signers[s] \in SignerRow
    BY <2>2, SignersLeft
  <2>7. QED
    BY <2>4, <2>5, <2>6, VisitFindsApproval
<1>2. CASE s \notin DOMAIN K
  <2>1. S[s] \in news
    BY <1>2, WithNewRows
  <2>2. PICK u : S[s] = NewSigner(u, "signer", NewVisible(A, edited))
    BY <2>1
  <2>3. NewVisible(A, edited) = "yes"
    BY <2>2 DEF NewSigner
  <2>4. ~edited /\ AllApproved(A)
    BY <2>3 DEF NewVisible, AllApproved
  <2>5. QED
    BY <2>4 DEF AfterFirstVisit, Removes, Withdraws
<1>3. QED
  BY <1>1, <1>2

(* What an update of the author shows, and which signatures it leaves.      *)
LEMMA UpdateAsksAgain ==
    ASSUME TypeOK, NoTwins, NEW edited \in BOOLEAN, NEW c, NEW listA, NEW listS,
           UpdateRows(edited, c, listA, listS)
    PROVE  /\ ~SeenTooEarly'
           /\ edited /\ (\E s \in DOMAIN signers' : signers'[s].signed = "yes") => AllApproved(approvers')
<1> DEFINE A0 == Without(approvers, AddedByRemoved(approvers, listS))
           newA == {NewApprover(u, Nobody) : u \in Asked(A0, listA)}
           kept(entriesS) == Listed(signers, entriesS, listS)
           newS(A1) == {NewSigner(u, "signer", NewVisible(A1, edited)) : u \in Asked(signers, listS)}
           final(A1, entriesS, S) ==
             LET A2 == AfterFirstVisit(A1, kept(entriesS), edited, c)
             IN  \/ /\ ~Displaces(edited, c)
                    /\ signers' = S
                    /\ approvers' = A2
                 \/ /\ Displaces(edited, c)
                    /\ signers' = Without(S, CuratorRows(S, curator))
                    /\ AskAssistantOf(c, signers', Without(A2, AssistantRows(A2, curator)))
<1>a. PICK entriesA \in Entries(A0), entriesS \in Entries(signers) :
        \E A1 \in WithNew(KeptApprovers(A0, entriesA, listA, edited), ApproverIds, newA),
           order \in VisitOrders(kept(entriesS)) :
          \E S \in WithNew(KeptSigners(A1, entriesS, listS, edited, c, order), SignerIds, newS(A1)) :
            final(A1, entriesS, S)
  BY Zenon DEF UpdateRows
<1>b. PICK A1 \in WithNew(KeptApprovers(A0, entriesA, listA, edited), ApproverIds, newA),
           order \in VisitOrders(kept(entriesS)) :
          \E S \in WithNew(KeptSigners(A1, entriesS, listS, edited, c, order), SignerIds, newS(A1)) :
            final(A1, entriesS, S)
  BY <1>a
<1>1. PICK S \in WithNew(KeptSigners(A1, entriesS, listS, edited, c, order), SignerIds, newS(A1)) :
        final(A1, entriesS, S)
  BY <1>b
<1> DEFINE A2 == AfterFirstVisit(A1, kept(entriesS), edited, c)
           A3 == Without(A2, AssistantRows(A2, curator))
<1>2. ASSUME NEW s \in DOMAIN S, S[s].visible = "yes" \/ (edited /\ S[s].signed = "yes")
      PROVE  AllApproved(A2)
  <2>1. \A row \in newS(A1) : \E u : row = NewSigner(u, "signer", NewVisible(A1, edited))
    OBVIOUS
  <2> HIDE DEF newS
  <2>2. QED
    BY <1>1, <1>2, <2>1, VisitedSigners
<1> HIDE DEF A0, newA, newS, kept, final, A2
<1>3. CASE ~Displaces(edited, c) /\ signers' = S /\ approvers' = A2
  <2>1. \A s \in DOMAIN signers' : signers'[s].visible = "yes" => AllApproved(approvers')
    BY <1>2, <1>3
  <2>2. edited /\ (\E s \in DOMAIN signers' : signers'[s].signed = "yes") => AllApproved(approvers')
    BY <1>2, <1>3
  <2>3. QED
    BY <2>1, <2>2 DEF SeenTooEarly
<1>4. CASE /\ Displaces(edited, c)
           /\ signers' = Without(S, CuratorRows(S, curator))
           /\ AskAssistantOf(c, signers', A3)
  <2>1. ~edited
    BY <1>4 DEF Displaces
  <2>2. \A s \in DOMAIN signers' : s \in DOMAIN S /\ signers'[s] = S[s]
    BY <1>4 DEF Without, Restrict
  <2>3. CASE approvers' = A3
    <3>1. AllApproved(A2) => AllApproved(approvers')
      BY <2>3, WithoutPending DEF AllApproved
    <3>2. \A s \in DOMAIN signers' : signers'[s].visible = "yes" => AllApproved(approvers')
      BY <1>2, <2>2, <3>1
    <3>3. QED
      BY <2>1, <3>2 DEF SeenTooEarly
  <2>4. CASE AllSigned(signers')
    BY <2>1, <2>4 DEF AllSigned, SeenTooEarly
  <2>5. QED
    BY <1>4, <2>3, <2>4 DEF AskAssistantOf
<1>5. QED
  BY <1>1, <1>3, <1>4 DEF final, A2

(* custom_update hides the document, or there is nobody to approve.         *)
LEMMA CustomUpdateHides ==
    ASSUME TypeOK, CustomUpdate
    PROVE  ~SeenTooEarly' /\ \A s \in DOMAIN signers' : signers'[s].signed # "yes"
<1> DEFINE S == Without(signers, CuratorRows(signers, curator))
           A == Without(approvers, AssistantRows(approvers, curator))
           hidden == IF DOMAIN A = {} THEN S
                     ELSE [s \in DOMAIN S |-> [S[s] EXCEPT !.visible = "no"]]
<1>1. /\ signers' = [s \in DOMAIN S |-> Withdrawn(hidden[s])]
      /\ approvers' = [a \in DOMAIN A |-> [A[a] EXCEPT !.ok = "null"]]
  BY DEF CustomUpdate
<1>2. \A s \in DOMAIN S : S[s] \in SignerRow
  BY SignersLeft
<1>3. CASE DOMAIN A = {}
  <2>1. AllApproved(approvers')
    BY <1>1, <1>3 DEF AllApproved, Pending
  <2>2. \A s \in DOMAIN S : Withdrawn(S[s]).signed = "null"
    BY <1>2, WithdrawnRow
  <2> HIDE DEF S
  <2>3. QED
    BY <1>1, <1>3, <2>1, <2>2 DEF SeenTooEarly
<1>4. CASE DOMAIN A # {}
  <2>1. \A s \in DOMAIN S : LET row == Withdrawn([S[s] EXCEPT !.visible = "no"])
                            IN  row.signed = "null" /\ row.visible = "no"
    <3> HIDE DEF S
    <3>1. QED
      BY <1>2 DEF Withdrawn, SignerRow
  <2> HIDE DEF S, A
  <2>2. QED
    BY <1>1, <1>4, <2>1 DEF SeenTooEarly
<1>5. QED
  BY <1>3, <1>4

(* Nobody is asked to sign before everybody has approved: whatever the      *)
(* lists and the order of requests, only add_approvers may add somebody     *)
(* whose approval a signer then does not wait for (make_visible_to_signers, *)
(* custom_update and update).                                               *)
THEOREM ApprovalComesFirst == Spec => VisibleAfterApproval
<1>1. ASSUME TypeOK, [Next]_vars, ~SeenTooEarly, late' = late, NoTwins
      PROVE  ~SeenTooEarly'
  <2>1. ASSUME NEW a \in DOMAIN approvers, Approve(a) PROVE ~SeenTooEarly'
    <3> DEFINE A == [approvers EXCEPT ![a].ok = "yes"]
               S == MakeVisibleToSigners(signers, A)
    <3>1. approvers' = A
      BY <2>1 DEF Approve
    <3>2. CASE AllApproved(A)
      BY <3>1, <3>2 DEF SeenTooEarly
    <3>3. CASE ~AllApproved(A)
      <4>1. signers' = signers
        BY <2>1, <3>3 DEF Approve, MakeVisibleToSigners, AsksCurator, AllSignedAndApproved
      <4>2. ~AllApproved(approvers)
        BY <2>1 DEF Approve, AllApproved, Pending
      <4>3. QED
        BY <1>1, <4>1, <4>2 DEF SeenTooEarly
    <3>4. QED
      BY <3>2, <3>3
  <2>2. ASSUME NEW a \in DOMAIN approvers, RejectApproval(a) PROVE ~SeenTooEarly'
    <3>1. ~AllApproved(approvers) /\ signers' = signers
      BY <2>2 DEF RejectApproval, AllApproved, Pending
    <3>2. QED
      BY <1>1, <3>1 DEF SeenTooEarly
  <2>3. ASSUME NEW s \in DOMAIN signers, Sign(s) PROVE ~SeenTooEarly'
    <3>1. signers' = Signed(s)
      BY <2>3 DEF Sign
    <3>2. /\ DOMAIN signers' = DOMAIN signers
          /\ signers'[s].signed = "yes"
          /\ \A q \in DOMAIN signers \ {s} : signers'[q] = signers[q]
      BY <1>1, <3>1 DEF Signed, TypeOK, IsTable, SignerRow
    <3>3. CASE approvers' = Pruned(s)
      <4>1. AllApproved(approvers) => AllApproved(approvers')
        BY <3>3, WithoutPending DEF AllApproved, Pruned
      <4>2. QED
        BY <1>1, <3>2, <4>1 DEF SeenTooEarly
    <3>4. CASE AllSigned(Signed(s))
      BY <3>1, <3>4 DEF AllSigned, SeenTooEarly
    <3>5. QED
      BY <2>3, <3>3, <3>4 DEF Sign, HandsOver, AllSignedAndApproved
  <2>4. ASSUME NEW s \in DOMAIN signers, RejectSigning(s) PROVE ~SeenTooEarly'
    <3>1. /\ DOMAIN signers' = DOMAIN signers
          /\ \A q \in DOMAIN signers \ {s} : signers'[q] = signers[q]
          /\ signers'[s].visible = signers[s].visible
          /\ signers[s].signed = "null"
      BY <1>1, <2>4 DEF RejectSigning, TypeOK, IsTable, SignerRow
    <3>2. approvers' = approvers
      BY <2>4 DEF RejectSigning
    <3>3. QED
      BY <1>1, <3>1, <3>2 DEF SeenTooEarly
  <2>5. ASSUME NEW u \in LateApprovers, NEW by \in Callers, AddApprover(u, by) PROVE FALSE
    BY <1>1, <2>5 DEF AddApprover, TypeOK
  <2>6. CASE CustomUpdate
    BY <1>1, <2>6, CustomUpdateHides
  <2>7. CASE AuthorUpdate
    BY <1>1, <2>7, UpdateAsksAgain DEF AuthorUpdate
  <2>8. CASE RestoreCompose
    BY <1>1, <2>8 DEF RestoreCompose, SeenTooEarly
  <2>9. CASE UNCHANGED vars
    BY <1>1, <2>9 DEF vars, SeenTooEarly
  <2>10. QED
    BY <1>1, <2>1, <2>2, <2>3, <2>4, <2>5, <2>6, <2>7, <2>8, <2>9 DEF Next
<1>2. QED
  BY <1>1, TypeCorrect, PTL DEF Spec, VisibleAfterApproval

(* A changed text keeps a signature only if nobody has to approve it        *)
(* anymore, in custom_update and in the author's update.                    *)
THEOREM EditsWithdraw == Spec => EditWithdrawsSignatures
<1>1. ASSUME TypeOK, [Next]_vars, content' # content, NoTwins,
             \E s \in DOMAIN signers' : signers'[s].signed = "yes"
      PROVE  AllApproved(approvers')
  <2>1. CASE CustomUpdate
    BY <1>1, <2>1, CustomUpdateHides
  <2>2. CASE AuthorUpdate
    <3>1. PICK edited \in BOOLEAN, c \in Curators \cup {Nobody},
               listA \in SUBSET (UsersOf(approvers, DOMAIN approvers) \cup Range(AskedApprovers)),
               listS \in (SUBSET (UsersOf(signers, DOMAIN signers) \cup Range(AskedSigners))) \ {{}} :
                 /\ content' = IF edited THEN content + 1 ELSE content
                 /\ UpdateRows(edited, c, listA, listS)
      BY <2>2 DEF AuthorUpdate
    <3>2. edited
      BY <1>1, <3>1
    <3>3. QED
      BY <1>1, <3>1, <3>2, UpdateAsksAgain
  <2>3. CASE content' = content
    BY <1>1, <2>3
  <2>4. QED
    BY <1>1, <2>1, <2>2, <2>3
    DEF Next, vars, doc, Approve, RejectApproval, Sign, RejectSigning, AddApprover, RestoreCompose
<1>2. QED
  BY <1>1, TypeCorrect, PTL DEF Spec, EditWithdrawsSignatures

-----------------------------------------------------------------------------
(* The curator.  As long as the author has not changed the lists, whoever   *)
(* has a row of kind basic_signer beside a curator is the curator, and was  *)
(* asked when everybody had signed.                                         *)

CuratorInv ==
    /\ CuratorAskedLast
    /\ updates = 0 /\ curator # Nobody =>
         \A s \in DOMAIN signers : signers[s].kind = "basic_signer" => signers[s].user = curator

(* Signatures given or refused do not change who is asked last.             *)
LEMMA SameRowsSameCurator ==
    ASSUME CuratorInv, DOMAIN signers' = DOMAIN signers, UNCHANGED <<curator, updates>>,
           \A s \in DOMAIN signers : /\ signers'[s].user = signers[s].user
                                     /\ signers'[s].kind = signers[s].kind
                                     /\ signers[s].signed = "yes" => signers'[s].signed = "yes"
    PROVE  CuratorInv'
BY DEF CuratorInv, CuratorAskedLast, CuratorRows

(* The curator is asked last and nobody else in his kind of row.            *)
LEMMA CuratorInvariant == Spec => []CuratorInv
<1>1. Init => CuratorInv
  <2> SUFFICES ASSUME Init, curator # Nobody PROVE \A s \in DOMAIN signers : signers[s].kind # "basic_signer"
    BY DEF CuratorInv, CuratorAskedLast, CuratorRows
  <2>1. QED
    BY DEF Init, NewSigner
<1>2. ASSUME TypeOK, CuratorInv, [Next]_vars PROVE CuratorInv'
  <2>1. ASSUME NEW a \in DOMAIN approvers, Approve(a) PROVE CuratorInv'
    <3> DEFINE A == [approvers EXCEPT ![a].ok = "yes"]
               S == MakeVisibleToSigners(signers, A)
    <3>1. /\ DOMAIN S = DOMAIN signers
          /\ \A s \in DOMAIN signers : /\ S[s].user = signers[s].user
                                       /\ S[s].kind = signers[s].kind
                                       /\ S[s].signed = signers[s].signed
      BY <1>2 DEF MakeVisibleToSigners, TypeOK, IsTable, SignerRow
    <3>2. UNCHANGED <<curator, updates>>
      BY <2>1 DEF Approve, doc, used
    <3> HIDE DEF S
    <3>3. CASE signers' = S
      BY <1>2, <3>1, <3>2, <3>3, SameRowsSameCurator
    <3>4. CASE AsksCurator(a, S, A) /\ signers' \in Created(S, SignerIds, NewSigner(curator, "basic_signer", "yes"))
      <4>1. PICK key \in SignerIds \ DOMAIN S :
              /\ DOMAIN signers' = DOMAIN S \cup {key}
              /\ signers'[key] = NewSigner(curator, "basic_signer", "yes")
              /\ \A k \in DOMAIN S : signers'[k] = S[k]
        BY <3>4, CreatedRows
      <4>2. \A s \in DOMAIN S : S[s].signed = "yes"
        BY <3>4 DEF AsksCurator, AllSignedAndApproved, AllSigned
      <4>3. signers'[key].user = curator /\ signers'[key].kind = "basic_signer"
        BY <4>1 DEF NewSigner
      <4>4. QED
        BY <1>2, <3>1, <3>2, <4>1, <4>2, <4>3 DEF CuratorInv, CuratorAskedLast, CuratorRows
    <3>5. QED
      BY <2>1, <3>3, <3>4 DEF Approve, S
  <2>2. ASSUME NEW a \in DOMAIN approvers, RejectApproval(a) PROVE CuratorInv'
    BY <1>2, <2>2, SameRowsSameCurator DEF RejectApproval, used
  <2>3. ASSUME NEW s \in DOMAIN signers, Sign(s) PROVE CuratorInv'
    <3>1. signers' = Signed(s) /\ UNCHANGED <<curator, updates>>
      BY <2>3 DEF Sign
    <3>2. /\ DOMAIN signers' = DOMAIN signers
          /\ \A q \in DOMAIN signers : /\ signers'[q].user = signers[q].user
                                       /\ signers'[q].kind = signers[q].kind
                                       /\ signers[q].signed = "yes" => signers'[q].signed = "yes"
      BY <1>2, <3>1 DEF Signed, TypeOK, IsTable, SignerRow
    <3>3. QED
      BY <1>2, <3>1, <3>2, SameRowsSameCurator
  <2>4. ASSUME NEW s \in DOMAIN signers, RejectSigning(s) PROVE CuratorInv'
    <3>1. UNCHANGED <<curator, updates>>
      BY <2>4 DEF RejectSigning, used
    <3>2. /\ DOMAIN signers' = DOMAIN signers
          /\ \A q \in DOMAIN signers : /\ signers'[q].user = signers[q].user
                                       /\ signers'[q].kind = signers[q].kind
                                       /\ signers[q].signed = "yes" => signers'[q].signed = "yes"
      BY <1>2, <2>4 DEF RejectSigning, TypeOK, IsTable, SignerRow
    <3>3. QED
      BY <1>2, <3>1, <3>2, SameRowsSameCurator
  <2>5. ASSUME NEW u \in LateApprovers, NEW by \in Callers, AddApprover(u, by) PROVE CuratorInv'
    BY <1>2, <2>5, SameRowsSameCurator DEF AddApprover, doc
  <2>6. CASE CustomUpdate
    <3> DEFINE S == Without(signers, CuratorRows(signers, curator))
               A == Without(approvers, AssistantRows(approvers, curator))
               hidden == IF DOMAIN A = {} THEN S
                         ELSE [s \in DOMAIN S |-> [S[s] EXCEPT !.visible = "no"]]
    <3>1. signers' = [s \in DOMAIN S |-> Withdrawn(hidden[s])] /\ UNCHANGED <<curator, updates>>
      BY <2>6 DEF CustomUpdate, used
    <3>2. \A s \in DOMAIN S : s \in DOMAIN signers \ CuratorRows(signers, curator) /\ S[s] = signers[s]
      BY <1>2, SignersLeft
    <3>3. \A s \in DOMAIN S : S[s] \in SignerRow
      BY <1>2, SignersLeft
    <3> HIDE DEF S
    <3>4. \A s \in DOMAIN S : Withdrawn(hidden[s]).user = S[s].user /\ Withdrawn(hidden[s]).kind = S[s].kind
      BY <3>3 DEF Withdrawn, SignerRow
    <3>5. DOMAIN signers' = DOMAIN S /\ \A s \in DOMAIN S : signers'[s] = Withdrawn(hidden[s])
      BY <3>1
    <3> HIDE DEF hidden
    <3>6. CuratorRows(signers', curator) = {}
      BY <3>2, <3>4, <3>5 DEF CuratorRows
    <3>7. QED
      BY <1>2, <3>1, <3>2, <3>4, <3>5, <3>6 DEF CuratorInv, CuratorAskedLast
  <2>7. CASE AuthorUpdate
    <3>1. updates' # 0
      BY <1>2, <2>7, BoundAssumption DEF AuthorUpdate, TypeOK
    <3>2. QED
      BY <3>1 DEF CuratorInv, CuratorAskedLast
  <2>8. CASE RestoreCompose
    BY <1>2, <2>8, SameRowsSameCurator DEF RestoreCompose
  <2>9. CASE UNCHANGED vars
    BY <1>2, <2>9, SameRowsSameCurator DEF vars, doc, used
  <2>10. QED
    BY <1>2, <2>1, <2>2, <2>3, <2>4, <2>5, <2>6, <2>7, <2>8, <2>9 DEF Next
<1>3. QED
  BY <1>1, <1>2, TypeCorrect, PTL DEF Spec

(* While the curator's own signature is missing, every other one is there.  *)
THEOREM CuratorIsAskedLast == Spec => []CuratorAskedLast
<1>1. CuratorInv => CuratorAskedLast
  BY DEF CuratorInv
<1>2. QED
  BY <1>1, CuratorInvariant, PTL

(* The signature that registers a document with a curator is the curator's: *)
(* any other signer hands over to the curator's assistant instead.          *)
THEOREM CuratorSignsFirst == Spec => CuratorSignsBeforeRegistration
<1>1. ASSUME TypeOK, CuratorInv, docs' # docs, curator # Nobody, updates = 0,
             NEW s \in DOMAIN signers, Sign(s)
      PROVE  \E c \in CuratorRows(signers', curator) : signers'[c].signed = "yes"
  <2>1. signers' = Signed(s) /\ ~HandsOver(s, Signed(s), Pruned(s)) /\ AllSignedAndApproved(Signed(s), Pruned(s))
    BY <1>1 DEF Sign, RegisterDocumentAfterSigning
  <2>2. signers[s].kind = "basic_signer"
    BY <1>1, <2>1 DEF HandsOver
  <2>3. signers[s].user = curator
    BY <1>1, <2>2 DEF CuratorInv
  <2>4. /\ s \in DOMAIN signers'
        /\ signers'[s].user = curator
        /\ signers'[s].kind = "basic_signer"
        /\ signers'[s].signed = "yes"
    BY <1>1, <2>1, <2>2, <2>3 DEF Signed, TypeOK, IsTable, SignerRow
  <2>5. QED
    BY <2>4 DEF CuratorRows
<1>2. ASSUME TypeOK, CuratorInv
      PROVE  (docs' # docs /\ curator # Nobody /\ updates = 0 /\ \E s \in DOMAIN signers : Sign(s))
               => \E c \in CuratorRows(signers', curator) : signers'[c].signed = "yes"
  BY <1>1, <1>2
<1>3. QED
  BY <1>2, TypeCorrect, CuratorInvariant, PTL DEF Spec, CuratorSignsBeforeRegistration

-----------------------------------------------------------------------------
(* Who sees the document.  Without updates by the author all signers see it *)
(* or none does, and approvers who all leave with the curator, his          *)
(* assistants, hide it from nobody.                                         *)

EverySignerSees == \A s \in DOMAIN signers : signers[s].visible = "yes"
OnlyAssistants == DOMAIN approvers = AssistantRows(approvers, curator)

VisibleInv ==
    updates = 0 =>
        /\ (\E s \in DOMAIN signers : signers[s].visible = "yes") => EverySignerSees
        /\ OnlyAssistants => EverySignerSees
        /\ VisibleOnceAllApproved

(* Once all signers see the document nothing is left to show.               *)
LEMMA AllSeeIsVisible ==
    EverySignerSees => VisibleInv
BY DEF VisibleInv, VisibleOnceAllApproved, EverySignerSees

(* An approval shows the document to nobody or to all, the curator's new    *)
(* row included.                                                            *)
LEMMA ApproveVisible ==
    ASSUME TypeOK, VisibleInv, NEW a \in DOMAIN approvers, Approve(a)
    PROVE  VisibleInv'
<1> DEFINE A == [approvers EXCEPT ![a].ok = "yes"]
           S == MakeVisibleToSigners(signers, A)
<1>1. approvers' = A /\ UNCHANGED <<curator, updates>>
  BY DEF Approve, doc, used
<1>2. CASE AllApproved(A)
  <2>1. \A s \in DOMAIN S : S[s].visible = "yes"
    BY <1>2 DEF MakeVisibleToSigners, TypeOK, IsTable, SignerRow
  <2> HIDE DEF S
  <2>2. CASE signers' = S
    BY <2>1, <2>2, AllSeeIsVisible DEF EverySignerSees, VisibleInv, VisibleOnceAllApproved
  <2>3. CASE signers' \in Created(S, SignerIds, NewSigner(curator, "basic_signer", "yes"))
    <3>1. PICK key \in SignerIds \ DOMAIN S :
            /\ DOMAIN signers' = DOMAIN S \cup {key}
            /\ signers'[key] = NewSigner(curator, "basic_signer", "yes")
            /\ \A k \in DOMAIN S : signers'[k] = S[k]
      BY <2>3, CreatedRows
    <3>2. EverySignerSees'
      BY <2>1, <3>1 DEF NewSigner, EverySignerSees
    <3>3. QED
      BY <3>2 DEF EverySignerSees, VisibleInv, VisibleOnceAllApproved
  <2>4. QED
    BY <2>2, <2>3 DEF Approve, S
<1>3. CASE ~AllApproved(A)
  <2>1. signers' = signers
    BY <1>3 DEF Approve, MakeVisibleToSigners, AsksCurator, AllSignedAndApproved
  <2>2. OnlyAssistants' => OnlyAssistants
    BY <1>1 DEF OnlyAssistants, AssistantRows, TypeOK, IsTable, ApproverRow
  <2>3. QED
    BY <1>1, <1>3, <2>1, <2>2 DEF VisibleInv, EverySignerSees, VisibleOnceAllApproved
<1>4. QED
  BY <1>2, <1>3

(* An edit hides the document from everybody, or everybody who had to       *)
(* approve was an assistant of the curator and leaves.                      *)
LEMMA CustomUpdateVisible ==
    ASSUME TypeOK, VisibleInv, CustomUpdate
    PROVE  VisibleInv'
<1> DEFINE S == Without(signers, CuratorRows(signers, curator))
           A == Without(approvers, AssistantRows(approvers, curator))
           hidden == IF DOMAIN A = {} THEN S
                     ELSE [s \in DOMAIN S |-> [S[s] EXCEPT !.visible = "no"]]
<1>1. /\ signers' = [s \in DOMAIN S |-> Withdrawn(hidden[s])]
      /\ approvers' = [a \in DOMAIN A |-> [A[a] EXCEPT !.ok = "null"]]
      /\ UNCHANGED <<curator, updates>>
  BY DEF CustomUpdate, used
<1>2. \A s \in DOMAIN S : S[s] \in SignerRow /\ s \in DOMAIN signers /\ S[s] = signers[s]
  BY SignersLeft
<1>3. /\ DOMAIN A = DOMAIN approvers \ AssistantRows(approvers, curator)
      /\ \A a \in DOMAIN A : A[a] = approvers[a] /\ A[a] \in ApproverRow
  BY ApproversLeft
<1>4. CASE DOMAIN A = {}
  <2>1. OnlyAssistants
    BY <1>3, <1>4 DEF OnlyAssistants, AssistantRows
  <2>2. updates = 0 => \A s \in DOMAIN S : S[s].visible = "yes"
    BY <1>2, <2>1 DEF VisibleInv, EverySignerSees
  <2>3. \A s \in DOMAIN S : Withdrawn(S[s]).visible = S[s].visible
    <3> HIDE DEF S
    <3>1. QED
      BY <1>2 DEF Withdrawn, SignerRow
  <2>4. updates' = 0 => EverySignerSees'
    <3> HIDE DEF S
    <3>1. QED
      BY <1>1, <1>4, <2>2, <2>3 DEF EverySignerSees
  <2>5. QED
    BY <2>4 DEF EverySignerSees, VisibleInv, VisibleOnceAllApproved
<1>5. CASE DOMAIN A # {}
  <2>1. \A s \in DOMAIN S : Withdrawn([S[s] EXCEPT !.visible = "no"]).visible = "no"
    <3> HIDE DEF S
    <3>1. QED
      BY <1>2 DEF Withdrawn, SignerRow
  <2>2. \A a \in DOMAIN A : [A[a] EXCEPT !.ok = "null"].ok = "null" /\ [A[a] EXCEPT !.ok = "null"].user = A[a].user
    <3> HIDE DEF A
    <3>1. QED
      BY <1>3 DEF ApproverRow
  <2>3. \A a \in DOMAIN A : approvers[a].user = A[a].user /\ a \in DOMAIN approvers \ AssistantRows(approvers, curator)
    BY <1>3
  <2> HIDE DEF S, A
  <2>4. \A s \in DOMAIN signers' : signers'[s].visible = "no"
    BY <1>1, <1>5, <2>1
  <2>5. /\ DOMAIN approvers' = DOMAIN A
        /\ \A a \in DOMAIN A : approvers'[a].ok = "null" /\ approvers'[a].user = approvers[a].user
    BY <1>1, <2>2, <2>3
  <2>6. ~OnlyAssistants'
    BY <1>1, <1>5, <2>3, <2>5 DEF OnlyAssistants, AssistantRows
  <2>7. ~AllApproved(approvers')
    BY <1>5, <2>5 DEF AllApproved, Pending
  <2>8. QED
    BY <2>4, <2>6, <2>7 DEF VisibleInv, VisibleOnceAllApproved
<1>6. QED
  BY <1>4, <1>5

(* A signer never waits for an approval that nobody is left to give         *)
(* (make_visible_to_signers, custom_update, sign), until the author updates *)
(* the lists, if nobody asked to approve is an assistant of a possible      *)
(* curator: an edit deletes the row of such an approver and leaves the      *)
(* document hidden.  A document that skips approval is not waited for.      *)
THEOREM SignersWaitForSomebody ==
    ASSUME ~SkipsApproval,
           \A c \in Curators, a \in DOMAIN AskedApprovers : AskedApprovers[a] \notin Assistants[c]
    PROVE  Spec => [](updates = 0 => VisibleOnceAllApproved)
<1>1. Init => VisibleInv
  <2> SUFFICES ASSUME Init PROVE VisibleInv
    OBVIOUS
  <2>1. PICK S \in (SUBSET DOMAIN AskedSigners) \ {{}}, A \in SUBSET DOMAIN AskedApprovers, kind \in Kinds :
          /\ signers = [s \in S |-> NewSigner(AskedSigners[s], kind, IF A = {} THEN "yes" ELSE "null")]
          /\ approvers = [a \in A |-> NewApprover(AskedApprovers[a], Nobody)]
    BY DEF Init
  <2>2. CASE A = {}
    <3>1. EverySignerSees
      BY <2>1, <2>2 DEF EverySignerSees, NewSigner
    <3>2. QED
      BY <3>1, AllSeeIsVisible
  <2>3. CASE A # {}
    <3>1. \A s \in DOMAIN signers : signers[s].visible = "null"
      BY <2>1, <2>3 DEF NewSigner
    <3>2. DOMAIN approvers = A /\ \A a \in A : approvers[a].ok = "null" /\ approvers[a].user = AskedApprovers[a]
      BY <2>1 DEF NewApprover
    <3>3. ~OnlyAssistants /\ ~AllApproved(approvers)
      BY <2>3, <3>2 DEF OnlyAssistants, AssistantRows, AllApproved, Pending
    <3>4. QED
      BY <3>1, <3>3 DEF VisibleInv, VisibleOnceAllApproved
  <2>4. QED
    BY <2>2, <2>3
<1>2. ASSUME TypeOK, VisibleInv, [Next]_vars PROVE VisibleInv'
  <2>1. ASSUME NEW a \in DOMAIN approvers, Approve(a) PROVE VisibleInv'
    BY <1>2, <2>1, ApproveVisible
  <2>2. ASSUME NEW a \in DOMAIN approvers, RejectApproval(a) PROVE VisibleInv'
    <3>1. /\ UNCHANGED <<signers, curator, updates>>
          /\ DOMAIN approvers' = DOMAIN approvers
          /\ \A b \in DOMAIN approvers : approvers'[b].user = approvers[b].user
          /\ approvers'[a].ok = "no"
      BY <1>2, <2>2 DEF RejectApproval, used, TypeOK, IsTable, ApproverRow
    <3>2. ~AllApproved(approvers') /\ (OnlyAssistants' => OnlyAssistants)
      BY <2>2, <3>1 DEF AllApproved, Pending, OnlyAssistants, AssistantRows
    <3>3. QED
      BY <1>2, <3>1, <3>2 DEF VisibleInv, EverySignerSees, VisibleOnceAllApproved
  <2>3. ASSUME NEW s \in DOMAIN signers, Sign(s) PROVE VisibleInv'
    <3>1. signers[s].visible = "yes" /\ signers' = Signed(s) /\ updates' = updates
      BY <2>3 DEF Sign, MaySign
    <3>2. updates = 0 => EverySignerSees
      BY <1>2, <3>1 DEF VisibleInv
    <3>3. /\ DOMAIN signers' = DOMAIN signers
          /\ signers'[s].visible = "yes"
          /\ \A q \in DOMAIN signers \ {s} : signers'[q] = signers[q]
      BY <1>2, <3>1 DEF Signed, TypeOK, IsTable, SignerRow
    <3>4. QED
      BY <3>1, <3>2, <3>3 DEF EverySignerSees, VisibleInv, VisibleOnceAllApproved
  <2>4. ASSUME NEW s \in DOMAIN signers, RejectSigning(s) PROVE VisibleInv'
    <3>1. /\ DOMAIN signers' = DOMAIN signers
          /\ \A q \in DOMAIN signers : signers'[q].visible = signers[q].visible
          /\ UNCHANGED <<approvers, curator, updates>>
      BY <1>2, <2>4 DEF RejectSigning, used, TypeOK, IsTable, SignerRow
    <3>2. QED
      BY <1>2, <3>1 DEF VisibleInv, EverySignerSees, OnlyAssistants, VisibleOnceAllApproved
  <2>5. ASSUME NEW u \in LateApprovers, NEW by \in Callers, AddApprover(u, by) PROVE VisibleInv'
    <3>1. PICK key \in ApproverIds \ DOMAIN approvers :
            /\ DOMAIN approvers' = DOMAIN approvers \cup {key}
            /\ approvers'[key] = NewApprover(u, by)
            /\ \A a \in DOMAIN approvers : approvers'[a] = approvers[a]
      BY <2>5, CreatedRows DEF AddApprover
    <3>2. UNCHANGED <<signers, curator, updates>>
      BY <2>5 DEF AddApprover, doc
    <3>3. ~AllApproved(approvers')
      BY <3>1 DEF NewApprover, AllApproved, Pending
    <3>4. OnlyAssistants' => OnlyAssistants
      BY <3>1, <3>2 DEF OnlyAssistants, AssistantRows
    <3>5. QED
      BY <1>2, <3>2, <3>3, <3>4 DEF VisibleInv, EverySignerSees, VisibleOnceAllApproved
  <2>6. CASE CustomUpdate
    BY <1>2, <2>6, CustomUpdateVisible
  <2>7. CASE AuthorUpdate
    <3>1. updates' # 0
      BY <1>2, <2>7, BoundAssumption DEF AuthorUpdate, TypeOK
    <3>2. QED
      BY <3>1 DEF VisibleInv
  <2>8. CASE UNCHANGED <<signers, approvers, curator, updates>>
    BY <1>2, <2>8 DEF VisibleInv, EverySignerSees, OnlyAssistants, VisibleOnceAllApproved
  <2>9. QED
    BY <1>2, <2>1, <2>2, <2>3, <2>4, <2>5, <2>6, <2>7, <2>8 DEF Next, RestoreCompose, vars, doc, used
<1>3. VisibleInv => (updates = 0 => VisibleOnceAllApproved)
  BY DEF VisibleInv
<1>4. QED
  BY <1>1, <1>2, <1>3, TypeCorrect, PTL DEF Spec
=============================================================================
