----------------------------- MODULE RegCounter ------------------------------
(* Registration numbers of documents entered through docflow: creating a    *)
(* document calls allocate_reg_number, which locks the RegCounter row of    *)
(* the journal and the year (select_for_update().get_or_create), reads its  *)
(* next_no and saves the successor, in one transaction; the document gets   *)
(* the number afterwards, outside of it.                                    *)
(*                                                                          *)
(* Of the database the model keeps what the code relies on: rows others     *)
(* inserted or changed are seen once they are committed, a locking read     *)
(* waits for the lock, and inserting a key somebody else has inserted waits *)
(* for his transaction and then fails on the unique index.                  *)
EXTENDS Naturals

CONSTANTS
    Requests,   \* the requests that create a document, one document each
    Keys,       \* pairs of a journal and a year
    Nobody,     \* holds no lock
    NoNumber    \* the number of a document that has none

VARIABLES
    counter,    \* key -> committed RegCounter.next_no, 0 while there is no row
    lock,       \* key -> the request whose transaction holds the row
    pc,         \* request -> the statement it is about to run
    key,        \* request -> the journal and the year it was sent with
    order,      \* request -> the next_no it read, 0 before it read any
    number      \* request -> the register_number of its document

vars == <<counter, lock, pc, key, order, number>>

Locations == {"get", "create", "save", "file", "done", "failed"}
Numbers == [key : Keys, order : Nat]

ASSUME RequestAssumption == Nobody \notin Requests /\ NoNumber \notin Numbers

Goto(t, l) == pc' = [pc EXCEPT ![t] = l]
Lock(t) == lock[key[t]] = Nobody /\ lock' = [lock EXCEPT ![key[t]] = t]
Read(t, n) == order' = [order EXCEPT ![t] = n]
Successor(k) == IF counter[k] = 0 THEN 1 ELSE counter[k]

-----------------------------------------------------------------------------
Init ==
    /\ counter \in [Keys -> {0}]
    /\ lock = [k \in Keys |-> Nobody]
    /\ pc = [t \in Requests |-> "get"]
    /\ key \in [Requests -> Keys]
    /\ order = [t \in Requests |-> 0]
    /\ number = [t \in Requests |-> NoNumber]

(* Slip: get_or_create without select_for_update. *)
Slip_GetUnlocked(t) ==
    /\ pc[t] = "get"
    /\ counter[key[t]] > 0
    /\ Read(t, counter[key[t]])
    /\ Goto(t, "save")
    /\ UNCHANGED <<counter, lock, key, number>>

Get(t) ==
    /\ pc[t] = "get"
    /\ counter[key[t]] > 0
    /\ Lock(t)
    /\ Read(t, counter[key[t]])
    /\ Goto(t, "save")
    /\ UNCHANGED <<counter, key, number>>

DoesNotExist(t) ==
    /\ pc[t] = "get"
    /\ counter[key[t]] = 0
    /\ Goto(t, "create")
    /\ UNCHANGED <<counter, lock, key, order, number>>

Create(t) ==
    /\ pc[t] = "create"
    /\ counter[key[t]] = 0
    /\ Lock(t)
    /\ Read(t, 1)
    /\ Goto(t, "save")
    /\ UNCHANGED <<counter, key, number>>

(* IntegrityError: somebody created the row first, so it is there to get.   *)
GetAgain(t) ==
    /\ pc[t] = "create"
    /\ counter[key[t]] > 0
    /\ lock[key[t]] = Nobody
    /\ Goto(t, "get")
    /\ UNCHANGED <<counter, lock, key, order, number>>

(* Slip: the transaction is left open. *)
Slip_SaveAndHold(t) ==
    /\ pc[t] = "save"
    /\ counter' = [counter EXCEPT ![key[t]] = order[t] + 1]
    /\ Goto(t, "file")
    /\ UNCHANGED <<lock, key, order, number>>

(* counter.save and the end of the transaction.                             *)
Save(t) ==
    /\ pc[t] = "save"
    /\ counter' = [counter EXCEPT ![key[t]] = order[t] + 1]
    /\ lock' = [lock EXCEPT ![key[t]] = Nobody]
    /\ Goto(t, "file")
    /\ UNCHANGED <<key, order, number>>

File(t) ==
    /\ pc[t] = "file"
    /\ number' = [number EXCEPT ![t] = [key |-> key[t], order |-> order[t]]]
    /\ Goto(t, "done")
    /\ UNCHANGED <<counter, lock, key, order>>

(* Slip: next_no is saved outside of the transaction. *)
Slip_RollbackKeepsNext(t) ==
    /\ pc[t] \in {"get", "create", "save"}
    /\ lock' = IF pc[t] = "save" THEN [lock EXCEPT ![key[t]] = Nobody] ELSE lock
    /\ counter' = IF pc[t] = "save" THEN [counter EXCEPT ![key[t]] = order[t] + 1] ELSE counter
    /\ Read(t, 0)
    /\ Goto(t, "failed")
    /\ UNCHANGED <<key, number>>

(* The transaction is rolled back.                                          *)
Rollback(t) ==
    /\ pc[t] \in {"get", "create", "save"}
    /\ lock' = IF pc[t] = "save" THEN [lock EXCEPT ![key[t]] = Nobody] ELSE lock
    /\ Read(t, 0)
    /\ Goto(t, "failed")
    /\ UNCHANGED <<counter, key, number>>

(* The document is not created, or not given the number: the number is lost.*)
FileFails(t) ==
    /\ pc[t] = "file"
    /\ Goto(t, "failed")
    /\ UNCHANGED <<counter, lock, key, order, number>>

-----------------------------------------------------------------------------
Works(t) ==
    Get(t) \/ DoesNotExist(t) \/ Create(t) \/ GetAgain(t) \/ Save(t) \/ File(t)
Fails(t) == Rollback(t) \/ FileFails(t)
Next == \E t \in Requests : Works(t) \/ Fails(t)

Spec == Init /\ [][Next]_vars

(* The server runs every request, and the database grants every lock that   *)
(* stays free.                                                              *)
FairSpec == Spec /\ \A t \in Requests : WF_vars(Works(t))

-----------------------------------------------------------------------------
TypeOK ==
    /\ counter \in [Keys -> Nat]
    /\ lock \in [Keys -> Requests \cup {Nobody}]
    /\ pc \in [Requests -> Locations]
    /\ key \in [Requests -> Keys]
    /\ order \in [Requests -> Nat]
    /\ number \in [Requests -> Numbers \cup {NoNumber}]

(* A request has taken its number once its transaction is committed.        *)
Taken(t) == pc[t] \in {"file", "done"} \/ (pc[t] = "failed" /\ order[t] > 0)

given == [t \in Requests |->
            IF Taken(t) THEN [key |-> key[t], order |-> order[t]] ELSE NoNumber]

Abstract == INSTANCE RegNumbers WITH next <- [k \in Keys |-> Successor(k)]

(* The docstring of allocate_reg_number, "Atomically increments             *)
(* per-(journal, year) counter": seen at the commits, every request takes   *)
(* the next number in one step.                                             *)
TakesNumbersAtomically == Abstract!Spec

(* No two documents of a journal and a year bear the same number.           *)
DistinctNumbers ==
    \A t, u \in Requests : number[t] # NoNumber /\ number[t] = number[u] => t = u

(* Nobody waits for a lock forever.                                         *)
EveryRequestEnds == <>(\A t \in Requests : pc[t] \in {"done", "failed"})
=============================================================================
