-------------------------------- MODULE FanOut --------------------------------
(****************************************************************************)
(* The fan-out to the reviewers' inbox, statement by statement, for several *)
(* requests at a time.  DocFlow takes a request with its fan-outs as one    *)
(* step; here is what becomes of them when they overlap.                    *)
(*                                                                          *)
(* A saved row is committed before its handler runs.  A deletion is one     *)
(* transaction with its handler, which sees the row gone while the others   *)
(* still see it.                                                            *)
(****************************************************************************)
EXTENDS FiniteSets

CONSTANTS
    Readers,        \* people
    ReviewRows,     \* ids of the document's rows of reviewers
    FanRequests     \* requests under way

VARIABLES
    reviews,        \* row of a reviewer -> person; nothing keeps a person from having two
    inbox,          \* who has an item to_review of the document
    fans,           \* request -> where its handler stands
    overtaken       \* history: people about whom a handler may have been wrong

fanVars == <<reviews, inbox, fans, overtaken>>

PeopleBut(gone) == {reviews[i] : i \in DOMAIN reviews \ gone}
Reviewing == PeopleBut({})

(* row: the row it has saved, to which the items it adds refer; gone: the   *)
(* row it deletes; late: whose rows changed since it read them.             *)
NoFan == [at |-> "idle", row |-> {}, gone |-> {}, target |-> {}, existing |-> {}, late |-> {}, alone |-> FALSE]

FanInit ==
    /\ reviews \in UNION {[S -> Readers] : S \in SUBSET ReviewRows}
    /\ inbox = Reviewing
    /\ fans = [r \in FanRequests |-> NoFan]
    /\ overtaken = {}

(* Requests that have read the rows, as rows of S change.                   *)
Overtaking(r, S, mine) ==
    fans' = [q \in FanRequests |->
               IF q = r THEN mine
               ELSE IF fans[q] = NoFan THEN NoFan
               ELSE [fans[q] EXCEPT !.late = @ \cup (IF fans[q].at = "target" THEN {} ELSE S), !.alone = FALSE]]

AloneNow(r) == \A q \in FanRequests \ {r} : fans[q] = NoFan

Starts(r, row, gone, changed) ==
    /\ fans[r] = NoFan
    /\ Overtaking(r, changed, [NoFan EXCEPT !.at = "target", !.row = row, !.gone = gone, !.alone = AloneNow(r)])
    /\ UNCHANGED <<inbox, overtaken>>

(* A row a transaction has deleted is locked until it ends.                 *)
Unlocked == DOMAIN reviews \ UNION {fans[q].gone : q \in FanRequests}

(* A row is created, saved as it is, or given to another person.  An id is  *)
(* not used again.                                                          *)
CreateReviewer(r, i, u) ==
    /\ i \notin DOMAIN reviews \cup UNION {fans[q].row : q \in FanRequests}
    /\ reviews' = [j \in DOMAIN reviews \cup {i} |-> IF j = i THEN u ELSE reviews[j]]
    /\ Starts(r, {i}, {}, {u})

SaveReviewer(r, i) ==
    /\ i \in Unlocked
    /\ UNCHANGED reviews
    /\ Starts(r, {i}, {}, {})

ChangeReviewer(r, i, u) ==
    /\ i \in Unlocked
    /\ reviews' = [reviews EXCEPT ![i] = u]
    /\ Starts(r, {i}, {}, {reviews[i], u})

DeleteReviewer(r, i) ==
    /\ i \in Unlocked
    /\ UNCHANGED reviews
    /\ Starts(r, {}, {i}, {})

-----------------------------------------------------------------------------
(* sync_fanout_to_review.                                                   *)

At(r, at) == fans[r].at = at

(* Slip: the target is read before the row is deleted. *)
Slip_ReadTarget(r) ==
    /\ At(r, "target")
    /\ fans' = [fans EXCEPT ![r].at = "existing", ![r].target = Reviewing]
    /\ UNCHANGED <<reviews, inbox, overtaken>>

ReadTarget(r) ==
    /\ At(r, "target")
    /\ fans' = [fans EXCEPT ![r].at = "existing", ![r].target = PeopleBut(fans[r].gone)]
    /\ UNCHANGED <<reviews, inbox, overtaken>>

ReadExisting(r) ==
    /\ At(r, "existing")
    /\ fans' = [fans EXCEPT ![r].at = IF fans[r].gone = {} THEN "add" ELSE "commit", ![r].existing = inbox]
    /\ UNCHANGED <<reviews, inbox, overtaken>>

Missing(r) == fans[r].target \ fans[r].existing
TooMany(r) == fans[r].existing \ fans[r].target

(* Items that are there by now are left as they are.  Any other insertion   *)
(* needs the row it refers to when it is committed, and waits for a         *)
(* transaction that has deleted it.                                         *)
Adds(r) == Missing(r) \ inbox

AddItems(r) ==
    /\ At(r, "add")
    /\ Adds(r) # {} => fans[r].row \subseteq Unlocked
    /\ inbox' = inbox \cup Missing(r)
    /\ fans' = [fans EXCEPT ![r].at = "delete"]
    /\ UNCHANGED <<reviews, overtaken>>

(* Whose row it deletes.                                                    *)
Leaving(r) == {reviews[i] : i \in fans[r].gone}

(* After a handler that ran alone nobody is in doubt.  A deletion does not  *)
(* see the item another handler has yet to add.                             *)
Ended(r) == overtaken' = IF fans[r].alone THEN {} ELSE overtaken \cup fans[r].late \cup Leaving(r)

DeleteItems(r) ==
    /\ At(r, "delete")
    /\ inbox' = inbox \ TooMany(r)
    /\ fans' = [fans EXCEPT ![r] = NoFan]
    /\ Ended(r)
    /\ UNCHANGED reviews

CommitDeletion(r) ==
    /\ At(r, "commit")
    /\ Adds(r) = {}
    /\ reviews' = [i \in DOMAIN reviews \ fans[r].gone |-> reviews[i]]
    /\ inbox' = inbox \ TooMany(r)
    /\ Overtaking(r, Leaving(r), NoFan)
    /\ Ended(r)

(* A handler that fails changes nothing more, and nobody looks after those  *)
(* in S.                                                                    *)
Fails(r, S) ==
    /\ fans' = [fans EXCEPT ![r] = NoFan]
    /\ overtaken' = overtaken \cup fans[r].late \cup Leaving(r) \cup S
    /\ UNCHANGED <<reviews, inbox>>

(* The row has been deleted.                                                *)
RowIsGone(r) ==
    /\ At(r, "add")
    /\ Adds(r) # {}
    /\ fans[r].row \cap DOMAIN reviews = {}
    /\ Fails(r, {})

(* It waits for a deletion that waits for the item it has inserted.         *)
GivenUp(r, q) ==
    /\ At(r, "add") /\ At(q, "commit")
    /\ fans[r].row = fans[q].gone
    /\ Adds(r) \cap Missing(q) # {}
    /\ Fails(r, Missing(r) \cup TooMany(r))

(* A deletion cannot add items: they refer to the row it deletes.           *)
DeletionFails(r) ==
    /\ At(r, "commit")
    /\ Adds(r) # {}
    /\ Fails(r, {})

FanNext ==
    \E r \in FanRequests :
       \/ \E i \in ReviewRows, u \in Readers : CreateReviewer(r, i, u)
       \/ \E i \in DOMAIN reviews : \/ SaveReviewer(r, i) \/ DeleteReviewer(r, i)
                                    \/ \E u \in Readers : ChangeReviewer(r, i, u)
       \/ ReadTarget(r) \/ ReadExisting(r) \/ AddItems(r) \/ DeleteItems(r) \/ CommitDeletion(r)
       \/ RowIsGone(r) \/ DeletionFails(r) \/ \E q \in FanRequests : GivenUp(r, q)

FanSpec == FanInit /\ [][FanNext]_fanVars

-----------------------------------------------------------------------------
(* Properties.                                                              *)

(* "Ensure inbox(to_review) exactly matches current reviewers": when no     *)
(* handler is under way it does, but for people whose row changed while a   *)
(* handler that had read the rows was not done, or was deleted while one    *)
(* was under way, and those a handler given up in a deadlock was to put     *)
(* right; and one that runs alone and does not fail puts them right, too.   *)
WrongOnlyIfOvertaken ==
    (\A r \in FanRequests : fans[r] = NoFan) =>
       \A u \in Readers \ overtaken : u \in inbox <=> u \in Reviewing
=============================================================================
