---------------------------- MODULE ManagerOrder ----------------------------
(****************************************************************************)
(* The managers of one branch or of one department: who is the leader       *)
(* (is_primary) and in which order the others follow (sort_order, then the  *)
(* row's id).  Both kinds have the same endpoints and the same helpers.     *)
(*                                                                          *)
(* A statement writes the rows that its snapshot shows, as they are when    *)
(* their locks are free; it never sees a row inserted since.  The locks a   *)
(* transaction takes are those of its last step, when all it writes is      *)
(* committed at once; only sync reads rows under locks that it then keeps.  *)
(*                                                                          *)
(* Not modelled: whether a row is active and from when to when, a PUT that  *)
(* gives a row to another user, users who are deleted; what deletions,      *)
(* reorder and the numbering at the end of sync read and write is one step, *)
(* and a creation takes the place after the last row of that moment.        *)
(****************************************************************************)
EXTENDS Naturals, SequencesExt

CONSTANTS
    Managers,       \* users
    Lists,          \* what sync and reorder are sent: sequences of managers without repetition
    Clients,        \* requests under way
    MaxLink,        \* bound on the row ids
    MaxOrder        \* bound on the sort_order a request may give

ASSUME ManagerOrderAssumption ==
    /\ \A list \in Lists : list \in Seq(Managers) /\ IsInjective(list)
    /\ MaxLink \in Nat
    /\ MaxOrder \in Nat

VARIABLES
    links,          \* id -> row
    nextLink,
    calls,          \* client -> how far its request is and what it has read
    muddled         \* history: a mark was set, or others cleared, with a row out of reach

linkVars == <<links, nextLink, calls, muddled>>

NoRow == [user |-> 0, primary |-> FALSE, order |-> 0]
NoCall == [step |-> "none", link |-> 0, row |-> NoRow, order |-> <<>>,
           list |-> <<>>, held |-> {}, seen |-> {}]

LinkInit ==
    /\ links = [i \in {} |-> NoRow]
    /\ nextLink = 1
    /\ calls = [c \in Clients |-> NoCall]
    /\ muddled = FALSE

-----------------------------------------------------------------------------
(* The order.                                                               *)

Before(rows, i, j) ==
    \/ rows[i].order < rows[j].order
    \/ rows[i].order = rows[j].order /\ i < j

Rank(rows, S, i) == Cardinality({j \in S : Before(rows, j, i)})

Ranks(rows) == [i \in DOMAIN rows |-> [order |-> Rank(rows, DOMAIN rows, i)]]

Listing(rows, S) == [k \in 1..Cardinality(S) |-> CHOOSE i \in S : Rank(rows, S, i) = k - 1]

(* Slip: the rows are numbered as they were created. *)
Slip_Normalized(rows, S) ==
    [i \in DOMAIN rows |->
       IF i \in S THEN [rows[i] EXCEPT !.order = Cardinality({j \in S : j < i})] ELSE rows[i]]

(* _normalize: 0, 1, 2, ... in the present order of the rows of a scope.    *)
Normalized(rows, S) ==
    [i \in DOMAIN rows |->
       IF i \in S THEN [rows[i] EXCEPT !.order = Rank(rows, S, i)]
       ELSE rows[i]]

(* The place of a row in a list, 0 if it is not on it.                      *)
PlaceIn(ids, i) == SelectInSeq(ids, LAMBDA j : j = i)

Numbered(rows, ids) ==
    [i \in DOMAIN rows |->
       IF i \in ToSet(ids) THEN [rows[i] EXCEPT !.order = PlaceIn(ids, i) - 1]
       ELSE rows[i]]

(* Slip: the two change places. *)
Slip_Moved(ids, from, target) ==
    [ids EXCEPT ![from] = ids[target], ![target] = ids[from]]

(* The row at one place of a list is taken out and put in at another.       *)
Moved(ids, from, target) == InsertAt(RemoveAt(ids, from), target, ids[from])

Cleared(rows, S) ==
    [i \in DOMAIN rows |-> IF i \in S THEN [rows[i] EXCEPT !.primary = FALSE] ELSE rows[i]]

UserOf(i) == links[i].user
Deputies(rows) == {i \in DOMAIN rows : ~rows[i].primary}

-----------------------------------------------------------------------------
(* The requests.                                                            *)

Finish(c) == calls' = [calls EXCEPT ![c] = NoCall]

(* Nobody else's sync keeps these rows locked.                              *)
Free(c, S) == \A d \in Clients \ {c} : calls[d].held \cap S = {}
NotHeld(S) == \A d \in Clients : calls[d].held \cap S = {}

(* Primary rows whose creation has not yet cleared the others.              *)
Creating(c) == calls[c].step \in {"created", "unset"}
Being == {calls[c].link : c \in {d \in Clients : Creating(d)}}

(* A clearing of the marks of all rows but these is overtaken by others.    *)
Overtaken(S) == ~(DOMAIN links \subseteq S)

(* Any request can be cut off or fail; a transaction then leaves nothing.   *)
Abort(c) ==
    /\ calls[c] # NoCall
    /\ Finish(c)
    /\ muddled' = (muddled \/ Creating(c))
    /\ UNCHANGED <<links, nextLink>>

-----------------------------------------------------------------------------
(* Creating a row: the order is that after the last one, if the request     *)
(* names none; Max gives 0 for the first row, which counts as no row.  The  *)
(* other primary rows are cleared by a statement of its own.                *)

LastOrder == IF DOMAIN links = {} THEN 0 ELSE Max({links[i].order : i \in DOMAIN links})
AppendOrder == IF LastOrder = 0 THEN 0 ELSE LastOrder + 1

CreateManager(c, u, primary, order) ==
    /\ calls[c] = NoCall
    /\ nextLink <= MaxLink
    /\ u \notin {UserOf(i) : i \in DOMAIN links}
    /\ links' = [i \in DOMAIN links \cup {nextLink} |->
                   IF i = nextLink THEN [user |-> u, primary |-> primary, order |-> order] ELSE links[i]]
    /\ nextLink' = nextLink + 1
    /\ calls' = IF primary THEN [calls EXCEPT ![c] = [NoCall EXCEPT !.step = "created", !.link = nextLink]]
                ELSE calls
    /\ UNCHANGED muddled

(* The rows that the clearing statement of a creation will write.           *)
AskUnset(c) ==
    /\ calls[c].step = "created"
    /\ calls' = [calls EXCEPT ![c].step = "unset", ![c].seen = DOMAIN links]
    /\ UNCHANGED <<links, nextLink, muddled>>

UnsetOthers(c) ==
    LET others == calls[c].seen \ {calls[c].link} IN
    /\ calls[c].step = "unset"
    /\ NotHeld(others)
    /\ links' = Cleared(links, others)
    /\ Finish(c)
    /\ muddled' = Overtaken(others \cup {calls[c].link})
    /\ UNCHANGED nextLink

-----------------------------------------------------------------------------
(* sync: the rows are locked; the first of the list leads, the others       *)
(* follow in its order, and who is not on it goes.  A leader who has a row  *)
(* keeps its sort_order.  Rows that came after the locks are at most        *)
(* cleared, and their users cannot be added.                                *)

ToAdd(list, held) == {k \in DOMAIN list : list[k] \notin {UserOf(i) : i \in held}}

Synced(list, held, seen) ==
    LET others == DOMAIN links \ held
        kept == {i \in held : UserOf(i) \in ToSet(list)}
        add == ToAdd(list, held)
        id == [k \in add |-> nextLink + Cardinality({j \in add : j < k})]
        ids == kept \cup Range(id)
        user == [i \in ids |-> IF i \in kept THEN UserOf(i) ELSE list[CHOOSE k \in add : id[k] = i]]
        place == [i \in ids |-> CHOOSE k \in DOMAIN list : list[k] = user[i]]
        rows == [i \in others \cup ids |->
                   IF i \in others THEN Cleared(links, seen)[i]
                   ELSE [user |-> user[i], primary |-> place[i] = 1,
                         order |-> CASE place[i] > 1 -> place[i] - 2
                                     [] place[i] = 1 /\ i \in kept -> links[i].order
                                     [] OTHER -> 0]]
    IN Normalized(rows, Deputies(rows))

(* The statement that will lock the rows, and what it finds.                *)
LookForRows(c, list) ==
    /\ calls[c] = NoCall
    /\ calls' = [calls EXCEPT ![c] = [NoCall EXCEPT !.step = "look", !.list = list, !.seen = DOMAIN links]]
    /\ UNCHANGED <<links, nextLink, muddled>>

(* The rows still there are held, and the clearing statement begins.        *)
LockLinks(c) ==
    LET rows == calls[c].seen \cap DOMAIN links IN
    /\ calls[c].step = "look"
    /\ NotHeld(rows)
    /\ calls' = [calls EXCEPT ![c].step = "sync", ![c].held = rows, ![c].seen = DOMAIN links]
    /\ UNCHANGED <<links, nextLink, muddled>>

Sync(c) ==
    LET list == calls[c].list
        held == calls[c].held
    IN
    /\ calls[c].step = "sync"
    /\ \A i \in DOMAIN links \ held : UserOf(i) \notin ToSet(list)
    /\ nextLink + Cardinality(ToAdd(list, held)) <= MaxLink + 1
    /\ links' = Synced(list, held, calls[c].seen)
    /\ Free(c, held \cup calls[c].seen \cup {i \in DOMAIN links \ held : links'[i] # links[i]})
    /\ nextLink' = nextLink + Cardinality(ToAdd(list, held))
    /\ Finish(c)
    /\ muddled' = Overtaken(held \cup calls[c].seen)

-----------------------------------------------------------------------------
(* Deletions and reorder, each in one step.                                 *)

Destroy(i) ==
    LET rest == [j \in DOMAIN links \ {i} |-> links[j]] IN
    /\ NotHeld(DOMAIN links)
    /\ links' = Normalized(rest, DOMAIN rest)
    /\ UNCHANGED <<nextLink, calls, muddled>>

(* delete-by, of a branch that is not in operation any more.                *)
DeleteAll ==
    /\ NotHeld(DOMAIN links)
    /\ links' = [i \in {} |-> NoRow]
    /\ UNCHANGED <<nextLink, calls, muddled>>

(* reorder: those not listed keep their sort_order.                         *)
Reorder(list) ==
    LET ids == [k \in DOMAIN list |-> CHOOSE i \in DOMAIN links : UserOf(i) = list[k]] IN
    /\ ToSet(list) \subseteq {UserOf(i) : i \in DOMAIN links}
    /\ NotHeld(DOMAIN links)
    /\ links' = Numbered(links, ids)
    /\ UNCHANGED <<nextLink, calls, muddled>>

-----------------------------------------------------------------------------
(* Requests that read the row, and sort the others, before they hold the    *)
(* rows' locks.                                                             *)

Read(c, i) ==
    /\ calls[c] = NoCall
    /\ calls' = [calls EXCEPT ![c] = [NoCall EXCEPT !.step = "read", !.link = i, !.row = links[i],
                                                    !.order = Ranks(links)]]
    /\ UNCHANGED <<links, nextLink, muddled>>

(* A whole-row save of the row that was read, with another sort_order or    *)
(* mark, or the stale ones; it keeps the user, whom nothing changes.  A row *)
(* deleted meanwhile is inserted again, as a new one.                       *)
Put(c, order, primary) ==
    LET i == calls[c].link
        new == i \notin DOMAIN links
    IN
    /\ calls[c].step = "read"
    /\ NotHeld({i})
    /\ new => calls[c].row.user \notin {UserOf(j) : j \in DOMAIN links}
    /\ links' = IF new THEN [j \in DOMAIN links \cup {i} |->
                               IF j = i THEN [user |-> calls[c].row.user, primary |-> primary, order |-> order]
                               ELSE links[j]]
                ELSE [links EXCEPT ![i].primary = primary, ![i].order = order]
    /\ calls' = [d \in Clients |->
                   IF d = c THEN NoCall
                   ELSE IF new THEN [calls[d] EXCEPT !.seen = @ \ {i}, !.order = Restrict(@, DOMAIN @ \ {i})]
                   ELSE calls[d]]
    /\ muddled' = (muddled \/ (primary /\ (new \/ ~links[i].primary)))
    /\ UNCHANGED nextLink

(* The rows it finds locked, in the order in which it read them.            *)
Seen(c) == Listing(calls[c].order, DOMAIN calls[c].order \cap DOMAIN links)
Place(c) == PlaceIn(Seen(c), calls[c].link)

Answer(c) ==
    /\ calls[c].step = "read"
    /\ NotHeld(DOMAIN calls[c].order)
    /\ Finish(c)
    /\ UNCHANGED <<nextLink, muddled>>

(* _swap_with_neighbor: two rows exchange their sort_orders.                *)
Swap(i, j) == links' = [links EXCEPT ![i].order = links[j].order, ![j].order = links[i].order]

MoveUp(c) ==
    /\ Answer(c)
    /\ IF Place(c) > 1 THEN Swap(Seen(c)[Place(c) - 1], calls[c].link) ELSE UNCHANGED links

MoveDown(c) ==
    /\ Answer(c)
    /\ IF Place(c) \in 1..(Len(Seen(c)) - 1) THEN Swap(calls[c].link, Seen(c)[Place(c) + 1])
       ELSE UNCHANGED links

(* _move_to: the target is brought into the range of the list.              *)
MoveTo(c, position) ==
    LET target == Min({position + 1, Len(Seen(c))}) IN
    /\ Answer(c)
    /\ IF Place(c) \in {0, target} THEN UNCHANGED links
       ELSE links' = Numbered(links, Moved(Seen(c), Place(c), target))

(* set-primary: a statement clears the others, and the row itself is saved  *)
(* if it was not primary when it was read, which fails if it is gone.       *)

AskPrimary(c) ==
    /\ calls[c].step = "read"
    /\ calls' = [calls EXCEPT ![c].step = "primary", ![c].seen = DOMAIN links]
    /\ UNCHANGED <<links, nextLink, muddled>>

WithMark(rows, c) ==
    IF calls[c].row.primary THEN rows ELSE [rows EXCEPT ![calls[c].link].primary = TRUE]

(* Slip: the others are not cleared. *)
Slip_SetPrimary(c) ==
    /\ calls[c].step = "primary"
    /\ ~calls[c].row.primary => calls[c].link \in DOMAIN links /\ NotHeld({calls[c].link})
    /\ links' = WithMark(links, c)
    /\ Finish(c)
    /\ muddled' = Overtaken(calls[c].seen \cup {calls[c].link})
    /\ UNCHANGED nextLink

SetPrimary(c) ==
    LET others == calls[c].seen \ {calls[c].link} IN
    /\ calls[c].step = "primary"
    /\ ~calls[c].row.primary => calls[c].link \in DOMAIN links /\ NotHeld({calls[c].link})
    /\ NotHeld(others)
    /\ links' = WithMark(Cleared(links, others), c)
    /\ Finish(c)
    /\ muddled' = Overtaken(others \cup {calls[c].link})
    /\ UNCHANGED nextLink

-----------------------------------------------------------------------------

LinkStep(c) ==
    \/ \E u \in Managers, primary \in BOOLEAN, order \in 0..MaxOrder \cup {AppendOrder} :
          CreateManager(c, u, primary, order)
    \/ AskUnset(c) \/ UnsetOthers(c)
    \/ \E list \in Lists : LookForRows(c, list)
    \/ LockLinks(c) \/ Sync(c)
    \/ \E i \in DOMAIN links : Read(c, i)
    \/ \E order \in 0..MaxOrder \cup {calls[c].row.order}, primary \in BOOLEAN : Put(c, order, primary)
    \/ MoveUp(c) \/ MoveDown(c)
    \/ \E position \in 0..MaxLink : MoveTo(c, position)
    \/ AskPrimary(c) \/ SetPrimary(c)
    \/ Abort(c)

LinkNext ==
    \/ \E c \in Clients : LinkStep(c)
    \/ \E i \in DOMAIN links : Destroy(i)
    \/ \E list \in Lists : Reorder(list)
    \/ DeleteAll

LinkSpec == LinkInit /\ [][LinkNext]_linkVars

-----------------------------------------------------------------------------
(* Properties.                                                              *)

(* A branch whose leader was last set by a clearing that no row escaped     *)
(* (set-primary, sync or the creation of a primary row, whatever overlaps)  *)
(* has one leader at most, until a PUT marks another row or a creation      *)
(* breaks off before its clearing; a row not yet through that is no leader. *)
OneLeader == ~muddled => Cardinality({i \in DOMAIN links : links[i].primary} \ Being) <= 1

(* After sync the listing shows the list: its head leads, alone, and the    *)
(* others follow in its order, whatever rows there were before.             *)
Shows(rows, list) ==
    LET deputies == Listing(rows, Deputies(rows)) IN
    IF list = <<>> THEN DOMAIN rows = {}
    ELSE /\ {rows[i].user : i \in DOMAIN rows \ Deputies(rows)} = {Head(list)}
         /\ [k \in DOMAIN deputies |-> rows[deputies[k]].user] = Tail(list)

SyncShowsTheList == \A list \in Lists : Shows(Synced(list, DOMAIN links, DOMAIN links), list)

(* Moving a row changes the order of no two others, if the sort_orders are  *)
(* all different and the list has not changed since the request read it;    *)
(* nor does destroying a row, whatever the sort_orders are.                 *)
Distinct(rows) == \A i, j \in DOMAIN rows : rows[i].order = rows[j].order => i = j

SameOrder(S) == \A i, j \in S : Before(links, i, j) <=> Before(links', i, j)

OthersKeepTheirOrder ==
    [][/\ \A c \in Clients :
             /\ calls[c].step = "read" /\ calls'[c] = NoCall /\ links' # links
             /\ Distinct(links) /\ Seen(c) = Listing(links, DOMAIN links)
             => SameOrder(DOMAIN links \ {calls[c].link})
       /\ \A k \in DOMAIN links \ DOMAIN links' : Destroy(k) => SameOrder(DOMAIN links \ {k})]_linkVars
=============================================================================
