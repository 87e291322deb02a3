------------------------------ MODULE StaffSync ------------------------------
(****************************************************************************)
(* The accounts of the staff, kept in step with the personnel register by   *)
(* two nightly tasks: one creates and updates accounts, the other disables  *)
(* those of people who have left.  Meanwhile requests load an account and   *)
(* save it whole.                                                           *)
(*                                                                          *)
(* Of an account only what the two tasks decide by is modelled; every       *)
(* employee has one row in the register, and a phone.  A username is his    *)
(* phone or a name of his own, which nobody else can have.                  *)
(****************************************************************************)
EXTENDS Naturals, SequencesExt

CONSTANTS
    Employees,
    Phones,
    MaxAccount,      \* bound on the accounts
    MaxNews          \* bound on the changes of the register

ASSUME StaffAssumption == MaxAccount \in Nat /\ MaxNews \in Nat /\ IsFiniteSet(Employees)

VARIABLES
    register,        \* employee -> his phone, NotListed if he does not work here
    accounts,        \* id -> row
    signerTwice,     \* accounts with two rows in one of the tables of signers
    import,          \* the import: what it has read and is to write
    leavers,         \* the other task: the accounts it has yet to look at, those it has missed,
                     \* and (history) those of people who had left when it began
    loaded,          \* what a request has loaded and is to save: an account and its row
    news,
    restored         \* history: accounts saved by such a request, or by the import, after they
                     \* were disabled

staffVars == <<register, accounts, signerTwice, import, leavers, loaded, news, restored>>

NotListed == "not listed"
OwnName == "own"

NoImport == [step |-> "idle", rows |-> <<>>]
NoRun == [step |-> "idle", todo |-> {}, missed |-> {}, due |-> {}]

StaffInit ==
    /\ register = [e \in Employees |-> NotListed]
    /\ accounts = <<>>
    /\ signerTwice = {}
    /\ import = NoImport
    /\ leavers = NoRun
    /\ loaded = {}
    /\ news = 0
    /\ restored = {}

Ids == DOMAIN accounts
Active(e) == {i \in Ids : accounts[i].emp = e /\ accounts[i].active}
Usernames == {accounts[i].username : i \in Ids} \ {OwnName}

(* username is unique: a row that takes another one's is refused.           *)
Taken(rows, i, name) == name # OwnName /\ \E j \in DOMAIN rows \ {i} : rows[j].username = name

-----------------------------------------------------------------------------
(* The register, and what else happens to the accounts.                     *)

News(e, phone) ==
    /\ news < MaxNews
    /\ news' = news + 1
    /\ register[e] # phone
    /\ register' = [register EXCEPT ![e] = phone]
    /\ leavers' = [leavers EXCEPT !.due = {i \in @ : accounts[i].emp # e}]
    /\ UNCHANGED <<accounts, signerTwice, import, loaded, restored>>

(* A second row for a signer is only refused in one of the two tables.      *)
SecondSignerRow(i) ==
    /\ signerTwice = {}
    /\ signerTwice' = {i}
    /\ UNCHANGED <<register, accounts, import, leavers, loaded, news, restored>>

(* Requests that save the whole row: a login, a password, a profile.        *)
LoadAccount(i) ==
    /\ loaded = {}
    /\ accounts[i].active
    /\ loaded' = {[id |-> i, row |-> accounts[i]]}
    /\ UNCHANGED <<register, accounts, signerTwice, import, leavers, news, restored>>

SaveAccount(l) ==
    /\ loaded' = loaded \ {l}
    /\ IF Taken(accounts, l.id, l.row.username) THEN UNCHANGED <<accounts, restored>>
       ELSE /\ accounts' = [accounts EXCEPT ![l.id] = l.row]
            /\ restored' = IF accounts[l.id].active THEN restored ELSE restored \cup {l.id}
    /\ UNCHANGED <<register, signerTwice, import, leavers, news>>

(* sync_user_from_iabs: one employee, who must have one active account.     *)
Updated(rows, i, phone) ==
    IF Taken(rows, i, phone) THEN rows
    ELSE [rows EXCEPT ![i].phone = phone, ![i].username = phone, ![i].status = "working"]

ManualUpdate(e) ==
    /\ register[e] # NotListed
    /\ \E i \in Ids : Active(e) = {i} /\ accounts' = Updated(accounts, i, register[e])
    /\ UNCHANGED <<register, signerTwice, import, leavers, loaded, news, restored>>

-----------------------------------------------------------------------------
(* update_or_create_users: one chunk of the register.                       *)

(* Slip: the account is looked for by its name. *)
Slip_Found(e) == LET S == {i \in Active(e) : accounts[i].username = register[e]} IN IF S = {} THEN 0 ELSE Max(S)

(* The account an employee has: the newest of his active ones.              *)
Found(e) == IF Active(e) = {} THEN 0 ELSE Max(Active(e))

(* The name of a new account: the phone, unless an account has it already   *)
(* or an earlier row of the chunk takes it.                                 *)
NewName(order, k) ==
    IF \/ register[order[k]] \in Usernames
       \/ \E n \in 1..(k - 1) : Found(order[n]) = 0 /\ register[order[n]] = register[order[k]]
    THEN OwnName ELSE register[order[k]]

ReadChunk(order) ==
    /\ import.step = "idle"
    /\ import' = [step |-> "create",
                  rows |-> [k \in DOMAIN order |->
                              [emp |-> order[k], phone |-> register[order[k]],
                               id |-> Found(order[k]),
                               username |-> IF Found(order[k]) # 0 THEN register[order[k]]
                                            ELSE NewName(order, k)]]]
    /\ UNCHANGED <<register, accounts, signerTwice, leavers, loaded, news, restored>>

(* One statement, and if it is refused row by row: rows whose name was      *)
(* taken since are left out.                                                *)
Create(rows, r) ==
    IF r.id # 0 \/ Taken(rows, 0, r.username) THEN rows
    ELSE Append(rows, [emp |-> r.emp, phone |-> r.phone, username |-> r.username,
                       active |-> TRUE, status |-> "working"])

(* The accounts after the first k rows of the chunk.                        *)
AfterCreating[k \in 0..Len(import.rows)] ==
    IF k = 0 THEN accounts ELSE Create(AfterCreating[k - 1], import.rows[k])

BulkCreate ==
    /\ import.step = "create"
    /\ Len(accounts) + Cardinality({k \in DOMAIN import.rows : import.rows[k].id = 0}) <= MaxAccount
    /\ accounts' = AfterCreating[Len(import.rows)]
    /\ import' = [import EXCEPT !.step = "update"]
    /\ UNCHANGED <<register, signerTwice, leavers, loaded, news, restored>>

(* The accounts the import found, by their places in the chunk.             *)
Known == {k \in DOMAIN import.rows : import.rows[k].id # 0}

(* They are updated in turn: the accounts after the first n turns.          *)
AfterUpdating(turn) ==
    LET after[n \in 0..Len(turn)] ==
          IF n = 0 THEN accounts
          ELSE LET r == import.rows[turn[n]] IN Updated(after[n - 1], r.id, r.phone)
    IN after[Len(turn)]

(* Slip: a refused statement writes nothing. *)
Slip_BulkUpdate ==
    /\ import.step = "update"
    /\ accounts' = IF \E k \in Known : Taken(accounts, import.rows[k].id, import.rows[k].phone) THEN accounts
                   ELSE AfterUpdating(SetToSeq(Known))
    /\ import' = NoImport
    /\ UNCHANGED <<register, signerTwice, leavers, loaded, news, restored>>

(* The rows of one statement are checked one by one, in any order; when it  *)
(* is refused each row is updated on its own.  Either way a row is written  *)
(* unless its name is taken when its turn comes.                            *)
BulkUpdate ==
    /\ import.step = "update"
    /\ \E turn \in SetToSeqs(Known) : accounts' = AfterUpdating(turn)
    /\ restored' = restored \cup {import.rows[k].id : k \in {n \in Known : ~accounts[import.rows[n].id].active}}
    /\ import' = NoImport
    /\ UNCHANGED <<register, signerTwice, leavers, loaded, news>>

-----------------------------------------------------------------------------
(* update_user_condition: the accounts whose status is that of somebody who *)
(* works are read, then one after the other is looked up in the register.   *)

(* Slip: only accounts that go by their phone. *)
Slip_ReadAccounts ==
    /\ leavers.step = "idle"
    /\ leavers' = [step |-> "look up", missed |-> {},
                   todo |-> {i \in Ids : accounts[i].status = "working" /\ accounts[i].username # OwnName},
                   due |-> {i \in Ids : accounts[i].active /\ register[accounts[i].emp] = NotListed}]
    /\ UNCHANGED <<register, accounts, signerTwice, import, loaded, news, restored>>

ReadAccounts ==
    /\ leavers.step = "idle"
    /\ leavers' = [step |-> "look up", missed |-> {},
                   todo |-> {i \in Ids : accounts[i].status = "working"},
                   due |-> {i \in Ids : accounts[i].active /\ register[accounts[i].emp] = NotListed}]
    /\ UNCHANGED <<register, accounts, signerTwice, import, loaded, news, restored>>

(* Disabling: phone and username get a suffix.  All is undone if he has two *)
(* rows as a signer.                                                        *)
Disabled(row) ==
    [row EXCEPT !.phone = OwnName, !.username = OwnName, !.active = FALSE, !.status = "left"]

LookUp(i) ==
    LET left == register[accounts[i].emp] = NotListed IN
    /\ leavers.step = "look up"
    /\ i = Min(leavers.todo)
    /\ accounts' = IF ~left THEN [accounts EXCEPT ![i].status = "working"]
                   ELSE IF i \in signerTwice THEN accounts
                   ELSE [accounts EXCEPT ![i] = Disabled(@)]
    /\ leavers' = [leavers EXCEPT !.todo = @ \ {i},
                                  !.missed = IF left /\ i \in signerTwice THEN @ \cup {i} ELSE @]
    /\ restored' = IF left /\ i \notin signerTwice THEN restored \ {i} ELSE restored
    /\ UNCHANGED <<register, signerTwice, import, loaded, news>>

(* An error in the lookup is logged and the next account taken.             *)
LookUpFails(i) ==
    /\ leavers.step = "look up"
    /\ i = Min(leavers.todo)
    /\ leavers' = [leavers EXCEPT !.todo = @ \ {i}, !.missed = @ \cup {i}]
    /\ UNCHANGED <<register, accounts, signerTwice, import, loaded, news, restored>>

RunEnds ==
    /\ leavers.step = "look up"
    /\ leavers.todo = {}
    /\ leavers' = NoRun
    /\ UNCHANGED <<register, accounts, signerTwice, import, loaded, news, restored>>

-----------------------------------------------------------------------------

StaffNext ==
    \/ \E e \in Employees : ManualUpdate(e) \/ \E phone \in Phones \cup {NotListed} : News(e, phone)
    \/ \E i \in Ids : SecondSignerRow(i) \/ LoadAccount(i)
    \/ \E l \in loaded : SaveAccount(l)
    \/ \E order \in SetToSeqs({e \in Employees : register[e] # NotListed}) : ReadChunk(order)
    \/ BulkCreate
    \/ BulkUpdate
    \/ ReadAccounts
    \/ \E i \in leavers.todo : LookUp(i) \/ LookUpFails(i)
    \/ RunEnds

StaffSpec == StaffInit /\ [][StaffNext]_staffVars

-----------------------------------------------------------------------------
(* Properties.                                                              *)

(* Nobody has two active accounts: who comes back gets a new one, and the   *)
(* old one stays disabled, unless a request that had loaded it saves it.    *)
OneActiveAccount ==
    \A e \in Employees : Active(e) \cap restored = {} => Cardinality(Active(e)) <= 1

(* One refused row costs the others nothing: after either statement of the  *)
(* import everybody it was for has an active account, or the account he     *)
(* had, with the phone the import has read, but for those whose phone was   *)
(* or is another account's username.                                        *)
RefusedRowsAreClashes ==
    [][import'.step # import.step =>
       \A k \in DOMAIN import.rows :
          LET r == import.rows[k]
          IN
          /\ import.step = "create" /\ r.id = 0 =>
                \/ \E i \in DOMAIN accounts' : accounts'[i].emp = r.emp /\ accounts'[i].active
                \/ Taken(accounts, 0, r.username)
          /\ import.step = "update" /\ r.id # 0 =>
                \/ accounts'[r.id].phone = r.phone
                \/ Taken(accounts, r.id, r.phone)
                \/ Taken(accounts', r.id, r.phone)]_staffVars

(* A run disables everybody who had left when it began, unless his lookup   *)
(* failed, he is a signer twice, or a request that had loaded his account   *)
(* has saved it.                                                            *)
LeaversAreDisabled ==
    [][leavers.step = "look up" /\ leavers'.step = "idle" =>
       \A i \in leavers.due \ (leavers.missed \cup restored) : ~accounts[i].active]_staffVars
=============================================================================
