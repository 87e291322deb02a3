------------------------------ MODULE Schedules ------------------------------
(****************************************************************************)
(* Which work schedule is the default: the company's, of which there should *)
(* be one, and an employee's own among those assigned to him.  Requests run *)
(* statement by statement, several at a time.                               *)
(*                                                                          *)
(* Not modelled: times and notes, moving an assignment to another schedule  *)
(* or employee, and the refusal to delete a schedule that is assigned.      *)
(****************************************************************************)
EXTENDS Naturals, SequencesExt

CONSTANTS
    Clerks,         \* requests to the company's schedules
    MaxSchedule,    \* bound on their ids
    Planners,       \* requests about the schedules of one employee
    Plans,          \* the schedules he may be assigned
    Nobody

ASSUME ScheduleAssumption == MaxSchedule \in Nat /\ Nobody \notin Planners

VARIABLES
    shifts,         \* the company's schedules, the latest last: [id, default]
    nextShift,
    desks,          \* clerk -> where its request stands, and the schedule it is about
    doubt,          \* history: "many" if requests overlapped, "none" if one set a row that was not there
    assigned,       \* schedule -> is it the employee's default, for those he has
    plans,          \* planner -> where its request stands, and what it has read
    userLock,       \* the planner whose transaction holds the employee's row
    blind           \* history: a default that a bulk assignment or a set_default had not seen, or one given up

shiftVars == <<shifts, nextShift, desks, doubt>>
planVars == <<assigned, plans, userLock, blind>>
scheduleVars == <<shiftVars, planVars>>

NoDesk == [at |-> "idle", id |-> 0]
NoPlan == [at |-> "idle", id |-> Nobody, seen |-> {}]

ScheduleInit ==
    /\ shifts = <<>>
    /\ nextShift = 1
    /\ desks = [c \in Clerks |-> NoDesk]
    /\ doubt = {}
    /\ assigned = [s \in {} |-> FALSE]
    /\ plans = [r \in Planners |-> NoPlan]
    /\ userLock = Nobody
    /\ blind = FALSE

-----------------------------------------------------------------------------
(* The company's default.                                                   *)

Defaults == {i \in DOMAIN shifts : shifts[i].default}
Living == {shifts[i].id : i \in DOMAIN shifts}
Marked(id, flag) ==
    [i \in DOMAIN shifts |-> IF shifts[i].id = id THEN [id |-> id, default |-> flag] ELSE shifts[i]]

Go(c, at, id) == desks' = [desks EXCEPT ![c] = [at |-> at, id |-> id]]

(* A request arrives; another one that is under way is overlapped.          *)
Arrive(c, at, id) ==
    /\ desks[c] = NoDesk
    /\ Go(c, at, id)
    /\ doubt' = IF \E d \in Clerks \ {c} : desks[d] # NoDesk THEN doubt \cup {"many"} ELSE doubt

(* What save does when the row is written: a default row makes the others   *)
(* give way, another one sees to it that there is a default.                *)
After(flag) == IF flag THEN "unset" ELSE "look"

CreateShift(c, flag) ==
    /\ nextShift <= MaxSchedule
    /\ Arrive(c, After(flag), nextShift)
    /\ shifts' = Append(shifts, [id |-> nextShift, default |-> flag])
    /\ nextShift' = nextShift + 1
    /\ UNCHANGED planVars

LoadShift(c, id) ==
    /\ id \in Living
    /\ Arrive(c, "save", id)
    /\ UNCHANGED <<shifts, nextShift, planVars>>

(* The flag is the one sent, or the one loaded.  A row deleted meanwhile is *)
(* inserted again.                                                          *)
SaveShift(c, flag) ==
    LET id == desks[c].id IN
    /\ desks[c].at = "save"
    /\ shifts' = IF id \in Living THEN Marked(id, flag) ELSE Append(shifts, [id |-> id, default |-> flag])
    /\ Go(c, After(flag), id)
    /\ UNCHANGED <<nextShift, doubt, planVars>>

Deleted(id) == \E i \in DOMAIN shifts : shifts[i].id = id /\ shifts' = RemoveAt(shifts, i)

(* Slip: the default is deleted and no other takes its place. *)
Slip_DestroyShift(c, id) ==
    /\ Deleted(id)
    /\ desks[c] = NoDesk
    /\ UNCHANGED <<nextShift, desks, doubt, planVars>>

DestroyShift(c, id) ==
    /\ Deleted(id)
    /\ Arrive(c, "look", id)
    /\ UNCHANGED <<nextShift, planVars>>

(* The endpoint takes the id as it comes, whether there is such a row or    *)
(* there was one.                                                           *)
SetDefault(c, id) ==
    /\ Arrive(c, "unset", id)
    /\ UNCHANGED <<shifts, nextShift, planVars>>

UnsetOtherShifts(c) ==
    LET id == desks[c].id IN
    /\ desks[c].at = "unset"
    /\ shifts' = [i \in DOMAIN shifts |->
                    IF shifts[i].id = id THEN shifts[i] ELSE [shifts[i] EXCEPT !.default = FALSE]]
    /\ doubt' = IF \A d \in Clerks \ {c} : desks[d] = NoDesk THEN doubt \ {"many"} ELSE doubt
    /\ Go(c, "set", id)
    /\ UNCHANGED <<nextShift, planVars>>

SetThis(c) ==
    LET id == desks[c].id IN
    /\ desks[c].at = "set"
    /\ shifts' = Marked(id, TRUE)
    /\ doubt' = IF id \in Living THEN doubt \ {"none"} ELSE doubt \cup {"none"}
    /\ Go(c, "idle", 0)
    /\ UNCHANGED <<nextShift, planVars>>

(* ensure_some_default: looks, takes the latest, and sets it.               *)
Look(c) ==
    /\ desks[c].at = "look"
    /\ IF Defaults # {} THEN Go(c, "idle", 0) ELSE Go(c, "promote", 0)
    /\ UNCHANGED <<shifts, nextShift, doubt, planVars>>

Promote(c) ==
    /\ desks[c].at = "promote"
    /\ IF shifts = <<>> THEN Go(c, "idle", 0) ELSE Go(c, "unset", Last(shifts).id)
    /\ UNCHANGED <<shifts, nextShift, doubt, planVars>>

ShiftStep(c) ==
    \/ \E flag \in BOOLEAN : CreateShift(c, flag) \/ SaveShift(c, flag)
    \/ \E id \in 1..(nextShift - 1) : LoadShift(c, id) \/ DestroyShift(c, id) \/ SetDefault(c, id)
    \/ UnsetOtherShifts(c) \/ SetThis(c) \/ Look(c) \/ Promote(c)

-----------------------------------------------------------------------------
(* The employee's default.  An insertion takes a share of the employee's    *)
(* row, so it waits for the transaction that has locked it.                 *)

Own(rows) == {s \in DOMAIN rows : rows[s]}
WithRow(s, flag) == [t \in DOMAIN assigned \cup {s} |-> IF t = s THEN flag ELSE assigned[t]]
Only(S, s) == [t \in DOMAIN assigned \cup {s} |-> IF t = s THEN TRUE ELSE assigned[t] /\ t \notin S]

To(r, at, s, seen) == plans' = [plans EXCEPT ![r] = [at |-> at, id |-> s, seen |-> seen]]
Rest(r) == plans' = [plans EXCEPT ![r] = NoPlan]

(* Rows a transaction has locked, or changed.                               *)
Held(r) == UNION {plans[q].seen : q \in {q \in Planners \ {r} : plans[q].at \in {"cleared", "bulk"}}}

(* A row saved as the default is followed by set_default.                   *)
Saved(r, s, flag) ==
    /\ assigned' = WithRow(s, flag)
    /\ IF flag THEN To(r, "default", s, {}) ELSE Rest(r)
    /\ UNCHANGED <<userLock, blind, shiftVars>>

(* Slip: a new row is not made the only default. *)
Slip_Assign(r, s, flag) ==
    /\ plans[r] = NoPlan
    /\ s \notin DOMAIN assigned
    /\ userLock = Nobody
    /\ assigned' = WithRow(s, flag)
    /\ UNCHANGED <<plans, userLock, blind, shiftVars>>

Assign(r, s, flag) ==
    /\ plans[r] = NoPlan
    /\ s \notin DOMAIN assigned
    /\ userLock = Nobody
    /\ Saved(r, s, flag)

LoadPlan(r, s) ==
    /\ plans[r] = NoPlan
    /\ s \in DOMAIN assigned
    /\ To(r, "save", s, {})
    /\ UNCHANGED <<assigned, userLock, blind, shiftVars>>

(* The flag is the one sent, or the one loaded.                             *)
SavePlan(r, flag) ==
    LET s == plans[r].id IN
    /\ plans[r].at = "save"
    /\ s \notin Held(r)
    /\ s \in DOMAIN assigned \/ userLock = Nobody
    /\ Saved(r, s, flag)

RemovePlan(r, s) ==
    /\ plans[r] = NoPlan
    /\ s \in DOMAIN assigned \ Held(r)
    /\ assigned' = [t \in DOMAIN assigned \ {s} |-> assigned[t]]
    /\ UNCHANGED <<plans, userLock, blind, shiftVars>>

(* set_default: one transaction, behind a lock on the employee's row.       *)
LockUser(r) ==
    /\ plans[r].at = "default"
    /\ userLock = Nobody
    /\ userLock' = r
    /\ To(r, "locked", plans[r].id, {})
    /\ UNCHANGED <<assigned, blind, shiftVars>>

(* Its update is of the defaults there are when it begins.  It waits for    *)
(* who holds them, and looks again at these rows only.                      *)
AskDefaults(r) ==
    /\ plans[r].at = "locked"
    /\ To(r, "clear", plans[r].id, Own(assigned))
    /\ UNCHANGED <<assigned, userLock, blind, shiftVars>>

ClearDefaults(r) ==
    /\ plans[r].at = "clear"
    /\ plans[r].seen \cap Held(r) = {}
    /\ To(r, "cleared", plans[r].id, plans[r].seen \cap Own(assigned))
    /\ UNCHANGED <<assigned, userLock, blind, shiftVars>>

(* The row is inserted, or marked unless it was by another meanwhile.       *)
MakeDefault(r) ==
    LET s == plans[r].id IN
    /\ plans[r].at = "cleared"
    /\ s \in Held(r) => assigned[s]
    /\ assigned' = Only(plans[r].seen, s)
    /\ userLock' = Nobody
    /\ blind' = (blind /\ Own(assigned') # {s})
    /\ Rest(r)
    /\ UNCHANGED shiftVars

(* bulk_assign_default_schedule: the statement that locks the rows sees     *)
(* those there were when it began, and waits for who holds them.            *)
AskRows(r, s) ==
    /\ plans[r] = NoPlan
    /\ To(r, "ask", s, DOMAIN assigned)
    /\ UNCHANGED <<assigned, userLock, blind, shiftVars>>

LockRows(r) ==
    /\ plans[r].at = "ask"
    /\ plans[r].seen \cap Held(r) = {}
    /\ To(r, "bulk", plans[r].id, plans[r].seen \cap DOMAIN assigned)
    /\ UNCHANGED <<assigned, userLock, blind, shiftVars>>

Inserts(r) == plans[r].id \notin plans[r].seen

(* A set_default that is clearing does not see a default made after its     *)
(* statement began.                                                         *)
Unseen(s) == \E q \in Planners : plans[q].at \in {"clear", "cleared"} /\ s \notin plans[q].seen \cup {plans[q].id}

(* It fails if the row it inserts is there by now.                          *)
WriteRows(r) ==
    LET s == plans[r].id
        seen == plans[r].seen
    IN
    /\ plans[r].at = "bulk"
    /\ Inserts(r) => userLock = Nobody
    /\ IF Inserts(r) /\ s \in DOMAIN assigned THEN UNCHANGED <<assigned, blind>>
       ELSE /\ assigned' = Only(seen, s)
            /\ blind' = (Own(assigned') # {s} \/ Unseen(s))
    /\ Rest(r)
    /\ UNCHANGED <<userLock, shiftVars>>

(* The database gives up a transaction, as one of two that wait for each    *)
(* other, or the request fails otherwise.                                   *)
GiveUpDefault(r) ==
    /\ plans[r].at \in {"default", "locked", "clear", "cleared"}
    /\ userLock' = IF userLock = r THEN Nobody ELSE userLock
    /\ blind' = TRUE
    /\ Rest(r)
    /\ UNCHANGED <<assigned, shiftVars>>

GiveUpBulk(r) ==
    /\ plans[r].at \in {"ask", "bulk"}
    /\ Rest(r)
    /\ UNCHANGED <<assigned, userLock, blind, shiftVars>>

PlanStep(r) ==
    \/ \E s \in Plans : \/ LoadPlan(r, s) \/ RemovePlan(r, s) \/ AskRows(r, s)
                        \/ \E flag \in BOOLEAN : Assign(r, s, flag)
    \/ \E flag \in BOOLEAN : SavePlan(r, flag)
    \/ LockUser(r) \/ AskDefaults(r) \/ ClearDefaults(r) \/ MakeDefault(r) \/ GiveUpDefault(r)
    \/ LockRows(r) \/ WriteRows(r) \/ GiveUpBulk(r)

-----------------------------------------------------------------------------

ShiftNext == \E c \in Clerks : ShiftStep(c)
PlanNext == \E r \in Planners : PlanStep(r)
ScheduleNext == ShiftNext \/ PlanNext

ScheduleSpec == ScheduleInit /\ [][ScheduleNext]_scheduleVars

-----------------------------------------------------------------------------
(* Properties.                                                              *)

(* When no request is under way, the company has one default schedule:      *)
(* never two, unless requests overlapped since the marks were last cleared, *)
(* and never none, unless a request set one that did not exist.             *)
OneDefaultShift ==
    (\A c \in Clerks : desks[c] = NoDesk) =>
       /\ "many" \in doubt \/ Cardinality(Defaults) <= 1
       /\ "none" \in doubt \/ shifts = <<>> \/ Defaults # {}

(* When no request is under way, an employee has at most one default,       *)
(* whatever requests overlapped, but after a set_default that failed and a  *)
(* bulk assignment that had not seen the other default, or whose own was    *)
(* made after the statement of a set_default had begun to clear.            *)
OneShiftEach ==
    (\A r \in Planners : plans[r] = NoPlan) /\ ~blind => \A s, t \in Own(assigned) : s = t
=============================================================================
