----------------------------- MODULE Attendance -----------------------------
(****************************************************************************)
(* The attendance ingest: tasks copy the face terminals' daily report into  *)
(* DailySummary.  One task moves a cursor through the days it has missed,   *)
(* then syncs today, all in one transaction that holds the cursor's row,    *)
(* and afterwards syncs yesterday again; another one only syncs today.      *)
(*                                                                          *)
(* One employee.  The report of a day is the number of events the terminals *)
(* have seen of him so far, and a row of DailySummary the number it was     *)
(* saved with.  No task runs over midnight.                                 *)
(****************************************************************************)
EXTENDS Naturals, Sequences

CONSTANTS
    MaxDay,         \* bound on the days
    WorkDays,       \* the days the calendar lists as working days
    MaxEvents,      \* the events of a full day
    SyncWorkers,    \* processes that run tasks
    MaxRetries,     \* how often a task is tried again
    MaxTasks        \* bound on the tasks started

ASSUME AttendanceAssumption ==
    /\ MaxDay \in Nat \ {0}
    /\ WorkDays \subseteq 1..MaxDay
    /\ MaxEvents \in Nat
    /\ MaxRetries \in Nat
    /\ MaxTasks \in Nat

VARIABLES
    today,
    recorded,     \* day -> the events the terminals have seen
    summary,      \* day -> the rows of DailySummary, oldest first
    cursor,       \* last_success_date, 0 if there is none
    source,       \* "OK" or "OUTAGE"
    people,       \* the cache: is the map of persons there, who builds it, was he looked up in vain
    sync,         \* worker -> what it is doing
    tasks,        \* how many were started
    reconciled    \* history: the days a finished run synced again without passing him over

attVars == <<today, recorded, summary, cursor, source, people, sync, tasks, reconciled>>

Days == 1..MaxDay

(* What a transaction has written and not committed: the days with a row    *)
(* inserted, with a row updated, and passed over without a row: he is not   *)
(* in the report, cannot be assigned, or his row could not be saved.        *)
NoWrites == [insert |-> {}, update |-> {}, skip |-> {}]

Idle == [phase |-> "idle", step |-> "idle", day |-> 0, got |-> 0, passed |-> 0,
         attempt |-> 0, writes |-> NoWrites, values |-> [d \in Days |-> 0]]

Holder == {w \in SyncWorkers : sync[w].phase = "locked"}

AttInit ==
    /\ today = 1
    /\ recorded = [d \in Days |-> 0]
    /\ summary = [d \in Days |-> <<>>]
    /\ cursor = 0
    /\ source = "OK"
    /\ people = [map |-> FALSE, builder |-> {}, miss |-> FALSE]
    /\ sync = [w \in SyncWorkers |-> Idle]
    /\ tasks = 0
    /\ reconciled = {}

Become(w, row) == sync' = [sync EXCEPT ![w] = row]

-----------------------------------------------------------------------------
(* The world.                                                               *)

Pass ==
    /\ recorded[today] < MaxEvents
    /\ recorded' = [recorded EXCEPT ![today] = @ + 1]
    /\ UNCHANGED <<today, summary, cursor, source, people, sync, tasks, reconciled>>

Midnight ==
    /\ today < MaxDay
    /\ \A w \in SyncWorkers : sync[w] = Idle
    /\ today' = today + 1
    /\ UNCHANGED <<recorded, summary, cursor, source, people, sync, tasks, reconciled>>

-----------------------------------------------------------------------------
(* Starting a task.                                                         *)

Started == tasks < MaxTasks /\ tasks' = tasks + 1

(* sync_attendance_backfill_then_today, due three times a day.              *)
StartBackfill(w) ==
    /\ Started
    /\ sync[w] = Idle
    /\ Become(w, [Idle EXCEPT !.phase = "queued", !.step = "lock"])
    /\ UNCHANGED <<today, recorded, summary, cursor, source, people, reconciled>>

(* sync_daily_unregistered_attendance, due every two hours.                 *)
StartWatch(w) ==
    /\ Started
    /\ sync[w] = Idle
    /\ today \in WorkDays
    /\ Become(w, [Idle EXCEPT !.phase = "watch", !.step = "fetch", !.day = today])
    /\ UNCHANGED <<today, recorded, summary, cursor, source, people, reconciled>>

(* The run continues after the last day it has passed, or with today.       *)
Begin(w) ==
    /\ sync[w].step = "lock"
    /\ Holder = {}
    /\ Become(w, [sync[w] EXCEPT !.phase = "locked", !.step = "fetch", !.passed = cursor,
                     !.day = IF cursor = 0 \/ cursor = today THEN today ELSE cursor + 1])
    /\ UNCHANGED <<today, recorded, summary, cursor, source, people, tasks, reconciled>>

-----------------------------------------------------------------------------
(* One day: fetch a page of the report, store it, ask for the next page.    *)

(* A row another transaction has updated is locked.                         *)
RowFree(w, d) == \A v \in SyncWorkers \ {w} : d \notin sync[v].writes.update

(* Rows after commit of a transaction's writes on a day.                    *)
Written(rows, row, d) ==
    IF d \in row.writes.insert THEN Append(rows, row.values[d])
    ELSE IF d \in row.writes.update THEN [rows EXCEPT ![1] = row.values[d]]
    ELSE rows

Commit(w) == summary' = [d \in Days |-> Written(summary[d], sync[w], d)]

(* What a worker does next when it is through with its day.  Only the       *)
(* cursor's transaction goes on to the next day; after today it commits and *)
(* syncs yesterday again.                                                   *)
DayDone(w) ==
    LET row == sync[w] IN
    \/ /\ row.phase = "locked" /\ row.day < today
       /\ Become(w, [row EXCEPT !.step = "fetch", !.passed = row.day, !.day = @ + 1])
       /\ UNCHANGED <<summary, cursor, source, reconciled>>
    \/ /\ row.phase = "locked" /\ row.day = today
       /\ Commit(w)
       /\ cursor' = today
       /\ source' = "OK"
       /\ Become(w, IF today = 1 THEN Idle
                    ELSE [Idle EXCEPT !.phase = "reconcile", !.step = "fetch", !.day = today - 1,
                                      !.attempt = row.attempt])
       /\ UNCHANGED reconciled
    \/ /\ row.phase # "locked"
       /\ Become(w, Idle)
       /\ reconciled' = IF row.phase = "reconcile" /\ row.day \notin row.writes.skip
                        THEN reconciled \cup {row.day} ELSE reconciled
       /\ UNCHANGED <<summary, cursor, source>>

(* Only working days are synced.                                            *)
SkipDay(w) ==
    /\ sync[w].step = "fetch"
    /\ sync[w].day \notin WorkDays
    /\ DayDone(w)
    /\ UNCHANGED <<today, recorded, people, tasks>>

(* His record of the day is passed over; the sync of the day goes on.       *)
PassOver(w) == Become(w, [sync[w] EXCEPT !.step = "page", !.writes.skip = @ \cup {sync[w].day}])

(* An empty report, or one without him, is as good as any other.            *)
FetchNothing(w) ==
    /\ sync[w].step = "fetch"
    /\ sync[w].day \in WorkDays
    /\ PassOver(w)
    /\ UNCHANGED <<today, recorded, summary, cursor, source, people, tasks, reconciled>>

Fetch(w) ==
    /\ sync[w].step = "fetch"
    /\ sync[w].day \in WorkDays
    /\ Become(w, [sync[w] EXCEPT !.step = "resolve", !.got = recorded[sync[w].day]])
    /\ UNCHANGED <<today, recorded, summary, cursor, source, people, tasks, reconciled>>

(* Who is it?  The persons are in the cache.  If the map is missing it is    *)
(* built, by one worker at a time; a person not found is not looked up      *)
(* again for a while, and his record is passed over.                        *)
Resolve(w) ==
    /\ sync[w].step = "resolve"
    /\ \/ people.miss /\ PassOver(w) /\ UNCHANGED people
       \/ ~people.miss /\ people.map /\ Become(w, [sync[w] EXCEPT !.step = "store"]) /\ UNCHANGED people
       \/ /\ ~people.miss /\ ~people.map /\ people.builder # {}
          /\ PassOver(w)
          /\ people' = [people EXCEPT !.miss = TRUE]
       \/ /\ ~people.miss /\ ~people.map /\ people.builder = {}
          /\ Become(w, [sync[w] EXCEPT !.step = "build"])
          /\ people' = [people EXCEPT !.builder = {w}]
    /\ UNCHANGED <<today, recorded, summary, cursor, source, tasks, reconciled>>

BuildMap(w) ==
    /\ sync[w].step = "build"
    /\ Become(w, [sync[w] EXCEPT !.step = "store"])
    /\ people' = [people EXCEPT !.map = TRUE, !.builder = {}]
    /\ UNCHANGED <<today, recorded, summary, cursor, source, tasks, reconciled>>

CacheExpires ==
    /\ people' \in {[people EXCEPT !.map = FALSE], [people EXCEPT !.miss = FALSE],
                    [people EXCEPT !.builder = {}]}
    /\ people' # people
    /\ UNCHANGED <<today, recorded, summary, cursor, source, sync, tasks, reconciled>>

(* Slip: a row that is there is left alone. *)
Slip_Store(w) ==
    /\ sync[w].step = "store"
    /\ Become(w, [sync[w] EXCEPT !.step = IF summary[sync[w].day] = <<>> THEN "insert" ELSE "page"])
    /\ UNCHANGED <<today, recorded, summary, cursor, source, people, tasks, reconciled>>

(* update_or_create: one row is locked and updated, without a row one is    *)
(* inserted; two rows are an error, which is logged.  Nothing in the table  *)
(* keeps two inserts apart.                                                 *)
Store(w) ==
    LET row == sync[w]
        d == row.day
        stored == [row EXCEPT !.step = "page"]
    IN
    /\ row.step = "store"
    /\ RowFree(w, d)
    /\ IF row.phase = "locked"
       THEN /\ Become(w, [stored EXCEPT !.values[d] = row.got,
                             !.writes.insert = IF summary[d] = <<>> THEN @ \cup {d} ELSE @,
                             !.writes.update = IF Len(summary[d]) = 1 THEN @ \cup {d} ELSE @])
            /\ UNCHANGED summary
       ELSE /\ Become(w, IF summary[d] = <<>> THEN [row EXCEPT !.step = "insert"] ELSE stored)
            /\ summary' = IF Len(summary[d]) = 1 THEN [summary EXCEPT ![d] = <<row.got>>] ELSE summary
    /\ UNCHANGED <<today, recorded, cursor, source, people, tasks, reconciled>>

Insert(w) ==
    /\ sync[w].step = "insert"
    /\ summary' = [summary EXCEPT ![sync[w].day] = Append(@, sync[w].got)]
    /\ Become(w, [sync[w] EXCEPT !.step = "page"])
    /\ UNCHANGED <<today, recorded, cursor, source, people, tasks, reconciled>>

(* Any exception while the row is saved, at any of its statements, undoes   *)
(* the row alone; it is logged, and the sync of the day goes on.            *)
UpsertFails(w) ==
    /\ sync[w].step \in {"store", "insert"}
    /\ PassOver(w)
    /\ UNCHANGED <<today, recorded, summary, cursor, source, people, tasks, reconciled>>

LastPage(w) ==
    /\ sync[w].step = "page"
    /\ DayDone(w)
    /\ UNCHANGED <<today, recorded, people, tasks>>

-----------------------------------------------------------------------------
(* What goes wrong.                                                         *)

(* Slip: the cursor passes the day that could not be fetched. *)
Slip_Outage(w) ==
    /\ sync[w].step \in {"fetch", "page"}
    /\ sync[w].day \in WorkDays
    /\ IF sync[w].phase = "locked"
       THEN Commit(w) /\ cursor' = sync[w].day /\ source' = "OUTAGE"
       ELSE UNCHANGED <<summary, cursor, source>>
    /\ Become(w, Idle)
    /\ UNCHANGED <<today, recorded, people, tasks, reconciled>>

(* The vendor does not answer.  The cursor's transaction commits the days   *)
(* it has passed and whatever it stored of this one.                        *)
Outage(w) ==
    /\ sync[w].step \in {"fetch", "page"}
    /\ sync[w].day \in WorkDays
    /\ IF sync[w].phase = "locked"
       THEN Commit(w) /\ cursor' = sync[w].passed /\ source' = "OUTAGE"
       ELSE UNCHANGED <<summary, cursor, source>>
    /\ Become(w, Idle)
    /\ UNCHANGED <<today, recorded, people, tasks, reconciled>>

(* Any other exception but one of saving a row rolls the transaction back,  *)
(* and the task is tried again from the start, unless it only watches.      *)
Fail(w) ==
    /\ sync[w].step \in {"fetch", "resolve", "build", "page"}
    /\ people' = [people EXCEPT !.builder = @ \ {w}]
    /\ \/ Become(w, Idle)
       \/ /\ sync[w].phase \in {"locked", "reconcile"}
          /\ sync[w].attempt < MaxRetries
          /\ Become(w, [Idle EXCEPT !.phase = "queued", !.step = "lock", !.attempt = sync[w].attempt + 1])
    /\ UNCHANGED <<today, recorded, summary, cursor, source, tasks, reconciled>>

(* A worker dies: its transaction is rolled back and its task forgotten.    *)
Die(w) ==
    /\ sync[w] # Idle
    /\ Become(w, Idle)
    /\ UNCHANGED <<today, recorded, summary, cursor, source, people, tasks, reconciled>>

-----------------------------------------------------------------------------

SyncStep(w) ==
    \/ StartBackfill(w) \/ StartWatch(w) \/ Begin(w)
    \/ SkipDay(w) \/ Fetch(w) \/ FetchNothing(w) \/ Resolve(w) \/ BuildMap(w)
    \/ Store(w) \/ Insert(w) \/ UpsertFails(w) \/ LastPage(w)
    \/ Outage(w) \/ Fail(w) \/ Die(w)

AttNext ==
    \/ Pass
    \/ Midnight
    \/ CacheExpires
    \/ \E w \in SyncWorkers : SyncStep(w)

AttSpec == AttInit /\ [][AttNext]_attVars

-----------------------------------------------------------------------------
(* Properties.                                                              *)

(* The cursor only moves forward, and a working day it passes has a row     *)
(* after that commit, unless the very run that passes it has passed over    *)
(* his record: outages, retries and rollbacks leave no other gap.           *)
CursorPassesStoredDays ==
    [][/\ cursor' >= cursor
       /\ \A d \in WorkDays : cursor < d /\ d <= cursor' /\ (cursor # 0 \/ d = cursor') =>
             \/ summary'[d] # <<>>
             \/ \E w \in SyncWorkers : d \in sync[w].writes.skip]_attVars

(* A day whose row a later run saved again keeps all its events, whatever   *)
(* runs after that, unless it has two rows: those are never saved again.    *)
ReconciledDayComplete ==
    \A d \in reconciled \cap WorkDays : Len(summary[d]) > 1 \/ summary[d] = <<recorded[d]>>
=============================================================================
