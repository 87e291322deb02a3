----------------------------- MODULE OfficeProofs -----------------------------
(****************************************************************************)
(* The parts of the office that share no state with each other.             *)
(*                                                                          *)
(* Attendance: for every calendar, any number of workers and any order of   *)
(* their steps, the cursor passes only days that are stored, and a day that *)
(* was synced again keeps all its events.  Both rest on two facts: no task  *)
(* runs over midnight, so whoever writes a day that is over writes all of   *)
(* it; and one worker at a time holds the cursor.                           *)
(*                                                                          *)
(* Trips: for any regions, routes and stops.  A mark that no other write    *)
(* has overtaken is made of the stop as it is.  So what its checks have     *)
(* found still holds: the sender's stop is the first and left, the open     *)
(* stop of a region is its latest, and the place he is at the one marked    *)
(* last.                                                                    *)
(*                                                                          *)
(* Staff: for any employees, phones and bounds.  Who has no account when    *)
(* the import reads his row gets none elsewhere before it writes, but one   *)
(* that a request restores; and in a chunk no two rows are about the same   *)
(* account or make the same name.  Both statements of the import go from    *)
(* row to row, so their lemmas look at the first row to break a claim.      *)
(****************************************************************************)
EXTENDS Attendance, Trips, StaffSync, SequenceTheorems, FunctionTheorems, FiniteSetTheorems,
        WellFoundedInduction, TLAPS

-----------------------------------------------------------------------------
(****************************************************************************)
(* Attendance.                                                              *)
(****************************************************************************)

Working == {"fetch", "resolve", "build", "store", "insert", "page"}
WriteSets == [insert : SUBSET Days, update : SUBSET Days, skip : SUBSET Days]
SyncRows ==
    [phase : {"idle", "queued", "watch", "locked", "reconcile"}, step : {"idle", "lock"} \cup Working,
     day : 0..MaxDay, got : Nat, passed : 0..MaxDay, attempt : Nat, writes : WriteSets,
     values : [Days -> Nat]]

AttTyped ==
    /\ today \in Days
    /\ recorded \in [Days -> Nat]
    /\ summary \in [Days -> Seq(Nat)]
    /\ cursor \in 0..today
    /\ sync \in [SyncWorkers -> SyncRows]

(* The rows of a day that is over hold all its events.                      *)
Complete(d) == Len(summary[d]) > 1 \/ summary[d] = <<recorded[d]>>

(* A day stored, about to be stored, or whose report was passed over.       *)
Kept(row, d) == d \in row.writes.insert \/ d \in row.writes.skip \/ summary[d] # <<>>

Placed(row) ==
    /\ row.phase \in {"idle", "queued"} <=> row.step \in {"idle", "lock"}
    /\ row.phase \in {"watch", "locked", "reconcile"} => 1 <= row.day /\ row.day <= today
    /\ row.phase = "reconcile" => row.day < today
    /\ row.step = "insert" => row.phase # "locked"

Fresh(row) ==
    /\ row.step \in {"resolve", "build", "store", "insert"} /\ row.day < today
         => row.got = recorded[row.day]
    /\ \A d \in row.writes.insert \cup row.writes.update : d < today => row.values[d] = recorded[d]

Reconciles(row) ==
    row.phase = "reconcile" /\ row.step = "page" /\ row.day \notin row.writes.skip => Complete(row.day)

Passes(row) ==
    row.phase = "locked" =>
      /\ cursor \notin {0, today} => row.day = row.passed + 1 /\ cursor <= row.passed
      /\ cursor \in {0, today} => row.day = today /\ row.passed = cursor
      /\ \A d \in WorkDays : cursor < d /\ d <= row.passed => Kept(row, d)
      /\ row.step = "page" => Kept(row, row.day)

RowFits(row) == Placed(row) /\ Fresh(row) /\ Reconciles(row) /\ Passes(row)

AttInv ==
    /\ AttTyped
    /\ \A w \in SyncWorkers : RowFits(sync[w])
    /\ \A v, w \in Holder : v = w
    /\ \A d \in reconciled : d \in Days /\ d < today /\ (d \in WorkDays => Complete(d))

-----------------------------------------------------------------------------
(* The rows of DailySummary only improve.                                   *)

Improves ==
    \A d \in Days :
       /\ summary[d] # <<>> => summary'[d] # <<>>
       /\ d < today /\ Complete(d) => Complete(d)'

(* A row of a worker that does nothing now fits.                            *)
LEMMA RowOfOthers ==
    ASSUME AttTyped, NEW row \in SyncRows, RowFits(row), Improves, today' = today,
           \A d \in Days : d < today => recorded'[d] = recorded[d],
           cursor' = cursor \/ row.phase # "locked"
    PROVE  RowFits(row)'
<1>1. /\ row.day \in 0..MaxDay /\ row.writes.insert \subseteq Days /\ row.writes.update \subseteq Days
      /\ today \in Nat /\ WorkDays \subseteq Days
  BY AttendanceAssumption DEF SyncRows, WriteSets, AttTyped, Days
<1>2. Placed(row)'
  BY DEF RowFits, Placed
<1>3. Fresh(row)'
  <2>1. row.step \in {"resolve", "build", "store", "insert"} => row.phase \in {"watch", "locked", "reconcile"}
    BY DEF RowFits, Placed, SyncRows
  <2>2. row.step \in {"resolve", "build", "store", "insert"} => row.day \in Days
    BY <1>1, <2>1, AttendanceAssumption DEF RowFits, Placed, Days
  <2>3. QED
    BY <1>1, <2>2 DEF RowFits, Fresh
<1>4. Reconciles(row)'
  <2> SUFFICES ASSUME row.phase = "reconcile", row.step = "page", row.day \notin row.writes.skip
               PROVE  Complete(row.day)'
    BY DEF Reconciles
  <2>1. Complete(row.day)
    BY DEF RowFits, Reconciles
  <2>2. row.day \in Days /\ row.day < today
    BY <1>1 DEF RowFits, Placed, Days
  <2>3. QED
    BY <2>1, <2>2 DEF Improves
<1>5. Passes(row)'
  <2> SUFFICES ASSUME row.phase = "locked" PROVE Passes(row)'
    BY DEF Passes
  <2>1. cursor' = cursor /\ Passes(row) /\ row.day \in Days
    BY <1>1 DEF RowFits, Placed, Days
  <2>2. \A d \in Days : Kept(row, d) => Kept(row, d)'
    BY DEF Kept, Improves
  <2>3. QED
    BY <1>1, <2>1, <2>2 DEF Passes
<1>6. QED
  BY <1>2, <1>3, <1>4, <1>5 DEF RowFits

(* What a step of one worker has to show.                                   *)
LEMMA WorkerStep ==
    ASSUME AttInv, NEW w \in SyncWorkers, NEW row \in SyncRows, Become(w, row),
           UNCHANGED <<today, recorded>>, Improves,
           summary' \in [Days -> Seq(Nat)], cursor' \in 0..today,
           cursor' = cursor \/ sync[w].phase = "locked",
           RowFits(row)',
           row.phase = "locked" => sync[w].phase = "locked" \/ Holder = {},
           \A d \in reconciled' : d \in reconciled \/ (d \in Days /\ d < today /\ (d \in WorkDays => Complete(d)'))
    PROVE  AttInv'
<1>1. sync \in [SyncWorkers -> SyncRows] /\ sync' = [sync EXCEPT ![w] = row]
  BY DEF AttInv, AttTyped, Become
<1>2. AttTyped'
  BY <1>1 DEF AttInv, AttTyped
<1>3. ASSUME NEW v \in SyncWorkers PROVE RowFits(sync[v])'
  <2>1. CASE v = w
    BY <1>1, <2>1 DEF RowFits, Placed, Fresh, Reconciles, Passes, Kept, Complete
  <2>2. CASE v # w
    <3> DEFINE other == sync[v]
    <3>1. other \in SyncRows /\ RowFits(other) /\ sync'[v] = other
      BY <1>1, <2>2 DEF AttInv
    <3>2. cursor' = cursor \/ other.phase # "locked"
      BY <2>2 DEF AttInv, Holder
    <3> HIDE DEF other
    <3>3. PICK o \in SyncRows : o = other /\ RowFits(o)'
      <4> SUFFICES ASSUME NEW o \in SyncRows, o = other PROVE RowFits(o)'
        BY <3>1
      <4>1. QED
        BY <3>1, <3>2, RowOfOthers DEF AttInv
    <3>4. QED
      BY <3>1, <3>3 DEF RowFits, Placed, Fresh, Reconciles, Passes, Kept, Complete
  <2>3. QED
    BY <2>1, <2>2
<1>4. \A u, v \in Holder' : u = v
  <2>1. Holder' \subseteq Holder \cup {w} /\ (w \in Holder' => w \in Holder \/ Holder = {})
    BY <1>1 DEF Holder
  <2>2. QED
    BY <2>1 DEF AttInv
<1>5. \A d \in reconciled' : d \in Days /\ d < today' /\ (d \in WorkDays => Complete(d)')
  BY DEF AttInv, Improves
<1>6. QED
  BY <1>2, <1>3, <1>4, <1>5 DEF AttInv

(* A worker that does nothing fits, and so does one that has a task to do.  *)
LEMMA RestingRow ==
    ASSUME AttTyped, today' \in Nat, NEW row \in SyncRows, row.phase \in {"idle", "queued"}, row.step \in {"idle", "lock"},
           row.writes = NoWrites
    PROVE  RowFits(row)'
BY DEF RowFits, Placed, Fresh, Reconciles, Passes, NoWrites

(* A worker at rest.                                                        *)
LEMMA IdleRow ==
    /\ Idle \in SyncRows /\ Idle.phase = "idle" /\ Idle.step = "idle" /\ Idle.writes = NoWrites
<1>1. /\ 0 \in 0..MaxDay /\ [d \in Days |-> 0] \in [Days -> Nat] /\ NoWrites \in WriteSets
      /\ Days \subseteq 0..MaxDay
  BY AttendanceAssumption DEF NoWrites, WriteSets, Days
<1>2. QED
  BY <1>1 DEF Idle, SyncRows

(* If the table stays, it improves.                                         *)
LEMMA SameRows ==
    ASSUME UNCHANGED <<summary, recorded>>
    PROVE  Improves
BY DEF Improves, Complete

(* Starting a task.                                                         *)
LEMMA StartKept ==
    ASSUME AttInv, NEW w \in SyncWorkers, StartBackfill(w) \/ StartWatch(w) \/ Begin(w)
    PROVE  AttInv'
<1>1. /\ UNCHANGED <<today, recorded, summary, cursor, reconciled>> /\ Improves
      /\ sync[w] \in SyncRows /\ RowFits(sync[w])
      /\ today \in Days /\ today' \in Nat /\ today \in Nat /\ cursor \in 0..today
      /\ summary \in [Days -> Seq(Nat)] /\ AttTyped
  BY SameRows DEF StartBackfill, StartWatch, Begin, AttInv, AttTyped, Days
<1>2. CASE StartBackfill(w)
  <2> DEFINE expr == [Idle EXCEPT !.phase = "queued", !.step = "lock"]
  <2>1. /\ expr \in SyncRows /\ expr.phase = "queued" /\ expr.step = "lock" /\ expr.writes = NoWrites
        /\ Become(w, expr)
    <3>1. Idle \in SyncRows /\ Idle.writes = NoWrites
      BY IdleRow
    <3>2. QED
      BY <1>2, <3>1 DEF StartBackfill, SyncRows
  <2> HIDE DEF expr
  <2>2. PICK row \in SyncRows : row = expr
    BY <2>1
  <2>3. RowFits(row)'
    BY <1>1, <2>1, <2>2, RestingRow
  <2>4. QED
    BY <1>1, <2>1, <2>2, <2>3, WorkerStep DEF AttInv
<1>3. CASE StartWatch(w)
  <2> DEFINE expr == [Idle EXCEPT !.phase = "watch", !.step = "fetch", !.day = today]
  <2>1. /\ expr \in SyncRows /\ expr.phase = "watch" /\ expr.step = "fetch" /\ expr.day = today
        /\ expr.writes = NoWrites /\ Become(w, expr)
    <3>1. Idle \in SyncRows /\ Idle.writes = NoWrites
      BY IdleRow
    <3>2. today \in 0..MaxDay
      BY <1>1, AttendanceAssumption DEF Days
    <3>3. expr \in SyncRows
      BY <3>1, <3>2 DEF SyncRows, Working
    <3>4. expr.phase = "watch" /\ expr.step = "fetch" /\ expr.day = today /\ expr.writes = NoWrites
      BY <3>1 DEF SyncRows
    <3>5. Become(w, expr)
      BY <1>3 DEF StartWatch
    <3>6. QED
      BY <3>3, <3>4, <3>5
  <2> HIDE DEF expr
  <2>2. PICK row \in SyncRows : row = expr
    BY <2>1
  <2>3. RowFits(row)'
    BY <1>1, <2>1, <2>2 DEF RowFits, Placed, Fresh, Reconciles, Passes, NoWrites, Days
  <2>4. QED
    BY <1>1, <2>1, <2>2, <2>3, WorkerStep DEF AttInv
<1>4. CASE Begin(w)
  <2> DEFINE day == IF cursor = 0 \/ cursor = today THEN today ELSE cursor + 1
             expr == [sync[w] EXCEPT !.phase = "locked", !.step = "fetch", !.passed = cursor, !.day = day]
  <2>1. day \in Days /\ 1 <= day /\ day <= today
    BY <1>1, AttendanceAssumption DEF Days
  <2>2. Become(w, expr) /\ Holder = {}
    BY <1>4 DEF Begin
  <2>3. cursor \in 0..MaxDay /\ day \in 0..MaxDay
    BY <1>1, <2>1, AttendanceAssumption DEF Days
  <2>4. (cursor \in {0, today} => day = today) /\ (cursor \notin {0, today} => day = cursor + 1)
    OBVIOUS
  <2> HIDE DEF day
  <2>5. /\ expr \in SyncRows /\ expr.phase = "locked" /\ expr.step = "fetch" /\ expr.day = day
        /\ expr.passed = cursor /\ expr.writes = sync[w].writes /\ expr.values = sync[w].values
    BY <1>1, <2>3 DEF SyncRows, Working
  <2> HIDE DEF expr
  <2>6. PICK row \in SyncRows : row = expr
    BY <2>5
  <2>7. RowFits(row)'
    <3>1. Placed(row)'
      BY <1>1, <2>1, <2>5, <2>6 DEF Placed
    <3>2. Fresh(row)'
      BY <1>1, <2>5, <2>6 DEF RowFits, Fresh
    <3>3. Reconciles(row)'
      BY <2>5, <2>6 DEF Reconciles
    <3>4. Passes(row)'
      BY <1>1, <2>4, <2>5, <2>6, AttendanceAssumption DEF Passes, Days
    <3>5. QED
      BY <3>1, <3>2, <3>3, <3>4 DEF RowFits
  <2>8. QED
    BY <1>1, <2>2, <2>5, <2>6, <2>7, WorkerStep DEF AttInv
<1>5. QED
  BY <1>2, <1>3, <1>4

(* Fetching a report and finding out whose it is.                           *)
LEMMA LookedUp ==
    ASSUME AttInv, NEW w \in SyncWorkers,
           Fetch(w) \/ FetchNothing(w) \/ Resolve(w) \/ BuildMap(w) \/ UpsertFails(w)
    PROVE  AttInv'
<1>1. /\ UNCHANGED <<today, recorded, summary, cursor, reconciled>> /\ Improves
      /\ sync[w] \in SyncRows /\ RowFits(sync[w])
      /\ today \in Days /\ recorded \in [Days -> Nat] /\ cursor \in 0..today
      /\ summary \in [Days -> Seq(Nat)] /\ AttTyped
  BY SameRows DEF Fetch, FetchNothing, Resolve, BuildMap, UpsertFails, AttInv, AttTyped
<1>2. /\ sync[w].day \in 0..MaxDay /\ sync[w].writes \in WriteSets
      /\ WorkDays \subseteq Days
  BY <1>1, AttendanceAssumption DEF SyncRows, Days
<1>3. CASE Fetch(w)
  <2> DEFINE expr == [sync[w] EXCEPT !.step = "resolve", !.got = recorded[sync[w].day]]
  <2>1. Become(w, expr) /\ sync[w].step = "fetch" /\ sync[w].day \in Days
    BY <1>2, <1>3 DEF Fetch
  <2>2. recorded[sync[w].day] \in Nat
    BY <1>1, <2>1
  <2>3. /\ expr \in SyncRows /\ expr.step = "resolve" /\ expr.got = recorded[sync[w].day]
        /\ expr.phase = sync[w].phase /\ expr.day = sync[w].day /\ expr.passed = sync[w].passed
        /\ expr.writes = sync[w].writes /\ expr.values = sync[w].values
    BY <1>1, <2>2 DEF SyncRows, Working
  <2> HIDE DEF expr
  <2>4. PICK row \in SyncRows : row = expr
    BY <2>3
  <2>5. RowFits(row)'
    BY <1>1, <2>1, <2>3, <2>4 DEF RowFits, Placed, Fresh, Reconciles, Passes, Kept
  <2>6. row.phase = sync[w].phase
    BY <2>3, <2>4
  <2>7. QED
    BY <1>1, <2>1, <2>4, <2>5, <2>6, WorkerStep DEF AttInv, Holder
<1>4. CASE sync[w].step \in {"fetch", "resolve", "store", "insert"} /\ PassOver(w)
  <2> DEFINE expr == [sync[w] EXCEPT !.step = "page", !.writes.skip = @ \cup {sync[w].day}]
  <2>1. Become(w, expr) /\ sync[w].step \in {"fetch", "resolve", "store", "insert"}
    BY <1>4 DEF PassOver
  <2>2. sync[w].day \in Days
    BY <1>1, <1>2, <2>1 DEF RowFits, Placed, Days, SyncRows
  <2>3. [sync[w].writes EXCEPT !.skip = @ \cup {sync[w].day}] \in WriteSets
    BY <1>2, <2>2 DEF WriteSets
  <2>4. /\ expr.step = "page" /\ expr.phase = sync[w].phase /\ expr.day = sync[w].day
        /\ expr.passed = sync[w].passed /\ expr.values = sync[w].values
        /\ expr.writes = [sync[w].writes EXCEPT !.skip = @ \cup {sync[w].day}]
        /\ expr \in SyncRows
    BY <1>1, <2>3 DEF SyncRows, Working
  <2> HIDE DEF expr
  <2>5. /\ expr.writes.insert = sync[w].writes.insert /\ expr.writes.update = sync[w].writes.update
        /\ expr.writes.skip = sync[w].writes.skip \cup {sync[w].day}
    BY <1>2, <2>4 DEF WriteSets
  <2>6. PICK row \in SyncRows : row = expr
    BY <2>4
  <2>7. RowFits(row)'
    BY <1>1, <2>1, <2>4, <2>5, <2>6 DEF RowFits, Placed, Fresh, Reconciles, Passes, Kept
  <2>8. row.phase = sync[w].phase
    BY <2>4, <2>6
  <2>9. QED
    BY <1>1, <2>1, <2>6, <2>7, <2>8, WorkerStep DEF AttInv, Holder
<1>5. ASSUME NEW step \in {"store", "build"}, sync[w].step \in {"resolve", "build"},
             Become(w, [sync[w] EXCEPT !.step = step])
      PROVE  AttInv'
  <2> DEFINE expr == [sync[w] EXCEPT !.step = step]
  <2>1. /\ expr \in SyncRows /\ expr.step = step /\ expr.got = sync[w].got
        /\ expr.phase = sync[w].phase /\ expr.day = sync[w].day /\ expr.passed = sync[w].passed
        /\ expr.writes = sync[w].writes /\ expr.values = sync[w].values
    BY <1>1 DEF SyncRows, Working
  <2>2. Become(w, expr)
    BY <1>5
  <2> HIDE DEF expr
  <2>3. PICK row \in SyncRows : row = expr
    BY <2>1
  <2>4. RowFits(row)'
    BY <1>1, <1>5, <2>1, <2>3 DEF RowFits, Placed, Fresh, Reconciles, Passes, Kept
  <2>5. row.phase = sync[w].phase
    BY <2>1, <2>3
  <2>6. QED
    BY <1>1, <2>2, <2>3, <2>4, <2>5, WorkerStep DEF AttInv, Holder
<1>6. CASE Resolve(w)
  BY <1>4, <1>5, <1>6 DEF Resolve
<1>7. CASE BuildMap(w)
  BY <1>5, <1>7 DEF BuildMap
<1>8. CASE FetchNothing(w) \/ UpsertFails(w)
  BY <1>4, <1>8 DEF FetchNothing, UpsertFails
<1>9. QED
  BY <1>3, <1>6, <1>7, <1>8

-----------------------------------------------------------------------------
(* Writing rows.                                                            *)

(* What an inserted and an updated row make of the rows of a day.           *)
LEMMA RowsWritten ==
    ASSUME NEW rows \in Seq(Nat), NEW n \in Nat
    PROVE  /\ Len(rows) \in Nat /\ (rows = <<>> <=> Len(rows) = 0)
           /\ <<n>> \in Seq(Nat) /\ <<n>> # <<>>
           /\ Append(rows, n) \in Seq(Nat) /\ Append(rows, n) # <<>>
           /\ Len(rows) >= 1 => Len(Append(rows, n)) > 1
           /\ rows = <<>> => Append(rows, n) = <<n>>
           /\ [rows EXCEPT ![1] = n] \in Seq(Nat)
           /\ rows # <<>> => [rows EXCEPT ![1] = n] # <<>>
           /\ Len([rows EXCEPT ![1] = n]) = Len(rows)
           /\ rows = <<n>> => [rows EXCEPT ![1] = n] = <<n>>
<1>1. Len(rows) \in Nat /\ (rows = <<>> <=> Len(rows) = 0) /\ rows \in [1..Len(rows) -> Nat]
  BY EmptySeq, LenProperties
<1>2. <<n>> \in Seq(Nat) /\ <<n>> # <<>> /\ Len(<<n>>) = 1 /\ <<n>>[1] = n
  OBVIOUS
<1>3. /\ Append(rows, n) \in Seq(Nat) /\ Len(Append(rows, n)) = Len(rows) + 1
      /\ Append(rows, n) # <<>>
  BY AppendProperties
<1>4. rows = <<>> => Append(rows, n) = <<n>>
  BY AppendProperties
<1>5. [rows EXCEPT ![1] = n] \in [1..Len(rows) -> Nat]
  BY <1>1
<1>6. [rows EXCEPT ![1] = n] \in Seq(Nat) /\ Len([rows EXCEPT ![1] = n]) = Len(rows)
  BY <1>1, <1>5
<1>7. rows # <<>> => [rows EXCEPT ![1] = n] # <<>>
  BY <1>1, <1>6
<1>8. rows = <<n>> => [rows EXCEPT ![1] = n] = <<n>>
  <2> SUFFICES ASSUME rows = <<n>> PROVE [rows EXCEPT ![1] = n] = rows
    OBVIOUS
  <2>1. rows[1] = n
    BY <1>2
  <2>2. rows = [k \in 1..Len(rows) |-> rows[k]]
    BY <1>1
  <2>3. QED
    BY <1>1, <2>1, <2>2
<1>9. QED
  BY <1>1, <1>2, <1>3, <1>4, <1>6, <1>7, <1>8

(* Saving one row of one day.                                               *)
LEMMA OneDayWritten ==
    ASSUME AttTyped, UNCHANGED recorded, NEW d \in Days, NEW new \in Seq(Nat), new # <<>>,
           summary' = [summary EXCEPT ![d] = new],
           d < today /\ Complete(d) => Len(new) > 1 \/ new = <<recorded[d]>>
    PROVE  /\ Improves /\ summary' \in [Days -> Seq(Nat)]
           /\ summary'[d] = new
BY DEF AttTyped, Improves, Complete

(* The cursor's worker stores in its transaction.                           *)
LEMMA StoreLocked ==
    ASSUME AttInv, NEW w \in SyncWorkers, Store(w), sync[w].phase = "locked"
    PROVE  AttInv'
<1>1. /\ UNCHANGED <<today, recorded, summary, cursor, reconciled>> /\ Improves
      /\ sync[w] \in SyncRows /\ RowFits(sync[w]) /\ sync[w].step = "store"
      /\ today \in Days /\ recorded \in [Days -> Nat] /\ cursor \in 0..today
      /\ summary \in [Days -> Seq(Nat)] /\ AttTyped
  BY SameRows DEF Store, AttInv, AttTyped
<1>2. /\ sync[w].day \in 0..MaxDay /\ sync[w].writes \in WriteSets /\ sync[w].got \in Nat
      /\ sync[w].values \in [Days -> Nat]
  BY <1>1 DEF SyncRows
<1>3. PICK d \in Days : d = sync[w].day
  <2>1. 1 <= sync[w].day
    BY <1>1 DEF RowFits, Placed
  <2>2. QED
    BY <1>2, <2>1, AttendanceAssumption DEF Days
<1> DEFINE stored == [sync[w] EXCEPT !.step = "page"]
           expr == [stored EXCEPT !.values[d] = sync[w].got,
                                  !.writes.insert = IF summary[d] = <<>> THEN @ \cup {d} ELSE @,
                                  !.writes.update = IF Len(summary[d]) = 1 THEN @ \cup {d} ELSE @]
<1>4. Become(w, expr)
  BY <1>3 DEF Store
<1>5. /\ stored \in SyncRows /\ stored.writes = sync[w].writes /\ stored.values = sync[w].values
      /\ stored.step = "page" /\ stored.phase = "locked" /\ stored.day = d
      /\ stored.passed = sync[w].passed
  BY <1>1, <1>3 DEF SyncRows, Working
<1> HIDE DEF stored
<1>6. /\ expr.phase = "locked" /\ expr.step = "page" /\ expr.day = d /\ expr.passed = sync[w].passed
      /\ expr.values = [sync[w].values EXCEPT ![d] = sync[w].got]
  BY <1>5 DEF SyncRows
<1>7. /\ expr.writes.insert = IF summary[d] = <<>> THEN sync[w].writes.insert \cup {d} ELSE sync[w].writes.insert
      /\ expr.writes.update = IF Len(summary[d]) = 1 THEN sync[w].writes.update \cup {d} ELSE sync[w].writes.update
      /\ expr.writes.skip = sync[w].writes.skip
      /\ expr.writes \in WriteSets
  BY <1>5 DEF SyncRows, WriteSets
<1>8. expr \in SyncRows
  BY <1>2, <1>5, <1>7 DEF SyncRows
<1> HIDE DEF expr
<1>9. PICK row \in SyncRows :
         /\ row = expr /\ row.step = "page" /\ row.phase = "locked" /\ row.day = d
         /\ row.passed = sync[w].passed
         /\ row.writes.insert \subseteq sync[w].writes.insert \cup {d}
         /\ sync[w].writes.insert \subseteq row.writes.insert
         /\ summary[d] = <<>> => d \in row.writes.insert
         /\ row.writes.update \subseteq sync[w].writes.update \cup {d}
         /\ row.writes.skip = sync[w].writes.skip
         /\ row.values[d] = sync[w].got
         /\ \A e \in Days \ {d} : row.values[e] = sync[w].values[e]
  BY <1>2, <1>6, <1>7, <1>8
<1>10. RowFits(row)'
  <2>1. Placed(row)'
    BY <1>1, <1>3, <1>9 DEF RowFits, Placed
  <2>2. Fresh(row)'
    <3>1. d < today => sync[w].got = recorded[d]
      BY <1>1, <1>3 DEF RowFits, Fresh
    <3>2. \A e \in sync[w].writes.insert \cup sync[w].writes.update :
             e < today => sync[w].values[e] = recorded[e]
      BY <1>1 DEF RowFits, Fresh
    <3>3. ASSUME NEW e \in row.writes.insert \cup row.writes.update, e < today
          PROVE  row.values[e] = recorded[e]
      <4>1. e \in Days
        BY DEF SyncRows, WriteSets
      <4>2. CASE e = d
        BY <1>9, <3>1, <3>3, <4>2
      <4>3. CASE e # d
        BY <1>9, <3>2, <3>3, <4>1, <4>3
      <4>4. QED
        BY <4>2, <4>3
    <3>4. QED
      BY <1>1, <1>9, <3>3 DEF Fresh
  <2>3. Reconciles(row)'
    BY <1>9 DEF Reconciles
  <2>4. Passes(row)'
    <3>1. \A e \in Days : Kept(sync[w], e) => e \in row.writes.insert \/ e \in row.writes.skip \/ summary[e] # <<>>
      BY <1>9 DEF Kept
    <3>2. \A e \in Days : Kept(sync[w], e) => Kept(row, e)'
      BY <1>1, <3>1 DEF Kept
    <3>3. Kept(row, d)'
      BY <1>1, <1>9 DEF Kept
    <3>4. WorkDays \subseteq Days
      BY AttendanceAssumption DEF Days
    <3>5. QED
      BY <1>1, <1>3, <1>9, <3>2, <3>3, <3>4 DEF RowFits, Passes
  <2>5. QED
    BY <2>1, <2>2, <2>3, <2>4 DEF RowFits
<1>11. QED
  BY <1>1, <1>4, <1>9, <1>10, WorkerStep DEF AttInv, Holder

(* A worker outside that transaction is through with its day, or inserts.   *)
LEMMA SavedRow ==
    ASSUME AttTyped, UNCHANGED <<today, recorded>>, NEW old \in SyncRows, NEW row \in SyncRows,
           RowFits(old), old.phase \in {"watch", "reconcile"}, row.phase = old.phase,
           row.day = old.day, row.writes = old.writes, row.values = old.values,
           row.step \in {"insert", "page"},
           row.step = "insert" /\ row.day < today => row.got = recorded[row.day],
           row.step = "page" /\ row.day < today => Complete(row.day)'
    PROVE  RowFits(row)'
<1>1. Placed(row)'
  BY DEF RowFits, Placed
<1>2. Fresh(row)'
  BY DEF RowFits, Fresh
<1>3. Reconciles(row)'
  BY DEF RowFits, Placed, Reconciles
<1>4. Passes(row)'
  BY DEF Passes
<1>5. QED
  BY <1>1, <1>2, <1>3, <1>4 DEF RowFits

(* Others save their row at once, or find that there is none.               *)
LEMMA StoreOutside ==
    ASSUME AttInv, NEW w \in SyncWorkers, Store(w), sync[w].phase # "locked"
    PROVE  AttInv'
<1>1. /\ UNCHANGED <<today, recorded, cursor, reconciled>>
      /\ sync[w] \in SyncRows /\ RowFits(sync[w]) /\ sync[w].step = "store"
      /\ today \in Days /\ recorded \in [Days -> Nat] /\ cursor \in 0..today
      /\ summary \in [Days -> Seq(Nat)] /\ AttTyped
  BY DEF Store, AttInv, AttTyped
<1>2. /\ sync[w].day \in 0..MaxDay /\ sync[w].got \in Nat
      /\ sync[w].phase \in {"watch", "reconcile"}
  BY <1>1 DEF SyncRows, RowFits, Placed
<1>3. PICK d \in Days : d = sync[w].day
  <2>1. 1 <= sync[w].day
    BY <1>1, <1>2 DEF RowFits, Placed
  <2>2. QED
    BY <1>2, <2>1, AttendanceAssumption DEF Days
<1>4. PICK n \in Nat : n = sync[w].got /\ (d < today => n = recorded[d])
  BY <1>1, <1>2, <1>3 DEF RowFits, Fresh
<1>5. summary[d] \in Seq(Nat) /\ Len(summary[d]) \in Nat /\ (summary[d] = <<>> <=> Len(summary[d]) = 0)
  BY <1>1, RowsWritten
<1> DEFINE next == IF summary[d] = <<>> THEN "insert" ELSE "page"
           expr == [sync[w] EXCEPT !.step = next]
<1>6. Become(w, expr)
  BY <1>3 DEF Store
<1>7. summary' = IF Len(summary[d]) = 1 THEN [summary EXCEPT ![d] = <<n>>] ELSE summary
  BY <1>3, <1>4 DEF Store
<1>8. next \in Working /\ (next = "insert" <=> summary[d] = <<>>) /\ next \in {"insert", "page"}
  BY DEF Working
<1> HIDE DEF next
<1>9. /\ expr \in SyncRows /\ expr.step = next /\ expr.phase = sync[w].phase /\ expr.day = d
      /\ expr.got = n /\ expr.writes = sync[w].writes /\ expr.values = sync[w].values
  BY <1>1, <1>3, <1>4, <1>8 DEF SyncRows
<1> HIDE DEF expr
<1>10. PICK row \in SyncRows : row = expr
  BY <1>9
<1>11. Improves /\ summary' \in [Days -> Seq(Nat)] /\ (next = "page" /\ d < today => Complete(d)')
  <2>1. CASE Len(summary[d]) = 1
    <3>1. summary' = [summary EXCEPT ![d] = <<n>>] /\ <<n>> \in Seq(Nat) /\ <<n>> # <<>>
      BY <1>7, <2>1, RowsWritten
    <3>2. d < today => <<n>> = <<recorded[d]>>
      BY <1>4
    <3>3. Improves /\ summary' \in [Days -> Seq(Nat)] /\ summary'[d] = <<n>>
      BY <1>1, <3>1, <3>2, OneDayWritten
    <3>4. QED
      BY <1>1, <3>2, <3>3 DEF Complete
  <2>2. CASE Len(summary[d]) # 1
    <3>1. summary' = summary
      BY <1>7, <2>2
    <3>2. next = "page" => Len(summary[d]) > 1
      <4>1. PICK k \in Nat : k = Len(summary[d])
        BY <1>5
      <4>2. next = "page" => k # 0 /\ k # 1
        BY <1>5, <1>8, <2>2, <4>1
      <4>3. k # 0 /\ k # 1 => k > 1
        OBVIOUS
      <4>4. QED
        BY <4>1, <4>2, <4>3
    <3>3. QED
      BY <1>1, <3>1, <3>2, SameRows DEF Complete
  <2>3. QED
    BY <2>1, <2>2
<1>12. RowFits(row)'
  <2>1. row.step \in {"insert", "page"} /\ row.phase = sync[w].phase /\ row.day = d /\ row.got = n
    BY <1>8, <1>9, <1>10
  <2>2. row.step = "page" /\ row.day < today => Complete(row.day)'
    BY <1>9, <1>10, <1>11
  <2>3. row.day = sync[w].day /\ row.writes = sync[w].writes /\ row.values = sync[w].values
    BY <1>3, <1>9, <1>10
  <2>4. row.day < today => row.got = recorded[row.day]
    BY <1>4, <2>1
  <2>5. QED
    BY <1>1, <1>2, <2>1, <2>2, <2>3, <2>4, SavedRow
<1>13. row.phase = sync[w].phase
  BY <1>9, <1>10
<1>14. QED
  <2>1. \A e \in reconciled' : e \in reconciled
    BY <1>1
  <2>2. row.phase # "locked"
    BY <1>2, <1>13
  <2>3. Become(w, row)
    BY <1>6, <1>10
  <2>4. QED
    BY <1>1, <1>11, <1>12, <2>1, <2>2, <2>3, WorkerStep

(* Who found no row inserts one, even if one is there by now.               *)
LEMMA InsertKept ==
    ASSUME AttInv, NEW w \in SyncWorkers, Insert(w)
    PROVE  AttInv'
<1>1. /\ UNCHANGED <<today, recorded, cursor, reconciled>>
      /\ sync[w] \in SyncRows /\ RowFits(sync[w]) /\ sync[w].step = "insert"
      /\ today \in Days /\ recorded \in [Days -> Nat] /\ cursor \in 0..today
      /\ summary \in [Days -> Seq(Nat)] /\ AttTyped
  BY DEF Insert, AttInv, AttTyped
<1>2. /\ sync[w].day \in 0..MaxDay /\ sync[w].got \in Nat
      /\ sync[w].phase \in {"watch", "reconcile"}
  BY <1>1 DEF SyncRows, RowFits, Placed
<1>3. PICK d \in Days : d = sync[w].day
  <2>1. 1 <= sync[w].day
    BY <1>1, <1>2 DEF RowFits, Placed
  <2>2. QED
    BY <1>2, <2>1, AttendanceAssumption DEF Days
<1>4. PICK n \in Nat : n = sync[w].got /\ (d < today => n = recorded[d])
  BY <1>1, <1>2, <1>3 DEF RowFits, Fresh
<1> DEFINE expr == [sync[w] EXCEPT !.step = "page"]
<1>5. Become(w, expr) /\ summary' = [summary EXCEPT ![d] = Append(summary[d], n)]
  BY <1>3, <1>4 DEF Insert
<1>6. /\ expr \in SyncRows /\ expr.step = "page" /\ expr.phase = sync[w].phase /\ expr.day = d
      /\ expr.writes = sync[w].writes /\ expr.values = sync[w].values
  BY <1>1, <1>3 DEF SyncRows, Working
<1> HIDE DEF expr
<1>7. PICK row \in SyncRows : row = expr
  BY <1>6
<1>8. PICK new \in Seq(Nat) :
         /\ new = Append(summary[d], n) /\ new # <<>>
         /\ Len(new) > 1 \/ new = <<n>>
  <2>1. summary[d] \in Seq(Nat)
    BY <1>1
  <2>2. /\ Append(summary[d], n) \in Seq(Nat) /\ Append(summary[d], n) # <<>>
        /\ Len(summary[d]) \in Nat /\ (summary[d] = <<>> <=> Len(summary[d]) = 0)
        /\ Len(summary[d]) >= 1 => Len(Append(summary[d], n)) > 1
        /\ summary[d] = <<>> => Append(summary[d], n) = <<n>>
    BY <2>1, RowsWritten
  <2>3. PICK k \in Nat : k = Len(summary[d])
    BY <2>2
  <2>4. k # 0 => k >= 1
    OBVIOUS
  <2>5. CASE k = 0
    BY <2>2, <2>3, <2>5
  <2>6. CASE k # 0
    BY <2>2, <2>3, <2>4, <2>6
  <2>7. QED
    BY <2>5, <2>6
<1>9. Improves /\ summary' \in [Days -> Seq(Nat)] /\ summary'[d] = new
  BY <1>1, <1>4, <1>5, <1>8, OneDayWritten
<1>10. d < today => Complete(d)'
  BY <1>1, <1>4, <1>8, <1>9 DEF Complete
<1>11. RowFits(row)'
  <2>1. row.step = "page" /\ row.phase = sync[w].phase /\ row.day = d
    BY <1>6, <1>7
  <2>2. row.step = "page" /\ row.day < today => Complete(row.day)'
    BY <1>10, <2>1
  <2>3. row.day = sync[w].day /\ row.writes = sync[w].writes /\ row.values = sync[w].values
    BY <1>3, <1>6, <1>7
  <2>4. QED
    BY <1>1, <1>2, <2>1, <2>2, <2>3, SavedRow
<1>12. row.phase # "locked" /\ Become(w, row)
  BY <1>2, <1>5, <1>6, <1>7
<1>13. \A e \in reconciled' : e \in reconciled
  BY <1>1
<1>14. QED
  BY <1>1, <1>9, <1>11, <1>12, <1>13, WorkerStep

-----------------------------------------------------------------------------
(* Being through with a day.                                                *)

(* Committing a transaction leaves every day it has kept with a row.        *)
LEMMA Committed ==
    ASSUME AttTyped, UNCHANGED <<today, recorded>>, NEW w \in SyncWorkers, Commit(w), RowFits(sync[w])
    PROVE  /\ Improves /\ summary' \in [Days -> Seq(Nat)]
           /\ \A d \in Days : Kept(sync[w], d) => d \in sync[w].writes.skip \/ summary'[d] # <<>>
<1>1. PICK row \in SyncRows : row = sync[w]
  BY DEF AttTyped
<1>2. /\ summary \in [Days -> Seq(Nat)] /\ recorded \in [Days -> Nat] /\ row.values \in [Days -> Nat]
      /\ summary' = [d \in Days |-> Written(summary[d], row, d)] /\ RowFits(row)
  BY <1>1 DEF AttTyped, Commit, SyncRows
<1>3. ASSUME NEW d \in Days
      PROVE  /\ summary'[d] \in Seq(Nat)
             /\ summary[d] # <<>> \/ d \in row.writes.insert => summary'[d] # <<>>
             /\ d < today /\ Complete(d) => Complete(d)'
  <2>1. summary'[d] = Written(summary[d], row, d)
    BY <1>2
  <2>2. PICK rows \in Seq(Nat), n \in Nat : rows = summary[d] /\ n = row.values[d]
    BY <1>2
  <2>3. CASE d \in row.writes.insert
    <3>1. summary'[d] = Append(rows, n)
      BY <2>1, <2>2, <2>3 DEF Written
    <3>2. /\ Append(rows, n) \in Seq(Nat) /\ Append(rows, n) # <<>>
          /\ Len(rows) >= 1 => Len(Append(rows, n)) > 1
      BY RowsWritten
    <3>3. Len(rows) > 1 \/ rows = <<recorded[d]>> => Len(rows) >= 1
      BY RowsWritten
    <3>4. Complete(d) => Complete(d)'
      BY <2>2, <3>1, <3>2, <3>3 DEF Complete
    <3>5. QED
      BY <3>1, <3>2, <3>4
  <2>4. CASE d \notin row.writes.insert /\ d \in row.writes.update
    <3>1. summary'[d] = [rows EXCEPT ![1] = n]
      BY <2>1, <2>2, <2>4 DEF Written
    <3>2. d < today => n = recorded[d]
      BY <1>2, <2>2, <2>4 DEF RowFits, Fresh
    <3>3. /\ [rows EXCEPT ![1] = n] \in Seq(Nat)
          /\ rows # <<>> => [rows EXCEPT ![1] = n] # <<>>
          /\ Len([rows EXCEPT ![1] = n]) = Len(rows)
          /\ rows = <<n>> => [rows EXCEPT ![1] = n] = <<n>>
      BY RowsWritten
    <3>4. d < today /\ Complete(d) => Complete(d)'
      BY <2>2, <3>1, <3>2, <3>3 DEF Complete
    <3>5. QED
      BY <2>2, <2>4, <3>1, <3>3, <3>4
  <2>5. CASE d \notin row.writes.insert /\ d \notin row.writes.update
    <3>1. summary'[d] = summary[d]
      BY <2>1, <2>5 DEF Written
    <3>2. QED
      BY <1>2, <2>5, <3>1 DEF Complete
  <2>6. QED
    BY <2>3, <2>4, <2>5
<1>4. Improves
  BY <1>3 DEF Improves
<1>5. summary' \in [Days -> Seq(Nat)]
  BY <1>2, <1>3
<1>6. \A d \in Days : Kept(row, d) => d \in row.writes.skip \/ summary'[d] # <<>>
  BY <1>3 DEF Kept
<1>7. QED
  BY <1>1, <1>4, <1>5, <1>6

(* The cursor's worker goes on to the next day.                             *)
LEMMA NextDay ==
    ASSUME AttInv, NEW w \in SyncWorkers, UNCHANGED <<today, recorded>>, DayDone(w),
           sync[w].phase = "locked", sync[w].day < today,
           sync[w].step \in {"fetch", "page"}, sync[w].step = "page" \/ sync[w].day \notin WorkDays
    PROVE  AttInv'
<1>1. /\ sync[w] \in SyncRows /\ RowFits(sync[w])
      /\ today \in Days /\ recorded \in [Days -> Nat] /\ cursor \in 0..today /\ today \in Nat
      /\ summary \in [Days -> Seq(Nat)] /\ AttTyped
  BY DEF AttInv, AttTyped, Days
<1> DEFINE expr == [sync[w] EXCEPT !.step = "fetch", !.passed = sync[w].day, !.day = sync[w].day + 1]
<1>2. Become(w, expr) /\ UNCHANGED <<summary, cursor, source, reconciled>>
  <2>1. sync[w].day # today
    BY <1>1 DEF SyncRows
  <2>2. QED
    BY <2>1 DEF DayDone
<1>3. PICK d \in Nat : d = sync[w].day /\ d \in 0..MaxDay /\ d + 1 \in 0..MaxDay /\ d >= 1 /\ d + 1 <= today
  <2>1. sync[w].day \in 0..MaxDay /\ sync[w].day >= 1
    BY <1>1 DEF SyncRows, RowFits, Placed
  <2>2. PICK d \in 0..MaxDay : d = sync[w].day /\ d >= 1 /\ d < today
    BY <2>1
  <2>3. d \in Nat /\ d + 1 \in 0..MaxDay /\ d + 1 <= today
    BY <1>1, <2>2, AttendanceAssumption DEF Days
  <2>4. QED
    BY <2>2, <2>3
<1>4. /\ expr \in SyncRows /\ expr.step = "fetch" /\ expr.phase = "locked" /\ expr.day = d + 1
      /\ expr.passed = d /\ expr.writes = sync[w].writes /\ expr.values = sync[w].values
  BY <1>1, <1>3 DEF SyncRows, Working
<1> HIDE DEF expr
<1>5. PICK row \in SyncRows : row = expr
  BY <1>4
<1>6. Improves
  BY <1>2, SameRows
<1>7. Placed(row)'
  BY <1>1, <1>3, <1>4, <1>5 DEF Placed
<1>8. Fresh(row)'
  BY <1>1, <1>4, <1>5 DEF RowFits, Fresh
<1>9. Reconciles(row)'
  BY <1>4, <1>5 DEF Reconciles
<1>10. Passes(row)'
  <2>1. \A e \in Days : Kept(sync[w], e) => Kept(row, e)'
    BY <1>2, <1>4, <1>5 DEF Kept
  <2>2. /\ cursor \notin {0, today} /\ d = sync[w].passed + 1 /\ cursor <= sync[w].passed
        /\ sync[w].passed \in Nat /\ cursor \in Nat
    <3>1. sync[w].passed \in 0..MaxDay /\ cursor \in Nat
      BY <1>1 DEF SyncRows
    <3>2. cursor \notin {0, today}
      BY <1>1, <1>3 DEF RowFits, Passes
    <3>3. d = sync[w].passed + 1 /\ cursor <= sync[w].passed
      BY <1>1, <1>3, <3>2 DEF RowFits, Passes
    <3>4. QED
      BY <3>1, <3>2, <3>3
  <2>3. \A e \in WorkDays : cursor < e /\ e <= d => Kept(sync[w], e)
    <3> SUFFICES ASSUME NEW e \in WorkDays, cursor < e, e <= d PROVE Kept(sync[w], e)
      OBVIOUS
    <3>1. e <= sync[w].passed \/ e = d
      BY <1>3, <2>2, AttendanceAssumption DEF Days
    <3>2. QED
      BY <1>1, <1>3, <3>1 DEF RowFits, Passes
  <2>4. WorkDays \subseteq Days
    BY AttendanceAssumption DEF Days
  <2>5. QED
    BY <1>1, <1>2, <1>3, <1>4, <1>5, <2>1, <2>2, <2>3, <2>4 DEF Passes
<1>11. row.phase = "locked" /\ Become(w, row)
  BY <1>2, <1>4, <1>5
<1>12. QED
  BY <1>1, <1>2, <1>6, <1>7, <1>8, <1>9, <1>10, <1>11, WorkerStep DEF RowFits
(* Having stored today the cursor's worker commits.                         *)
LEMMA CursorDone ==
    ASSUME AttInv, NEW w \in SyncWorkers, UNCHANGED <<today, recorded>>, DayDone(w),
           sync[w].phase = "locked", sync[w].day = today
    PROVE  AttInv'
<1>1. /\ RowFits(sync[w]) /\ sync[w] \in SyncRows
      /\ today \in Days /\ today \in Nat /\ today' \in Nat /\ today \in 0..MaxDay /\ AttTyped
  BY AttendanceAssumption DEF AttInv, AttTyped, Days
<1> DEFINE next == IF today = 1 THEN Idle
                   ELSE [Idle EXCEPT !.phase = "reconcile", !.step = "fetch", !.day = today - 1,
                                     !.attempt = sync[w].attempt]
<1>2. Commit(w) /\ cursor' = today /\ UNCHANGED reconciled /\ Become(w, next)
  BY <1>1 DEF DayDone
<1>3. Improves /\ summary' \in [Days -> Seq(Nat)]
  BY <1>1, <1>2, Committed
<1>4. CASE today = 1
  <2>1. PICK row \in SyncRows : row = Idle /\ Become(w, row)
    BY <1>2, <1>4, IdleRow
  <2>2. row.phase = "idle" /\ row.step = "idle" /\ row.writes = NoWrites
    BY <2>1, IdleRow
  <2>3. RowFits(row)'
    BY <1>1, <2>2, RestingRow
  <2>4. cursor' \in 0..today
    BY <1>1, <1>2
  <2>5. QED
    BY <1>2, <1>3, <2>1, <2>2, <2>3, <2>4, WorkerStep
<1>5. CASE today # 1
  <2>1. today - 1 \in 0..MaxDay /\ 1 <= today - 1 /\ today - 1 < today /\ sync[w].attempt \in Nat
    BY <1>1, <1>5, AttendanceAssumption DEF Days, SyncRows
  <2> DEFINE expr == [Idle EXCEPT !.phase = "reconcile", !.step = "fetch", !.day = today - 1,
                                  !.attempt = sync[w].attempt]
  <2>2. Become(w, expr)
    BY <1>2, <1>5
  <2>3. Idle \in SyncRows /\ Idle.writes = NoWrites
    BY IdleRow
  <2>4. /\ expr \in SyncRows /\ expr.phase = "reconcile" /\ expr.step = "fetch"
        /\ expr.day = today - 1 /\ expr.writes = NoWrites
    BY <2>1, <2>3 DEF SyncRows, Working
  <2> HIDE DEF expr
  <2>5. PICK row \in SyncRows : row = expr
    BY <2>4
  <2>6. Placed(row)'
    BY <1>1, <2>1, <2>4, <2>5 DEF Placed
  <2>7. Fresh(row)' /\ Reconciles(row)' /\ Passes(row)'
    BY <2>4, <2>5 DEF Fresh, Reconciles, Passes, NoWrites
  <2>8. RowFits(row)'
    BY <2>6, <2>7 DEF RowFits
  <2>9. cursor' \in 0..today
    BY <1>1, <1>2
  <2>10. row.phase # "locked" /\ Become(w, row)
    BY <2>2, <2>4, <2>5
  <2>11. QED
    BY <1>2, <1>3, <2>8, <2>9, <2>10, WorkerStep
<1>6. QED
  BY <1>4, <1>5

(* Any other worker is through with its task.                               *)
LEMMA TaskDone ==
    ASSUME AttInv, NEW w \in SyncWorkers, UNCHANGED <<today, recorded>>, DayDone(w),
           sync[w].phase # "locked",
           sync[w].step \in {"fetch", "page"}, sync[w].step = "page" \/ sync[w].day \notin WorkDays
    PROVE  AttInv'
<1>1. /\ RowFits(sync[w]) /\ sync[w] \in SyncRows
      /\ today \in Days /\ today \in Nat /\ today' \in Nat /\ AttTyped /\ cursor \in 0..today
      /\ summary \in [Days -> Seq(Nat)]
  BY DEF AttInv, AttTyped, Days
<1>2. /\ Become(w, Idle) /\ UNCHANGED <<summary, cursor>>
      /\ reconciled' = IF sync[w].phase = "reconcile" /\ sync[w].day \notin sync[w].writes.skip
                       THEN reconciled \cup {sync[w].day} ELSE reconciled
  BY DEF DayDone
<1>3. Improves
  BY <1>2, SameRows
<1>4. PICK row \in SyncRows : row = Idle /\ Become(w, row)
  BY <1>2, IdleRow
<1>5. row.phase = "idle" /\ row.step = "idle" /\ row.writes = NoWrites
  BY <1>4, IdleRow
<1>6. RowFits(row)'
  BY <1>1, <1>5, RestingRow
<1>7. ASSUME NEW d \in reconciled', d \notin reconciled
      PROVE  d \in Days /\ d < today /\ (d \in WorkDays => Complete(d)')
  <2>1. d = sync[w].day /\ sync[w].phase = "reconcile" /\ d \notin sync[w].writes.skip
    BY <1>2, <1>7
  <2>2. d \in 0..MaxDay /\ 1 <= d /\ d < today
    BY <1>1, <2>1 DEF SyncRows, RowFits, Placed
  <2>3. d \in WorkDays => Complete(d)
    BY <1>1, <2>1 DEF RowFits, Reconciles
  <2>4. Complete(d) => Complete(d)'
    BY <1>2 DEF Complete
  <2>5. QED
    BY <2>2, <2>3, <2>4, AttendanceAssumption DEF Days
<1>8. QED
  BY <1>1, <1>2, <1>3, <1>4, <1>5, <1>6, <1>7, WorkerStep

(* A report that is not answered.                                           *)
LEMMA OutageKept ==
    ASSUME AttInv, NEW w \in SyncWorkers, Outage(w)
    PROVE  AttInv'
<1>1. /\ RowFits(sync[w]) /\ sync[w] \in SyncRows
      /\ today \in Days /\ today \in Nat /\ today' \in Nat /\ AttTyped /\ cursor \in 0..today
      /\ summary \in [Days -> Seq(Nat)] /\ UNCHANGED <<today, recorded, reconciled>>
      /\ Become(w, Idle)
  BY DEF AttInv, AttTyped, Days, Outage
<1>2. PICK row \in SyncRows : row = Idle /\ Become(w, row)
  BY <1>1, IdleRow
<1>3. row.phase = "idle" /\ row.step = "idle" /\ row.writes = NoWrites
  BY <1>2, IdleRow
<1>4. RowFits(row)'
  BY <1>1, <1>3, RestingRow
<1>5. /\ Improves /\ summary' \in [Days -> Seq(Nat)] /\ cursor' \in 0..today
      /\ cursor' = cursor \/ sync[w].phase = "locked"
  <2>1. CASE sync[w].phase = "locked"
    <3>1. Commit(w) /\ cursor' = sync[w].passed
      BY <2>1 DEF Outage
    <3>2. sync[w].passed \in 0..MaxDay /\ sync[w].day \in 0..MaxDay /\ sync[w].day <= today
      BY <1>1, <2>1 DEF SyncRows, RowFits, Placed
    <3>3. sync[w].passed = cursor \/ sync[w].day = sync[w].passed + 1
      BY <1>1, <2>1 DEF RowFits, Passes
    <3>4. cursor' \in 0..today
      BY <1>1, <3>1, <3>2, <3>3, AttendanceAssumption
    <3>5. QED
      BY <1>1, <2>1, <3>1, <3>4, Committed
  <2>2. CASE sync[w].phase # "locked"
    BY <1>1, <2>2, SameRows DEF Outage
  <2>3. QED
    BY <2>1, <2>2
<1>6. QED
  BY <1>1, <1>2, <1>3, <1>4, <1>5, WorkerStep

(* A task that fails, or whose worker dies.                                 *)
LEMMA FailKept ==
    ASSUME AttInv, NEW w \in SyncWorkers, Fail(w) \/ Die(w)
    PROVE  AttInv'
<1>1. /\ RowFits(sync[w]) /\ sync[w] \in SyncRows
      /\ today \in Days /\ today \in Nat /\ today' \in Nat /\ AttTyped /\ cursor \in 0..today
      /\ summary \in [Days -> Seq(Nat)] /\ UNCHANGED <<today, recorded, cursor, summary, reconciled>>
  BY DEF AttInv, AttTyped, Days, Fail, Die
<1> DEFINE expr == [Idle EXCEPT !.phase = "queued", !.step = "lock", !.attempt = sync[w].attempt + 1]
<1>2. sync[w].attempt + 1 \in Nat
  BY <1>1 DEF SyncRows
<1>3. /\ Idle \in SyncRows /\ Idle.phase = "idle" /\ Idle.step = "idle" /\ Idle.writes = NoWrites
      /\ expr \in SyncRows /\ expr.phase = "queued" /\ expr.step = "lock" /\ expr.writes = NoWrites
  <2>1. Idle \in SyncRows /\ Idle.phase = "idle" /\ Idle.step = "idle" /\ Idle.writes = NoWrites
    BY IdleRow
  <2>2. QED
    BY <1>2, <2>1 DEF SyncRows
<1>4. Become(w, Idle) \/ Become(w, expr)
  BY DEF Fail, Die
<1> HIDE DEF expr
<1>5. PICK row \in SyncRows : (row = Idle \/ row = expr) /\ Become(w, row)
  BY <1>3, <1>4
<1>6. row.phase \in {"idle", "queued"} /\ row.step \in {"idle", "lock"} /\ row.writes = NoWrites
  BY <1>3, <1>5
<1>7. RowFits(row)'
  BY <1>1, <1>6, RestingRow
<1>8. Improves
  BY <1>1, SameRows
<1>9. QED
  BY <1>1, <1>5, <1>6, <1>7, <1>8, WorkerStep
-----------------------------------------------------------------------------
(* The theorems.                                                            *)

(* The days begin with nothing stored.                                      *)
LEMMA AttBegins == AttInit => AttInv
<1> SUFFICES ASSUME AttInit PROVE AttInv
  OBVIOUS
<1>1. 1 \in Days /\ 0 \in 0..1 /\ [d \in Days |-> 0] \in [Days -> Nat] /\ today = 1
  BY AttendanceAssumption DEF Days, AttInit
<1>2. AttTyped
  <2>1. Idle \in SyncRows
    BY IdleRow
  <2>2. <<>> \in Seq(Nat)
    OBVIOUS
  <2>3. summary \in [Days -> Seq(Nat)] /\ sync \in [SyncWorkers -> SyncRows]
    BY <2>1, <2>2 DEF AttInit
  <2>4. QED
    BY <1>1, <2>3 DEF AttInit, AttTyped
<1>3. ASSUME NEW w \in SyncWorkers PROVE RowFits(sync[w]) /\ sync[w].phase = "idle"
  <2>1. sync[w] = Idle /\ Idle.phase = "idle" /\ Idle.step = "idle" /\ Idle.writes = NoWrites
    BY IdleRow DEF AttInit
  <2>2. QED
    BY <2>1 DEF RowFits, Placed, Fresh, Reconciles, Passes, NoWrites
<1>4. QED
  BY <1>2, <1>3 DEF AttInv, Holder, AttInit

(* At midnight nobody is at work.                                           *)
LEMMA MidnightKept ==
    ASSUME AttInv, Midnight
    PROVE  AttInv'
<1>1. /\ UNCHANGED <<recorded, summary, cursor, sync, reconciled>>
      /\ today \in Nat /\ today' = today + 1 /\ today' \in Days /\ cursor \in 0..today
      /\ \A w \in SyncWorkers : sync[w] = Idle
  BY AttendanceAssumption DEF Midnight, AttInv, AttTyped, Days
<1>2. cursor' \in 0..today'
  BY <1>1
<1>3. AttTyped'
  BY <1>1, <1>2 DEF AttInv, AttTyped
<1>4. ASSUME NEW w \in SyncWorkers PROVE RowFits(sync[w])'
  <2>1. sync'[w] = Idle /\ Idle.phase = "idle" /\ Idle.step = "idle" /\ Idle.writes = NoWrites
    BY <1>1, IdleRow
  <2>2. QED
    BY <2>1 DEF RowFits, Placed, Fresh, Reconciles, Passes, NoWrites
<1>5. \A d \in reconciled' : d \in Days /\ d < today' /\ (d \in WorkDays => Complete(d)')
  <2>1. \A d \in Days : d < today => d < today'
    BY <1>1, AttendanceAssumption DEF Days
  <2>2. \A d \in Days : Complete(d) => Complete(d)'
    BY <1>1 DEF Complete
  <2>3. QED
    BY <1>1, <2>1, <2>2 DEF AttInv
<1>6. QED
  BY <1>1, <1>3, <1>4, <1>5 DEF AttInv, Holder

(* The terminals only add to today's report.                                *)
LEMMA PassKept ==
    ASSUME AttInv, Pass
    PROVE  AttInv'
<1>1. /\ UNCHANGED <<today, summary, cursor, sync, reconciled>>
      /\ recorded' \in [Days -> Nat] /\ today \in Nat
      /\ \A d \in Days : d < today => recorded'[d] = recorded[d]
      /\ AttTyped
  BY DEF Pass, AttInv, AttTyped, Days
<1>2. Improves
  BY <1>1 DEF Improves, Complete
<1>3. AttTyped'
  BY <1>1 DEF AttTyped
<1>4. ASSUME NEW w \in SyncWorkers PROVE RowFits(sync[w])'
  <2>1. PICK row \in SyncRows : row = sync[w] /\ RowFits(row)
    BY DEF AttInv, AttTyped
  <2>2. RowFits(row)'
    BY <1>1, <1>2, <2>1, RowOfOthers
  <2>3. sync'[w] = row
    BY <1>1, <2>1
  <2>4. QED
    BY <2>2, <2>3 DEF RowFits, Placed, Fresh, Reconciles, Passes, Kept, Complete
<1>5. \A d \in reconciled' : d \in Days /\ d < today' /\ (d \in WorkDays => Complete(d)')
  BY <1>1, <1>2 DEF AttInv, Improves
<1>6. QED
  BY <1>1, <1>3, <1>4, <1>5 DEF AttInv, Holder

(* Every step keeps the invariant.                                          *)
LEMMA AttStep ==
    ASSUME AttInv, [AttNext]_attVars
    PROVE  AttInv'
<1>1. CASE Pass
  BY <1>1, PassKept
<1>2. CASE Midnight
  BY <1>2, MidnightKept
<1>3. CASE CacheExpires \/ UNCHANGED attVars
  <2>1. UNCHANGED <<today, recorded, summary, cursor, sync, reconciled>>
    BY <1>3 DEF CacheExpires, attVars
  <2>2. QED
    BY <2>1 DEF AttInv, AttTyped, RowFits, Placed, Fresh, Reconciles, Passes, Kept, Complete, Holder
<1>4. ASSUME NEW w \in SyncWorkers, SyncStep(w) PROVE AttInv'
  <2>1. CASE StartBackfill(w) \/ StartWatch(w) \/ Begin(w)
    BY <2>1, StartKept
  <2>2. CASE Fetch(w) \/ FetchNothing(w) \/ Resolve(w) \/ BuildMap(w) \/ UpsertFails(w)
    BY <2>2, LookedUp
  <2>3. CASE Store(w)
    BY <2>3, StoreLocked, StoreOutside
  <2>4. CASE Insert(w)
    BY <2>4, InsertKept
  <2>5. CASE Outage(w)
    BY <2>5, OutageKept
  <2>6. CASE Fail(w) \/ Die(w)
    BY <2>6, FailKept
  <2>7. CASE SkipDay(w) \/ LastPage(w)
    <3>1. /\ UNCHANGED <<today, recorded>> /\ DayDone(w)
          /\ sync[w].step \in {"fetch", "page"}
          /\ sync[w].step = "page" \/ sync[w].day \notin WorkDays
      BY <2>7 DEF SkipDay, LastPage
    <3>2. CASE sync[w].phase # "locked"
      BY <3>1, <3>2, TaskDone
    <3>3. CASE sync[w].phase = "locked"
      <4>1. sync[w].day < today \/ sync[w].day = today
        BY <3>1, <3>3 DEF DayDone
      <4>2. QED
        BY <3>1, <3>3, <4>1, NextDay, CursorDone
    <3>4. QED
      BY <3>2, <3>3
  <2>8. QED
    BY <1>4, <2>1, <2>2, <2>3, <2>4, <2>5, <2>6, <2>7 DEF SyncStep
<1>5. QED
  BY <1>1, <1>2, <1>3, <1>4 DEF AttNext

(* Whoever writes a day that is over writes all its events, and one worker  *)
(* at a time holds the cursor.                                              *)
THEOREM SyncInvariant == AttSpec => []AttInv
<1>1. AttInv /\ [AttNext]_attVars => AttInv'
  BY AttStep
<1>2. QED
  BY AttBegins, <1>1, PTL DEF AttSpec

(* The cursor only moves forward, and a working day it passes has a row     *)
(* after that commit, unless the run that passes it has passed over his     *)
(* record of that day: it was not in the report, nobody's, or not saved.    *)
THEOREM CursorFollowsRows == AttSpec => CursorPassesStoredDays
<1> DEFINE Moves ==
      /\ cursor' >= cursor
      /\ \A d \in WorkDays : cursor < d /\ d <= cursor' /\ (cursor # 0 \/ d = cursor') =>
            \/ summary'[d] # <<>>
            \/ \E w \in SyncWorkers : d \in sync[w].writes.skip
<1>1. ASSUME AttInv, UNCHANGED cursor PROVE Moves
  <2>1. cursor \in Nat /\ \A d \in WorkDays : d \in Nat
    BY <1>1, AttendanceAssumption DEF AttInv, AttTyped, Days
  <2>2. QED
    BY <1>1, <2>1
<1>2. ASSUME AttInv, NEW w \in SyncWorkers, Outage(w) \/ SkipDay(w) \/ LastPage(w), cursor' # cursor
      PROVE  Moves
  <2>1. /\ RowFits(sync[w]) /\ sync[w] \in SyncRows /\ cursor \in 0..today /\ today \in Nat
        /\ AttTyped /\ UNCHANGED <<today, recorded>>
    BY <1>2 DEF AttInv, AttTyped, Days, Outage, SkipDay, LastPage
  <2>2. /\ sync[w].phase = "locked" /\ Commit(w)
        /\ \/ cursor' = sync[w].passed
           \/ /\ cursor' = today /\ sync[w].day = today
              /\ sync[w].step = "page" \/ sync[w].day \notin WorkDays
    BY <1>2 DEF Outage, SkipDay, LastPage, DayDone
  <2>3. \A d \in Days : Kept(sync[w], d) => d \in sync[w].writes.skip \/ summary'[d] # <<>>
    BY <2>1, <2>2, Committed
  <2>4. sync[w].passed \in Nat /\ WorkDays \subseteq Days /\ Days \subseteq Nat
    BY <2>1, AttendanceAssumption DEF SyncRows, Days
  <2>5. Passes(sync[w])
    BY <2>1 DEF RowFits
  <2>6. cursor' >= cursor
    BY <2>1, <2>2, <2>4, <2>5 DEF Passes
  <2>7. ASSUME NEW d \in WorkDays, cursor < d, d <= cursor', cursor # 0 \/ d = cursor'
        PROVE  Kept(sync[w], d)
    <3>1. CASE cursor \in {0, today}
      BY <2>1, <2>2, <2>4, <2>5, <2>7, <3>1 DEF Passes
    <3>2. CASE cursor \notin {0, today}
      <4>1. d <= sync[w].passed \/ d = sync[w].day
        <5>1. sync[w].day = sync[w].passed + 1
          BY <2>2, <2>5, <3>2 DEF Passes
        <5>2. d <= sync[w].passed \/ (d <= today /\ today = sync[w].passed + 1)
          BY <2>2, <2>7, <5>1
        <5>3. d \in Nat
          BY <2>4, <2>7
        <5>4. QED
          BY <2>1, <2>4, <5>1, <5>2, <5>3
      <4>2. CASE d <= sync[w].passed
        BY <2>2, <2>5, <2>7, <4>2 DEF Passes
      <4>3. CASE d = sync[w].day /\ ~(d <= sync[w].passed)
        BY <2>2, <2>5, <2>7, <4>3 DEF Passes
      <4>4. QED
        BY <4>1, <4>2, <4>3
    <3>3. QED
      BY <3>1, <3>2
  <2>8. QED
    BY <2>3, <2>4, <2>6, <2>7
<1>3. ASSUME AttInv, [AttNext]_attVars PROVE [Moves]_attVars
  <2>1. CASE UNCHANGED cursor
    BY <1>1, <1>3, <2>1
  <2>2. CASE cursor' # cursor
    <3>1. PICK w \in SyncWorkers : Outage(w) \/ SkipDay(w) \/ LastPage(w)
      BY <1>3, <2>2 DEF AttNext, SyncStep, Pass, Midnight, CacheExpires, StartBackfill, StartWatch,
             Begin, Fetch, FetchNothing, Resolve, BuildMap, Store, Insert, UpsertFails, Fail, Die,
             attVars
    <3>2. QED
      BY <1>2, <1>3, <2>2, <3>1
  <2>3. QED
    BY <2>1, <2>2
<1>4. AttInv /\ [AttNext]_attVars => [Moves]_attVars
  BY <1>3
<1>5. QED
  BY SyncInvariant, <1>4, PTL DEF AttSpec, CursorPassesStoredDays

(* A day whose row a later run saved again keeps all its events, whatever   *)
(* runs after that, unless it has two rows.                                 *)
THEOREM ReconciledDaysStay == AttSpec => []ReconciledDayComplete
<1>1. AttInv => ReconciledDayComplete
  BY DEF AttInv, Complete, ReconciledDayComplete
<1>2. QED
  BY SyncInvariant, <1>1, PTL
-----------------------------------------------------------------------------
(****************************************************************************)
(* Business trips: what the operators on stops do.                          *)
(****************************************************************************)

(* A set of numbers has a smallest one.                                     *)
LEMMA Smallest ==
    ASSUME NEW S \in SUBSET Nat, S # {}
    PROVE  Min(S) \in S /\ \A n \in S : Min(S) <= n
<1>1. PICK m \in S : \A n \in S : <<n, m>> \notin OpToRel(<, Nat)
  BY WFMin, NatLessThanWellFounded
<1>2. ASSUME NEW n \in S PROVE m <= n
  <2>1. ~(n < m)
    BY <1>1 DEF OpToRel
  <2>2. QED
    BY <2>1
<1>3. QED
  BY <1>2 DEF Min

(* A bounded one has a largest.                                             *)
LEMMA Largest ==
    ASSUME NEW S \in SUBSET Nat, S # {}, NEW bound \in Nat, \A n \in S : n <= bound
    PROVE  Max(S) \in S /\ \A n \in S : n <= Max(S)
<1> DEFINE gaps == {n \in Nat : n <= bound /\ bound - n \in S}
<1>1. \A n \in S : bound - n \in gaps
  OBVIOUS
<1>2. gaps # {}
  BY <1>1
<1>3. PICK g \in gaps : \A n \in gaps : g <= n
  <2>1. gaps \in SUBSET Nat
    OBVIOUS
  <2>2. QED
    BY <1>2, <2>1, Smallest
<1>4. bound - g \in S /\ \A n \in S : n <= bound - g
  BY <1>1, <1>3
<1>5. QED
  BY <1>4 DEF Max

(* A finite set in some order.                                              *)
LEMMA InSomeOrder ==
    ASSUME NEW S, IsFiniteSet(S)
    PROVE  /\ Cardinality(S) \in Nat
           /\ SetToSeq(S) \in [1..Cardinality(S) -> S]
           /\ \A k, m \in 1..Cardinality(S) : SetToSeq(S)[k] = SetToSeq(S)[m] => k = m
<1>1. Cardinality(S) \in Nat /\ ExistsBijection(1..Cardinality(S), S)
  BY FS_CardinalityType
<1>2. PICK f \in [1..Cardinality(S) -> S] : IsInjective(f)
  BY <1>1 DEF ExistsBijection, Bijection, Injection
<1>3. SetToSeq(S) \in [1..Cardinality(S) -> S] /\ IsInjective(SetToSeq(S))
  BY <1>2 DEF SetToSeq
<1>4. QED
  BY <1>1, <1>3 DEF IsInjective

(* Taking an element out of a sequence leaves its end, unless it is that.   *)
LEMMA OneRemoved ==
    ASSUME NEW s \in Seq(Nat), NEW e
    PROVE  /\ RemoveFirst(s, e) \in Seq(Nat)
           /\ s # <<>> /\ Last(s) # e => RemoveFirst(s, e) # <<>> /\ Last(RemoveFirst(s, e)) = Last(s)
<1>1. Len(s) \in Nat /\ s \in [1..Len(s) -> Nat] /\ (s = <<>> <=> Len(s) = 0)
  BY LenProperties, EmptySeq
<1> DEFINE places == {k \in 1..Len(s) : s[k] = e}
<1>2. CASE places = {}
  BY <1>2 DEF RemoveFirst
<1>3. CASE places # {}
  <2>1. PICK k \in 1..Len(s) : s[k] = e /\ RemoveFirst(s, e) = RemoveAt(s, k)
    <3>1. Min(places) \in places
      <4>1. places \in SUBSET Nat
        BY <1>1
      <4>2. QED
        BY <1>3, <4>1, Smallest
    <3>2. RemoveFirst(s, e) = RemoveAt(s, Min(places))
      BY <1>3 DEF RemoveFirst, SelectInSeq
    <3>3. QED
      BY <3>1, <3>2
  <2> DEFINE front == SubSeq(s, 1, k - 1)
             back == SubSeq(s, k + 1, Len(s))
  <2>2. front \in Seq(Nat) /\ Len(front) = k - 1
    <3>1. 1 \in Int /\ k - 1 \in Int /\ \A i \in 1..(k - 1) : s[i] \in Nat
      BY <1>1
    <3>2. front \in Seq(Nat) /\ Len(front) = IF 1 <= k - 1 THEN (k - 1) - 1 + 1 ELSE 0
      BY <3>1, SubSeqProperties
    <3>3. QED
      BY <3>2
  <2>3. /\ back \in Seq(Nat) /\ Len(back) = Len(s) - k
        /\ \A i \in 1..(Len(s) - k) : back[i] = s[k + i]
    <3>1. k + 1 \in Int /\ Len(s) \in Int /\ \A i \in (k + 1)..Len(s) : s[i] \in Nat
      BY <1>1
    <3>2. /\ back \in Seq(Nat) /\ Len(back) = IF k + 1 <= Len(s) THEN Len(s) - (k + 1) + 1 ELSE 0
          /\ \A i \in 1..(Len(s) - (k + 1) + 1) : back[i] = s[k + 1 + i - 1]
      BY <3>1, SubSeqProperties
    <3>3. PICK n \in Nat : n = Len(s) /\ k \in 1..n
      BY <1>1
    <3>4. n - (k + 1) + 1 = n - k /\ (k + 1 <= n \/ n - k = 0) /\ \A i \in 1..(n - k) : k + 1 + i - 1 = k + i
      BY <3>3
    <3>5. Len(back) = n - k
      BY <3>2, <3>3, <3>4
    <3>6. \A i \in 1..(n - k) : back[i] = s[k + i]
      BY <3>2, <3>3, <3>4
    <3>7. QED
      BY <3>2, <3>3, <3>5, <3>6
  <2> HIDE DEF front, back
  <2>4. RemoveFirst(s, e) = front \o back
    BY <2>1 DEF RemoveAt, front, back
  <2>5. /\ front \o back \in Seq(Nat) /\ Len(front \o back) = Len(front) + Len(back)
        /\ \A i \in 1..(Len(front) + Len(back)) :
              (front \o back)[i] = IF i <= Len(front) THEN front[i] ELSE back[i - Len(front)]
    BY <2>2, <2>3, ConcatProperties
  <2>6. ASSUME s # <<>>, Last(s) # e
        PROVE  front \o back # <<>> /\ Last(front \o back) = Last(s)
    <3>1. k < Len(s)
      BY <1>1, <2>1, <2>6 DEF Last
    <3>2. Len(front \o back) = Len(s) - 1 /\ Len(s) - 1 > k - 1 /\ Len(s) - 1 > 0
      BY <1>1, <2>2, <2>3, <2>5, <3>1
    <3> DEFINE n == Len(s)
    <3>n. n \in Nat /\ k \in Nat /\ k < n /\ k >= 1 /\ n - k \in 1..(n - k)
      BY <1>1, <3>1
    <3>m. n = Len(s)
      OBVIOUS
    <3> HIDE DEF n
    <3>3. (front \o back)[Len(s) - 1] = back[Len(s) - k]
      <4>1. n - 1 \in 1..(Len(front) + Len(back)) /\ ~(n - 1 <= Len(front)) /\ n - 1 - Len(front) = n - k
        BY <2>2, <2>3, <3>n, <3>m
      <4>2. (front \o back)[n - 1] = back[n - 1 - Len(front)]
        BY <2>5, <4>1
      <4>3. QED
        BY <3>m, <4>1, <4>2
    <3>4. back[Len(s) - k] = s[Len(s)]
      <4>1. back[n - k] = s[k + (n - k)]
        BY <2>3, <3>n, <3>m
      <4>2. k + (n - k) = n
        BY <3>n
      <4>3. QED
        BY <3>m, <4>1, <4>2
    <3>5. front \o back # <<>>
      BY <2>5, <3>2, EmptySeq
    <3>6. QED
      BY <3>2, <3>3, <3>4, <3>5 DEF Last
  <2>7. QED
    BY <2>4, <2>5, <2>6
<1>4. QED
  BY <1>2, <1>3
-----------------------------------------------------------------------------
(****************************************************************************)
(* Business trips: the invariant.                                           *)
(****************************************************************************)

Places == Regions \cup {HomeRegion}
StopRows == [sender : BOOLEAN, region : Places, arrived : BOOLEAN, left : BOOLEAN]
Calls ==
    {call \in [step : Steps \cup Places, stop : 0..MaxStop, row : StopRows, stale : BOOLEAN] :
       call.step \in {"arrive", "leave"} => call.stop # 0}

StopsTyped == DOMAIN stops \subseteq 1..MaxStop /\ stops \in [DOMAIN stops -> StopRows]

TripTyped ==
    /\ route \in SUBSET Regions
    /\ StopsTyped
    /\ acted \in Seq(Nat)
    /\ requests \in [TripRequests -> Calls]

(* A mark nobody has overtaken will be made of the stop as it is.           *)
Marks(call) == call.step \in {"arrive", "leave"} /\ ~call.stale

Loaded(call) ==
    Marks(call) =>
      /\ call.stop \in DOMAIN stops /\ stops[call.stop] = call.row
      /\ call.step = "arrive" =>
            (LastMarked # 0 => stops[LastMarked].left) /\ FirstSenderLeft /\ ~call.row.arrived
      /\ call.step = "leave" => (call.row.arrived \/ call.row.sender) /\ ~call.row.left

HasSender == DOMAIN stops # {} => SenderStops # {}

SenderFirst == "repeated" \in disorder \/ \A s \in SenderStops, i \in DOMAIN stops : s <= i

Departed == \A i \in RegionStops : Visited(stops[i]) => FirstSenderLeft

OpenIsLatest ==
    \/ disorder \cap {"repeated", "reopened"} # {}
    \/ \A i, j \in RegionStops : stops[i].region = stops[j].region /\ i < j => stops[i].left

PlaceIsLast ==
    \/ disorder \cap {"repeated", "reopened earlier"} # {}
    \/ \A i \in RegionStops : stops[i].arrived /\ ~stops[i].left => acted # <<>> /\ Last(acted) = i

InOrder == HasSender /\ SenderFirst /\ Departed /\ OpenIsLatest /\ PlaceIsLast

TripInv ==
    /\ TripTyped
    /\ \A r \in TripRequests : Loaded(requests[r])
    /\ "overtaken" \in disorder \/ InOrder

(* The first sender's stop, without the operator that picks it.             *)
FirstLeft == \A s \in SenderStops : (\A t \in SenderStops : s <= t) => stops[s].left

(* The two say the same.                                                    *)
LEMMA FirstSender == StopsTyped => (FirstSenderLeft <=> FirstLeft)
<1> SUFFICES ASSUME StopsTyped PROVE FirstSenderLeft <=> FirstLeft
  OBVIOUS
<1>1. SenderStops \in SUBSET Nat
  BY DEF StopsTyped, SenderStops
<1>2. CASE SenderStops = {}
  BY <1>2 DEF FirstSenderLeft, FirstLeft
<1>3. CASE SenderStops # {}
  <2>1. Min(SenderStops) \in SenderStops /\ \A t \in SenderStops : Min(SenderStops) <= t
    BY <1>1, <1>3, Smallest
  <2>2. PICK m \in SenderStops : m = Min(SenderStops) /\ \A t \in SenderStops : m <= t
    BY <2>1
  <2>3. \A s \in SenderStops : (\A t \in SenderStops : s <= t) => s = m
    BY <1>1, <2>2
  <2>4. QED
    BY <1>3, <2>2, <2>3 DEF FirstSenderLeft, FirstLeft
<1>4. QED
  BY <1>2, <1>3

(* No stop has the id 0.                                                    *)
LEMMA StopIds ==
    ASSUME TripTyped
    PROVE  \A i \in DOMAIN stops : i # 0
BY TripAssumption DEF TripTyped, StopsTyped

(* A new id is greater than all there are.                                  *)
LEMMA NewIds ==
    ASSUME TripTyped
    PROVE  NextId \in Nat /\ NextId >= 1 /\ \A i \in DOMAIN stops : i < NextId
<1> DEFINE ids == {0} \cup DOMAIN stops \cup {requests[r].stop : r \in TripRequests}
<1>1. ids \in SUBSET Nat /\ \A n \in ids : n <= MaxStop
  BY TripAssumption DEF TripTyped, StopsTyped, Calls
<1>2. 0 \in ids /\ DOMAIN stops \subseteq ids /\ MaxStop \in Nat
  BY TripAssumption
<1>3. NextId = Max(ids) + 1
  BY DEF NextId
<1> HIDE DEF ids
<1>4. PICK m \in Nat : m = Max(ids) /\ \A n \in ids : n <= m
  <2>1. Max(ids) \in ids /\ \A n \in ids : n <= Max(ids)
    BY <1>1, <1>2, Largest
  <2>2. QED
    BY <1>1, <2>1
<1>5. \A i \in DOMAIN stops : i \in Nat /\ i <= m
  BY <1>1, <1>2, <1>4
<1>6. QED
  BY <1>3, <1>4, <1>5

(* Rows that are added get new ids.                                         *)
LEMMA RowsAdded ==
    ASSUME TripTyped, NEW rows, DOMAIN rows \subseteq DOMAIN stops, rows \in [DOMAIN rows -> StopRows],
           NEW new \in Seq(StopRows), Fits(Len(new)), stops' = Added(rows, new)
    PROVE  /\ StopsTyped' /\ DOMAIN rows \subseteq DOMAIN stops'
           /\ \A i \in DOMAIN rows : stops'[i] = rows[i]
           /\ \A i \in DOMAIN stops' \ DOMAIN rows :
                 /\ i \in Nat /\ \A j \in DOMAIN stops : j < i
                 /\ \E k \in 1..Len(new) : i = NextId + k - 1 /\ stops'[i] = new[k]
           /\ \A k \in 1..Len(new) : NextId + k - 1 \in DOMAIN stops' \ DOMAIN rows
<1>1. PICK next \in Nat : next = NextId /\ next >= 1 /\ \A i \in DOMAIN stops : i < next
  BY NewIds
<1>2. PICK n \in Nat : n = Len(new) /\ new \in [1..n -> StopRows]
  BY LenProperties
<1>3. next + n <= MaxStop + 1 /\ MaxStop \in Nat /\ DOMAIN new = 1..n
  BY <1>1, <1>2, TripAssumption DEF Fits
<1>4. stops' = [i \in DOMAIN rows \cup {next + k - 1 : k \in 1..n} |->
                  IF i \in DOMAIN rows THEN rows[i] ELSE new[i - next + 1]]
  BY <1>1, <1>2, <1>3 DEF Added
<1>5. DOMAIN stops \subseteq 1..MaxStop
  BY DEF TripTyped, StopsTyped
<1>6. ASSUME NEW k \in 1..n
      PROVE  /\ next + k - 1 \in 1..MaxStop /\ next + k - 1 \notin DOMAIN rows
             /\ next + k - 1 \in DOMAIN stops' /\ stops'[next + k - 1] = new[k]
             /\ \A j \in DOMAIN stops : j < next + k - 1
  <2>1. next + k - 1 \in 1..MaxStop /\ next + k - 1 >= next /\ next + k - 1 - next + 1 = k
    BY <1>1, <1>3
  <2>2. \A j \in DOMAIN stops : j < next + k - 1
    BY <1>1, <1>5, <2>1
  <2>3. next + k - 1 \notin DOMAIN rows
    BY <1>5, <2>1, <2>2
  <2>4. QED
    BY <1>4, <2>1, <2>2, <2>3
<1>7. DOMAIN stops' = DOMAIN rows \cup {next + k - 1 : k \in 1..n}
  BY <1>4
<1>8. \A i \in DOMAIN rows : stops'[i] = rows[i]
  BY <1>4
<1>9. StopsTyped'
  <2>1. DOMAIN stops' \subseteq 1..MaxStop
    BY <1>5, <1>6, <1>7
  <2>2. \A i \in DOMAIN stops' : stops'[i] \in StopRows
    BY <1>2, <1>6, <1>7, <1>8
  <2>3. QED
    BY <1>4, <2>1, <2>2 DEF StopsTyped
<1>10. QED
  BY <1>1, <1>2, <1>5, <1>6, <1>7, <1>8, <1>9

(* One row for each region.                                                 *)
LEMMA RowsOfRegions ==
    ASSUME NEW S \in SUBSET Places
    PROVE  /\ RegionRows(S) \in Seq(StopRows) /\ Len(RegionRows(S)) = Cardinality(S)
           /\ Cardinality(S) \in Nat
           /\ \A k \in 1..Cardinality(S) :
                 /\ ~RegionRows(S)[k].sender /\ ~Visited(RegionRows(S)[k])
                 /\ RegionRows(S)[k].region \in S
           /\ \A k, m \in 1..Cardinality(S) :
                 RegionRows(S)[k].region = RegionRows(S)[m].region => k = m
<1>1. IsFiniteSet(S)
  <2>1. IsFiniteSet(Places)
    BY TripAssumption, FS_AddElement DEF Places
  <2>2. QED
    BY <2>1, FS_Subset
<1>2. PICK n \in Nat : n = Cardinality(S)
  BY <1>1, InSomeOrder
<1>o. PICK order \in [1..n -> S] :
         order = SetToSeq(S) /\ \A k, m \in 1..n : order[k] = order[m] => k = m
  BY <1>1, <1>2, InSomeOrder
<1>3. RegionRows(S) = [k \in 1..n |-> [NoStop EXCEPT !.region = order[k]]]
  BY <1>o DEF RegionRows
<1>4. ASSUME NEW k \in 1..n
      PROVE  /\ [NoStop EXCEPT !.region = order[k]] \in StopRows
             /\ RegionRows(S)[k].region = order[k]
             /\ ~RegionRows(S)[k].sender /\ ~Visited(RegionRows(S)[k])
  <2>1. order[k] \in S /\ order[k] \in Places
    BY <1>o
  <2>2. QED
    BY <1>3, <2>1 DEF NoStop, StopRows, Places, Visited
<1>5. RegionRows(S) \in Seq(StopRows) /\ Len(RegionRows(S)) = n
  <2>1. RegionRows(S) \in [1..n -> StopRows]
    BY <1>3, <1>4
  <2>2. QED
    BY <2>1
<1>6. \A k \in 1..n : RegionRows(S)[k].region \in S
  BY <1>o, <1>4
<1>7. \A k, m \in 1..n : RegionRows(S)[k].region = RegionRows(S)[m].region => k = m
  BY <1>o, <1>4
<1>8. QED
  BY <1>2, <1>4, <1>5, <1>6, <1>7

(* A write makes what others have loaded stale.                             *)
LEMMA OthersStale ==
    ASSUME TripTyped, NEW calls \in [TripRequests -> Calls], NEW r, requests' = Outdated(calls, r),
           \A q \in TripRequests : q = r => ~Marks(calls[q])
    PROVE  /\ requests' \in [TripRequests -> Calls]
           /\ \A q \in TripRequests : Loaded(requests[q])'
<1>1. ASSUME NEW q \in TripRequests PROVE requests'[q] \in Calls /\ ~Marks(requests'[q])
  <2>1. PICK call \in Calls : call = calls[q]
    OBVIOUS
  <2>2. requests'[q] = IF q = r \/ call = NoRequest THEN call ELSE [call EXCEPT !.stale = TRUE]
    BY <2>1 DEF Outdated
  <2>3. CASE q = r \/ call = NoRequest
    BY <2>1, <2>2, <2>3 DEF Marks, NoRequest
  <2>4. CASE ~(q = r \/ call = NoRequest)
    BY <2>2, <2>4 DEF Marks, Calls
  <2>5. QED
    BY <2>3, <2>4
<1>2. requests' \in [TripRequests -> Calls]
  BY <1>1 DEF Outdated
<1>3. ASSUME NEW q \in TripRequests PROVE Loaded(requests[q])'
  BY <1>1 DEF Loaded, Marks
<1>4. QED
  BY <1>2, <1>3
(* Stops nobody has been to come and go.                                    *)
LEMMA GrownKept ==
    ASSUME TripTyped, InOrder, StopsTyped', UNCHANGED acted, disorder \subseteq disorder',
           SenderStops # {}, SenderStops \subseteq DOMAIN stops',
           \A i \in DOMAIN stops \cap DOMAIN stops' : stops'[i] = stops[i],
           \A i \in DOMAIN stops' \ DOMAIN stops :
              (\A j \in DOMAIN stops : j < i) /\ ~Visited(stops'[i]),
           \/ "repeated" \in disorder'
           \/ \A i \in DOMAIN stops' \ DOMAIN stops :
                 /\ ~stops'[i].sender
                 /\ \A j \in DOMAIN stops' :
                       stops'[j].region = stops'[i].region /\ j < i /\ ~stops'[j].sender
                         => stops'[j].left \/ "reopened" \in disorder
    PROVE  InOrder'
<1>1. DOMAIN stops \subseteq Nat /\ DOMAIN stops' \subseteq Nat
  BY DEF TripTyped, StopsTyped
<1>2. SenderStops \subseteq SenderStops' /\ SenderStops' \cap DOMAIN stops \subseteq SenderStops
  BY DEF SenderStops
<1>3. ASSUME NEW i \in RegionStops', i \in DOMAIN stops PROVE i \in RegionStops /\ stops'[i] = stops[i]
  BY <1>3 DEF RegionStops, SenderStops
<1>4. HasSender'
  BY <1>2 DEF HasSender
<1>5. SenderFirst'
  <2> SUFFICES ASSUME "repeated" \notin disorder' PROVE SenderFirst'
    BY DEF SenderFirst
  <2>1. \A s \in SenderStops : \A i \in DOMAIN stops : s <= i
    BY DEF InOrder, SenderFirst
  <2>2. SenderStops' \subseteq SenderStops
    BY <1>2 DEF SenderStops
  <2>3. \A s \in SenderStops, i \in DOMAIN stops' : s <= i
    <3> SUFFICES ASSUME NEW s \in SenderStops, NEW i \in DOMAIN stops' PROVE s <= i
      OBVIOUS
    <3>1. s \in DOMAIN stops
      BY DEF SenderStops
    <3>2. CASE i \in DOMAIN stops
      BY <2>1, <3>2
    <3>3. CASE i \notin DOMAIN stops
      <4>1. s < i /\ s \in Nat /\ i \in Nat
        BY <1>1, <3>1, <3>3
      <4>2. QED
        BY <4>1
    <3>4. QED
      BY <3>2, <3>3
  <2>4. QED
    BY <2>2, <2>3 DEF SenderFirst
<1>6. FirstSenderLeft => FirstSenderLeft'
  <2>1. FirstSenderLeft <=> FirstLeft
    BY FirstSender DEF TripTyped
  <2>2. (StopsTyped => (FirstSenderLeft <=> FirstLeft))'
    BY FirstSender, PTL
  <2>3. ASSUME FirstLeft, NEW s \in SenderStops', \A t \in SenderStops' : s <= t PROVE stops'[s].left
    <3>1. PICK t \in SenderStops : TRUE
      OBVIOUS
    <3>2. s <= t /\ t \in DOMAIN stops /\ s \in Nat /\ t \in Nat /\ s \in DOMAIN stops'
      BY <1>1, <1>2, <2>3 DEF SenderStops
    <3>3. s \in DOMAIN stops
      <4>1. s \notin DOMAIN stops => t < s
        BY <3>2
      <4>2. QED
        BY <3>2, <4>1
    <3>4. s \in SenderStops /\ stops'[s] = stops[s]
      BY <1>2, <3>2, <3>3
    <3>5. \A u \in SenderStops : s <= u
      BY <1>2, <2>3
    <3>6. QED
      BY <2>3, <3>4, <3>5 DEF FirstLeft
  <2>4. FirstLeft => FirstLeft'
    BY <2>3 DEF FirstLeft
  <2>5. QED
    BY <2>1, <2>2, <2>4
<1>7. Departed'
  <2> SUFFICES ASSUME NEW i \in RegionStops', Visited(stops'[i]) PROVE FirstSenderLeft'
    BY DEF Departed, Visited
  <2>1. i \in DOMAIN stops
    BY DEF RegionStops
  <2>2. i \in RegionStops /\ Visited(stops[i])
    BY <1>3, <2>1
  <2>3. QED
    BY <1>6, <2>2 DEF InOrder, Departed
<1>8. OpenIsLatest'
  <2> SUFFICES ASSUME "repeated" \notin disorder', "reopened" \notin disorder', NEW i \in RegionStops',
                      NEW j \in RegionStops', stops'[i].region = stops'[j].region, i < j
               PROVE  stops'[i].left
    BY DEF OpenIsLatest
  <2>1. i \in DOMAIN stops' /\ j \in DOMAIN stops' /\ ~stops'[i].sender /\ i \in Nat /\ j \in Nat
    BY <1>1 DEF RegionStops, SenderStops
  <2>2. CASE j \notin DOMAIN stops
    BY <2>1, <2>2
  <2>3. CASE j \in DOMAIN stops
    <3>1. i \in DOMAIN stops
      <4>1. i \notin DOMAIN stops => j < i
        BY <2>1, <2>3
      <4>2. QED
        BY <2>1, <4>1
    <3>2. i \in RegionStops /\ j \in RegionStops /\ stops'[i] = stops[i] /\ stops'[j] = stops[j]
      BY <1>3, <2>3, <3>1
    <3>3. QED
      BY <3>2 DEF InOrder, OpenIsLatest
  <2>4. QED
    BY <2>2, <2>3
<1>9. PlaceIsLast'
  <2> SUFFICES ASSUME disorder' \cap {"repeated", "reopened earlier"} = {}, NEW i \in RegionStops',
                      stops'[i].arrived, ~stops'[i].left
               PROVE  acted' # <<>> /\ Last(acted') = i
    BY DEF PlaceIsLast
  <2>1. i \in DOMAIN stops
    BY DEF RegionStops, Visited
  <2>2. i \in RegionStops /\ stops'[i] = stops[i]
    BY <1>3, <2>1
  <2>3. QED
    BY <2>2 DEF InOrder, PlaceIsLast
<1>10. QED
  BY <1>4, <1>5, <1>7, <1>8, <1>9 DEF InOrder
(* Who writes without a request makes all of them stale.                    *)
LEMMA ElsewhereStale ==
    ASSUME TripTyped, Elsewhere
    PROVE  /\ requests' \in [TripRequests -> Calls]
           /\ \A q \in TripRequests : Loaded(requests[q])'
<1>1. requests \in [TripRequests -> Calls] /\ requests' = Outdated(requests, 0)
  BY DEF TripTyped, Elsewhere
<1>2. \A q \in TripRequests : q # 0
  BY TripAssumption
<1>3. QED
  BY <1>1, <1>2, OthersStale

(* A request that writes goes on to another step, or ends.                  *)
LEMMA WriterGoesOn ==
    ASSUME TripTyped, NEW r \in TripRequests, NEW row \in Calls, ~Marks(row), Continue(r, row)
    PROVE  /\ requests' \in [TripRequests -> Calls]
           /\ \A q \in TripRequests : Loaded(requests[q])'
<1> DEFINE calls == [requests EXCEPT ![r] = row]
<1>1. calls \in [TripRequests -> Calls] /\ calls[r] = row /\ requests' = Outdated(calls, r)
  BY DEF TripTyped, Continue
<1> HIDE DEF calls
<1>2. \A q \in TripRequests : q = r => ~Marks(calls[q])
  BY <1>1
<1>3. QED
  BY <1>1, <1>2, OthersStale

(* The certificate is created.                                              *)
LEMMA CreateKept ==
    ASSUME TripInv, CreateTripVerification
    PROVE  TripInv'
<1> DEFINE sender == [NoStop EXCEPT !.sender = TRUE]
           regions == RegionRows(route)
           new == <<sender>> \o regions
<1>1. /\ TripTyped /\ UNCHANGED <<route, acted>> /\ Elsewhere /\ stops' = Added(stops, new)
      /\ Fits(1 + Cardinality(route))
      /\ disorder' = IF DOMAIN stops = {} THEN disorder ELSE disorder \cup {"repeated"}
  BY DEF TripInv, CreateTripVerification
<1>2. sender \in StopRows /\ sender.sender /\ ~Visited(sender)
  BY DEF NoStop, StopRows, Places, Visited
<1>3. PICK n \in Nat :
         /\ n = Cardinality(route) /\ regions \in Seq(StopRows) /\ Len(regions) = n
         /\ \A k \in 1..n : ~regions[k].sender /\ ~Visited(regions[k])
         /\ \A k, m \in 1..n : regions[k].region = regions[m].region => k = m
  <2>1. route \in SUBSET Places
    BY <1>1 DEF TripTyped, Places
  <2>2. QED
    BY <2>1, RowsOfRegions
<1> HIDE DEF sender, regions
<1>4. /\ new \in Seq(StopRows) /\ Len(new) = 1 + n /\ new[1] = sender
      /\ \A k \in 2..(n + 1) : new[k] = regions[k - 1]
  <2>1. <<sender>> \in Seq(StopRows) /\ Len(<<sender>>) = 1 /\ <<sender>>[1] = sender
    BY <1>2
  <2>2. /\ new \in Seq(StopRows) /\ Len(new) = 1 + n
        /\ \A k \in 1..(1 + n) : new[k] = IF k <= 1 THEN <<sender>>[k] ELSE regions[k - 1]
    BY <1>3, <2>1, ConcatProperties
  <2>3. QED
    BY <2>1, <2>2
<1> HIDE DEF new
<1>5. /\ stops \in [DOMAIN stops -> StopRows] /\ Fits(Len(new))
  BY <1>1, <1>3, <1>4 DEF TripTyped, StopsTyped
<1>6. PICK next \in Nat : next = NextId
  BY <1>1, NewIds
<1>7. /\ StopsTyped' /\ DOMAIN stops \subseteq DOMAIN stops'
      /\ \A i \in DOMAIN stops : stops'[i] = stops[i]
      /\ \A i \in DOMAIN stops' \ DOMAIN stops :
            /\ i \in Nat /\ \A j \in DOMAIN stops : j < i
            /\ \E k \in 1..(1 + n) : i = next + k - 1 /\ stops'[i] = new[k]
      /\ \A k \in 1..(1 + n) : next + k - 1 \in DOMAIN stops' \ DOMAIN stops
  BY <1>1, <1>4, <1>5, <1>6, RowsAdded
<1>8. \A i \in DOMAIN stops' \ DOMAIN stops : ~Visited(stops'[i])
  <2>1. \A k \in 1..(1 + n) : ~Visited(new[k])
    <3> SUFFICES ASSUME NEW k \in 1..(1 + n) PROVE ~Visited(new[k])
      OBVIOUS
    <3>1. k = 1 \/ (k \in 2..(n + 1) /\ k - 1 \in 1..n)
      OBVIOUS
    <3>2. QED
      BY <1>2, <1>3, <1>4, <3>1
  <2>2. QED
    BY <1>7, <2>1
<1>9. TripTyped' /\ \A q \in TripRequests : Loaded(requests[q])'
  BY <1>1, <1>7, ElsewhereStale DEF TripTyped
<1>10. ASSUME "overtaken" \notin disorder' PROVE InOrder'
  <2>1. InOrder /\ disorder \subseteq disorder'
    BY <1>1, <1>10 DEF TripInv
  <2>2. CASE DOMAIN stops # {}
    <3>1. SenderStops # {} /\ SenderStops \subseteq DOMAIN stops'
      BY <1>7, <2>1, <2>2 DEF InOrder, HasSender, SenderStops
    <3>2. "repeated" \in disorder'
      BY <1>1, <2>2
    <3>3. QED
      BY <1>1, <1>7, <1>8, <2>1, <3>1, <3>2, GrownKept
  <2>3. CASE DOMAIN stops = {}
    <3>1. next \in DOMAIN stops' /\ stops'[next] = sender
      <4>1. next + 1 - 1 = next /\ 1 \in 1..(1 + n) /\ \A k \in 1..(1 + n) : next + k - 1 = next => k = 1
        BY <1>6
      <4>2. next \in DOMAIN stops' \ DOMAIN stops
        BY <1>7, <4>1
      <4>3. QED
        BY <1>4, <1>7, <4>1, <4>2
    <3>2. ASSUME NEW i \in DOMAIN stops', i # next
          PROVE  \E k \in 1..n : i = next + k /\ stops'[i] = regions[k]
      <4>1. PICK k \in 1..(1 + n) : i = next + k - 1 /\ stops'[i] = new[k]
        BY <1>7, <2>3
      <4>2. k \in 2..(n + 1) /\ k - 1 \in 1..n /\ next + (k - 1) = i
        BY <1>6, <3>2, <4>1
      <4>3. QED
        BY <1>4, <4>1, <4>2
    <3>3. SenderStops' = {next}
      BY <1>2, <1>3, <3>1, <3>2 DEF SenderStops
    <3>4. \A i \in DOMAIN stops' : next <= i
      BY <1>6, <3>2
    <3>5. \A i, j \in DOMAIN stops' \ {next} : stops'[i].region = stops'[j].region => i = j
      BY <1>3, <3>2
    <3>6. \A i \in DOMAIN stops' : ~stops'[i].arrived /\ ~stops'[i].left
      BY <1>8, <2>3 DEF Visited
    <3>7. HasSender' /\ SenderFirst'
      BY <3>3, <3>4 DEF HasSender, SenderFirst
    <3>8. Departed' /\ PlaceIsLast'
      BY <3>6 DEF Departed, PlaceIsLast, RegionStops, Visited
    <3>9. OpenIsLatest'
      <4>1. ASSUME NEW i \in RegionStops', NEW j \in RegionStops', stops'[i].region = stops'[j].region, i < j
            PROVE  FALSE
        <5>1. i \in DOMAIN stops' \ {next} /\ j \in DOMAIN stops' \ {next} /\ i \in Nat
          BY <1>7, <2>3, <3>3 DEF RegionStops
        <5>2. i = j
          BY <3>5, <4>1, <5>1
        <5>3. QED
          BY <4>1, <5>1, <5>2
      <4>2. QED
        BY <4>1 DEF OpenIsLatest
    <3>10. QED
      BY <3>7, <3>8, <3>9 DEF InOrder
  <2>4. QED
    BY <2>2, <2>3
<1>11. QED
  BY <1>9, <1>10 DEF TripInv
(* The route is changed, with new regions or none.                          *)
LEMMA RerouteKept ==
    ASSUME TripInv, NEW regions \in SUBSET Regions, Reroute(regions) \/ UpdateTripVerifications
    PROVE  TripInv'
<1>1. /\ TripTyped /\ UNCHANGED <<route, acted, disorder>> /\ Elsewhere /\ SenderStops # {}
      /\ stops \in [DOMAIN stops -> StopRows] /\ DOMAIN stops \subseteq Nat
  BY DEF TripInv, Reroute, UpdateTripVerifications, TripTyped, StopsTyped
<1>2. PICK D \in SUBSET DOMAIN stops, missing \in SUBSET Regions :
         /\ SenderStops \subseteq D
         /\ \A i \in D : stops[i].region \notin missing
         /\ \/ /\ stops' = Added([i \in D |-> stops[i]], RegionRows(missing))
               /\ Fits(Cardinality(missing))
            \/ stops' = [i \in D |-> stops[i]]
  <2>1. \A S : SenderStops \subseteq DOMAIN stops \ Dropped(S)
    BY DEF Dropped, RegionStops, SenderStops
  <2>2. CASE Reroute(regions)
    <3>1. regions \ {stops[i].region : i \in DOMAIN stops} \in SUBSET Regions
      OBVIOUS
    <3>2. QED
      BY <2>1, <2>2, <3>1 DEF Reroute
  <2>3. CASE UpdateTripVerifications
    <3>1. {} \in SUBSET Regions
      OBVIOUS
    <3>2. QED
      BY <2>1, <2>3, <3>1 DEF UpdateTripVerifications
  <2>4. QED
    BY <2>2, <2>3
<1> DEFINE rows == [i \in D |-> stops[i]]
<1>3. rows \in [DOMAIN rows -> StopRows] /\ DOMAIN rows = D /\ \A i \in D : rows[i] = stops[i]
  BY <1>1
<1> HIDE DEF rows
<1>4. /\ StopsTyped' /\ D \subseteq DOMAIN stops'
      /\ \A i \in D : stops'[i] = stops[i]
      /\ \A i \in DOMAIN stops' \ D :
            /\ i \in Nat /\ \A j \in DOMAIN stops : j < i
            /\ ~stops'[i].sender /\ ~Visited(stops'[i]) /\ stops'[i].region \in missing
      /\ \A i, j \in DOMAIN stops' \ D : stops'[i].region = stops'[j].region => i = j
  <2>1. CASE stops' = rows
    BY <1>1, <1>3, <2>1 DEF TripTyped, StopsTyped
  <2>2. CASE stops' = Added(rows, RegionRows(missing)) /\ Fits(Cardinality(missing))
    <3> DEFINE new == RegionRows(missing)
    <3>1. PICK n \in Nat :
             /\ n = Cardinality(missing) /\ new \in Seq(StopRows) /\ Len(new) = n
             /\ \A k \in 1..n : ~new[k].sender /\ ~Visited(new[k]) /\ new[k].region \in missing
             /\ \A k, m \in 1..n : new[k].region = new[m].region => k = m
      <4>1. missing \in SUBSET Places
        BY DEF Places
      <4>2. QED
        BY <4>1, RowsOfRegions
    <3> HIDE DEF new
    <3>2. stops' = Added(rows, new) /\ Fits(Len(new)) /\ DOMAIN rows \subseteq DOMAIN stops
      BY <1>3, <2>2, <3>1 DEF new
    <3>3. /\ StopsTyped' /\ D \subseteq DOMAIN stops'
          /\ \A i \in D : stops'[i] = rows[i]
          /\ \A i \in DOMAIN stops' \ D :
                /\ i \in Nat /\ \A j \in DOMAIN stops : j < i
                /\ \E k \in 1..n : i = NextId + k - 1 /\ stops'[i] = new[k]
      BY <1>1, <1>3, <3>1, <3>2, RowsAdded
    <3>4. ASSUME NEW i \in DOMAIN stops' \ D
          PROVE  ~stops'[i].sender /\ ~Visited(stops'[i]) /\ stops'[i].region \in missing
      BY <3>1, <3>3
    <3>5. ASSUME NEW i \in DOMAIN stops' \ D, NEW j \in DOMAIN stops' \ D, stops'[i].region = stops'[j].region
          PROVE  i = j
      BY <3>1, <3>3, <3>5
    <3>6. QED
      BY <1>3, <3>3, <3>4, <3>5
  <2>3. QED
    BY <1>2, <2>1, <2>2 DEF rows
<1>5. TripTyped' /\ \A q \in TripRequests : Loaded(requests[q])'
  BY <1>1, <1>4, ElsewhereStale DEF TripTyped
<1>6. DOMAIN stops' \cap DOMAIN stops \subseteq D
  <2>1. ASSUME NEW i \in DOMAIN stops, i \in DOMAIN stops', i \notin D PROVE FALSE
    <3>1. i < i /\ i \in Nat
      BY <1>1, <1>4, <2>1
    <3>2. QED
      BY <3>1
  <2>2. QED
    BY <2>1
<1>7. ASSUME NEW i \in DOMAIN stops' \ DOMAIN stops, NEW j \in DOMAIN stops',
             stops'[j].region = stops'[i].region, j < i
      PROVE  FALSE
  <2>1. i \in DOMAIN stops' \ D /\ i \in Nat
    BY <1>4
  <2>2. j \in DOMAIN stops' \ D
    BY <1>2, <1>4, <1>7, <2>1
  <2>3. i = j
    BY <1>4, <1>7, <2>1, <2>2
  <2>4. QED
    BY <1>7, <2>1, <2>3
<1>8. ASSUME "overtaken" \notin disorder' PROVE InOrder'
  <2>1. InOrder
    BY <1>1, <1>8 DEF TripInv
  <2>2. \A i \in DOMAIN stops \cap DOMAIN stops' : stops'[i] = stops[i]
    BY <1>4, <1>6
  <2>3. \A i \in DOMAIN stops' \ DOMAIN stops :
           (\A j \in DOMAIN stops : j < i) /\ ~Visited(stops'[i]) /\ ~stops'[i].sender
    BY <1>4
  <2>4. SenderStops \subseteq DOMAIN stops' /\ disorder \subseteq disorder'
    BY <1>1, <1>2, <1>4
  <2>5. QED
    BY <1>1, <1>4, <1>7, <2>1, <2>2, <2>3, <2>4, GrownKept
<1>9. QED
  BY <1>5, <1>8 DEF TripInv

(* A request that goes on or ends is not about to mark.                     *)
LEMMA GoingOn ==
    ASSUME NEW call \in Calls
    PROVE  /\ NoRequest \in Calls /\ ~Marks(NoRequest)
           /\ \A step \in {"on_trip", "reporting"} \cup Places :
                 [call EXCEPT !.step = step] \in Calls /\ ~Marks([call EXCEPT !.step = step])
<1>1. NoRequest \in Calls /\ ~Marks(NoRequest)
  <2>1. NoStop \in StopRows /\ 0 \in 0..MaxStop
    BY TripAssumption DEF NoStop, StopRows, Places
  <2>2. QED
    BY <2>1 DEF NoRequest, Calls, Marks, Steps
<1>2. ASSUME NEW step \in {"on_trip", "reporting"} \cup Places
      PROVE  [call EXCEPT !.step = step] \in Calls /\ ~Marks([call EXCEPT !.step = step])
  <2>1. step \notin {"arrive", "leave"}
    BY TripAssumption DEF Places, Steps
  <2>2. QED
    BY <2>1 DEF Calls, Marks, Steps
<1>3. QED
  BY <1>1, <1>2

(* The next destination gets a stop.                                        *)
LEMMA NextDestinationKept ==
    ASSUME TripInv, NEW r \in TripRequests, NextDestination(r)
    PROVE  TripInv'
<1>1. /\ TripTyped /\ UNCHANGED <<route, acted, disorder>> /\ Continue(r, AfterLeaving(r))
      /\ stops \in [DOMAIN stops -> StopRows] /\ DOMAIN stops \subseteq 1..MaxStop
      /\ requests[r] \in Calls /\ MaxStop \in Nat
  BY TripAssumption DEF TripInv, NextDestination, TripTyped, StopsTyped
<1>2. /\ requests' \in [TripRequests -> Calls]
      /\ \A q \in TripRequests : Loaded(requests[q])'
  <2>1. AfterLeaving(r) \in Calls /\ ~Marks(AfterLeaving(r))
    BY <1>1, GoingOn DEF AfterLeaving
  <2>2. QED
    BY <1>1, <2>1, WriterGoesOn
<1>3. PICK region \in Places : region = requests[r].step
  BY DEF NextDestination, Places
<1> DEFINE there == {i \in DOMAIN stops : stops[i].region = region}
           over == there # {} /\ stops[Max(there)].arrived /\ stops[Max(there)].left
<1>4. CASE ~over
  <2>1. stops' = stops
    BY <1>3, <1>4 DEF NextDestination
  <2>2. TripTyped'
    BY <1>1, <1>2, <2>1 DEF TripTyped, StopsTyped
  <2>3. InOrder => InOrder'
    BY <1>1, <2>1 DEF InOrder, HasSender, SenderFirst, Departed, OpenIsLatest, PlaceIsLast, RegionStops,
          SenderStops, FirstSenderLeft, Visited
  <2>4. QED
    BY <1>1, <1>2, <2>2, <2>3 DEF TripInv
<1>5. CASE over
  <2> DEFINE new == RegionRows({region})
  <2>1. stops' = Added(stops, new) /\ Fits(1)
    BY <1>3, <1>5 DEF NextDestination
  <2>2. PICK m \in there : m = Max(there) /\ stops[m].left /\ \A i \in there : i <= m
    <3>1. there \in SUBSET Nat /\ \A i \in there : i <= MaxStop
      BY <1>1
    <3>2. there # {} /\ stops[Max(there)].left
      BY <1>5
    <3> HIDE DEF there
    <3>3. Max(there) \in there /\ \A i \in there : i <= Max(there)
      BY <1>1, <3>1, <3>2, Largest
    <3>4. QED
      BY <3>2, <3>3
  <2>3. /\ new \in Seq(StopRows) /\ Len(new) = 1 /\ new[1].region = region
        /\ ~new[1].sender /\ ~Visited(new[1])
    <3>1. PICK S \in SUBSET Places : S = {region} /\ Cardinality(S) = 1
      BY FS_Singleton
    <3>2. 1 \in 1..Cardinality(S)
      BY <3>1
    <3>3. /\ RegionRows(S) \in Seq(StopRows) /\ Len(RegionRows(S)) = Cardinality(S)
          /\ ~RegionRows(S)[1].sender /\ ~Visited(RegionRows(S)[1]) /\ RegionRows(S)[1].region \in S
      BY <3>2, RowsOfRegions
    <3>4. QED
      BY <3>1, <3>3
  <2> HIDE DEF new
  <2>4. /\ StopsTyped' /\ DOMAIN stops \subseteq DOMAIN stops'
        /\ \A i \in DOMAIN stops : stops'[i] = stops[i]
        /\ \A i \in DOMAIN stops' \ DOMAIN stops :
              /\ i \in Nat /\ \A j \in DOMAIN stops : j < i
              /\ \E k \in 1..Len(new) : i = NextId + k - 1 /\ stops'[i] = new[k]
    <3>1. Fits(Len(new))
      BY <2>1, <2>3
    <3>2. QED
      BY <1>1, <2>1, <2>3, <3>1, RowsAdded
  <2>5. /\ \A i \in DOMAIN stops' \ DOMAIN stops :
              i = NextId /\ ~stops'[i].sender /\ ~Visited(stops'[i]) /\ stops'[i].region = region
    <3>1. NextId \in Nat
      BY <1>1, NewIds
    <3>2. QED
      BY <2>3, <2>4, <3>1
  <2>6. TripTyped'
    BY <1>1, <1>2, <2>4 DEF TripTyped
  <2>7. ASSUME "overtaken" \notin disorder' PROVE InOrder'
    <3>1. InOrder
      BY <1>1, <2>7 DEF TripInv
    <3>2. SenderStops # {} /\ SenderStops \subseteq DOMAIN stops'
      BY <2>2, <2>4, <3>1 DEF InOrder, HasSender, SenderStops
    <3>3. ASSUME "repeated" \notin disorder, NEW i \in DOMAIN stops' \ DOMAIN stops, NEW j \in DOMAIN stops',
                 stops'[j].region = stops'[i].region, j < i, ~stops'[j].sender
          PROVE  stops'[j].left \/ "reopened" \in disorder
      <4>1. j \in DOMAIN stops
        <5>1. j \notin DOMAIN stops => j = i /\ i \in Nat
          BY <2>4, <2>5
        <5>2. QED
          BY <3>3, <5>1
      <4>2. stops'[j] = stops[j] /\ j \in there /\ j \in RegionStops /\ j <= m /\ m \in DOMAIN stops
        BY <2>2, <2>4, <2>5, <3>3, <4>1 DEF RegionStops, SenderStops
      <4>3. j \in Nat /\ m \in Nat
        BY <1>1, <4>2
      <4>4. CASE j = m
        BY <2>2, <4>2, <4>4
      <4>5. CASE j # m
        <5>1. j < m
          BY <4>2, <4>3, <4>5
        <5>2. m \in RegionStops
          BY <3>1, <3>3, <4>1, <4>2, <4>3, <5>1 DEF InOrder, SenderFirst, RegionStops
        <5>3. stops[j].region = stops[m].region
          BY <4>2
        <5>4. QED
          BY <3>1, <3>3, <4>2, <5>1, <5>2, <5>3 DEF InOrder, OpenIsLatest
      <4>6. QED
        BY <4>4, <4>5
    <3>4. disorder \subseteq disorder' /\ ("repeated" \in disorder <=> "repeated" \in disorder')
      BY <1>1
    <3>5. QED
      BY <1>1, <2>4, <2>5, <3>1, <3>2, <3>3, <3>4, GrownKept
  <2>8. QED
    BY <1>2, <2>6, <2>7 DEF TripInv
<1>6. QED
  BY <1>4, <1>5
(* A mark is checked: the stop is loaded.                                   *)
LEMMA CheckKept ==
    ASSUME TripInv, NEW r \in TripRequests, NEW i \in DOMAIN stops, CheckArrived(r, i) \/ CheckLeft(r, i)
    PROVE  TripInv'
<1>1. TripTyped /\ UNCHANGED <<route, stops, acted, disorder>> /\ MaxStop \in Nat
  BY TripAssumption DEF TripInv, CheckArrived, CheckLeft, Load
<1>2. PICK step \in {"arrive", "leave"} :
         /\ requests' = [requests EXCEPT ![r] = [NoRequest EXCEPT !.step = step, !.stop = i, !.row = stops[i]]]
         /\ step = "arrive" => (LastMarked # 0 => stops[LastMarked].left) /\ FirstSenderLeft /\ ~stops[i].arrived
         /\ step = "leave" => (stops[i].arrived \/ stops[i].sender) /\ ~stops[i].left
  BY DEF CheckArrived, CheckLeft, Load
<1>3. i \in 1..MaxStop /\ stops[i] \in StopRows
  BY <1>1 DEF TripTyped, StopsTyped
<1> DEFINE expr == [NoRequest EXCEPT !.step = step, !.stop = i, !.row = stops[i]]
<1>4. expr \in Calls /\ expr.step = step /\ expr.stop = i /\ expr.row = stops[i]
  <2>1. NoRequest \in [step : Steps \cup Places, stop : 0..MaxStop, row : StopRows, stale : BOOLEAN]
    BY <1>1, GoingOn DEF TripTyped, Calls
  <2>2. i \in 0..MaxStop /\ i # 0 /\ step \in Steps \cup Places
    BY <1>1, <1>3 DEF Steps
  <2>3. QED
    BY <1>3, <2>1, <2>2 DEF Calls
<1> HIDE DEF expr
<1>5. PICK call \in Calls :
         /\ call.step = step /\ call.stop = i /\ call.row = stops[i]
         /\ requests' = [requests EXCEPT ![r] = call]
  BY <1>2, <1>4 DEF expr
<1>6. TripTyped'
  BY <1>1, <1>5 DEF TripTyped, StopsTyped
<1>7. LastMarked' = LastMarked /\ FirstSenderLeft' = FirstSenderLeft
  BY <1>1 DEF LastMarked, FirstSenderLeft, SenderStops
<1>8. ASSUME NEW q \in TripRequests PROVE Loaded(requests[q])'
  <2>1. CASE q = r
    <3>1. requests'[q] = call
      BY <1>1, <1>5, <2>1 DEF TripTyped
    <3>2. QED
      BY <1>1, <1>2, <1>5, <1>7, <3>1 DEF Loaded, Marks
  <2>2. CASE q # r
    <3>1. requests'[q] = requests[q] /\ Loaded(requests[q])
      BY <1>1, <1>5, <2>2 DEF TripTyped, TripInv
    <3>2. QED
      BY <1>1, <1>7, <3>1 DEF Loaded, Marks
  <2>3. QED
    BY <2>1, <2>2
<1>9. InOrder => InOrder'
  BY <1>1 DEF InOrder, HasSender, SenderFirst, Departed, OpenIsLatest, PlaceIsLast, RegionStops,
        SenderStops, FirstSenderLeft, Visited
<1>10. QED
  BY <1>1, <1>6, <1>8, <1>9 DEF TripInv

(* The trip's row is saved, a request ends, the extension is signed.        *)
LEMMA StopsUntouched ==
    ASSUME TripInv, \/ SignExtension \/ UNCHANGED tripVars
                    \/ \E r \in TripRequests : SaveTripStatus(r) \/ AbortTrip(r)
    PROVE  TripInv'
<1>1. TripTyped /\ UNCHANGED <<route, stops, acted>>
  BY DEF TripInv, SignExtension, SaveTripStatus, AbortTrip, tripVars
<1>2. disorder' = disorder \/ "overtaken" \in disorder'
  BY DEF SignExtension, SaveTripStatus, AbortTrip, tripVars
<1>3. /\ requests' \in [TripRequests -> Calls]
      /\ \A q \in TripRequests : Loaded(requests[q])'
  <2>1. CASE SignExtension
    BY <1>1, <2>1, ElsewhereStale DEF SignExtension
  <2>2. ASSUME NEW r \in TripRequests, SaveTripStatus(r)
        PROVE  /\ requests' \in [TripRequests -> Calls]
               /\ \A q \in TripRequests : Loaded(requests[q])'
    <3>1. requests[r] \in Calls
      BY <1>1 DEF TripTyped
    <3>2. NoRequest \in Calls /\ ~Marks(NoRequest)
      BY <3>1, GoingOn
    <3>3. QED
      BY <1>1, <2>2, <3>2, WriterGoesOn DEF SaveTripStatus
  <2>3. ASSUME NEW r \in TripRequests, UNCHANGED tripVars \/ AbortTrip(r)
        PROVE  /\ requests' \in [TripRequests -> Calls]
               /\ \A q \in TripRequests : Loaded(requests[q])'
    <3>1. requests[r] \in Calls /\ requests \in [TripRequests -> Calls]
      BY <1>1 DEF TripTyped
    <3>2. NoRequest \in Calls /\ ~Marks(NoRequest)
      BY <3>1, GoingOn
    <3>3. LastMarked' = LastMarked /\ FirstSenderLeft' = FirstSenderLeft
      BY <1>1 DEF LastMarked, FirstSenderLeft, SenderStops
    <3>4. \A q \in TripRequests : requests'[q] = requests[q] \/ requests'[q] = NoRequest
      BY <2>3, <3>1 DEF AbortTrip, tripVars
    <3>5. requests' \in [TripRequests -> Calls]
      BY <2>3, <3>1, <3>2 DEF AbortTrip, tripVars
    <3>6. \A q \in TripRequests : Loaded(requests[q])'
      BY <1>1, <3>2, <3>3, <3>4 DEF TripInv, Loaded, Marks
    <3>7. QED
      BY <3>5, <3>6
  <2>4. CASE UNCHANGED tripVars
    BY <1>1, <2>4 DEF tripVars, TripTyped, TripInv, Loaded, Marks, LastMarked, FirstSenderLeft, SenderStops
  <2>5. QED
    BY <2>1, <2>2, <2>3, <2>4
<1>4. TripTyped'
  BY <1>1, <1>3 DEF TripTyped, StopsTyped
<1>5. ASSUME disorder' = disorder, InOrder PROVE InOrder'
  BY <1>1, <1>5 DEF InOrder, HasSender, SenderFirst, Departed, OpenIsLatest, PlaceIsLast, RegionStops,
        SenderStops, FirstSenderLeft, Visited
<1>6. QED
  BY <1>2, <1>3, <1>4, <1>5 DEF TripInv
(* One row of a stop changes its marks.                                     *)
LEMMA RowChanged ==
    ASSUME TripTyped, NEW i \in DOMAIN stops, NEW new \in StopRows, stops' = [stops EXCEPT ![i] = new],
           new.sender = stops[i].sender, new.region = stops[i].region
    PROVE  /\ StopsTyped' /\ DOMAIN stops' = DOMAIN stops
           /\ SenderStops' = SenderStops /\ RegionStops' = RegionStops
           /\ stops'[i] = new /\ \A j \in DOMAIN stops \ {i} : stops'[j] = stops[j]
           /\ FirstSenderLeft /\ (stops[i].sender /\ stops[i].left => new.left) => FirstSenderLeft'
<1>1. StopsTyped
  BY DEF TripTyped
<1>2. DOMAIN stops' = DOMAIN stops /\ stops'[i] = new /\ \A j \in DOMAIN stops \ {i} : stops'[j] = stops[j]
  BY <1>1 DEF StopsTyped
<1>3. StopsTyped'
  BY <1>1, <1>2 DEF StopsTyped
<1>4. SenderStops' = SenderStops /\ RegionStops' = RegionStops
  BY <1>2 DEF SenderStops, RegionStops
<1>5. ASSUME FirstSenderLeft, stops[i].sender /\ stops[i].left => new.left PROVE FirstSenderLeft'
  <2>1. FirstLeft
    BY <1>1, <1>5, FirstSender
  <2>2. FirstLeft'
    BY <1>2, <1>4, <1>5, <2>1 DEF FirstLeft, SenderStops
  <2>3. (StopsTyped => (FirstSenderLeft <=> FirstLeft))'
    BY FirstSender, PTL
  <2>4. QED
    BY <1>3, <2>2, <2>3
<1>6. QED
  BY <1>2, <1>3, <1>4, <1>5

(* A mark is made.                                                          *)
LEMMA MarkKept ==
    ASSUME TripInv, NEW r \in TripRequests, NEW to \in Places \cup {Nowhere}, Arrived(r) \/ Left(r, to)
    PROVE  TripInv'
<1>1. TripTyped /\ UNCHANGED route /\ acted \in Seq(Nat) /\ MaxStop \in Nat /\ stops \in [DOMAIN stops -> StopRows]
  BY TripAssumption DEF TripInv, TripTyped, StopsTyped, Arrived, Left
<1>2. PICK call \in Calls : call = requests[r]
  BY <1>1 DEF TripTyped
<1>3. call.step \in {"arrive", "leave"} /\ call.row \in StopRows
  BY <1>2 DEF Arrived, Left, Calls
<1>4. PICK i \in 1..MaxStop : i = call.stop
  BY <1>1, <1>3 DEF Calls
<1>5. PICK new \in StopRows :
         /\ SaveStop(r, new)
         /\ new.sender = call.row.sender /\ new.region = call.row.region
         /\ \/ call.step = "arrive" /\ new.arrived /\ new.left = call.row.left
            \/ call.step = "leave" /\ new.left /\ new.arrived = call.row.arrived
  <2>1. CASE Arrived(r)
    <3> DEFINE new == [call.row EXCEPT !.arrived = TRUE]
    <3>1. /\ new \in StopRows /\ new.sender = call.row.sender /\ new.region = call.row.region
          /\ new.arrived /\ new.left = call.row.left
      BY <1>3 DEF StopRows
    <3>2. SaveStop(r, new) /\ call.step = "arrive"
      BY <1>2, <2>1 DEF Arrived
    <3>3. QED
      BY <3>1, <3>2
  <2>2. CASE Left(r, to)
    <3> DEFINE new == [call.row EXCEPT !.left = TRUE]
    <3>1. /\ new \in StopRows /\ new.sender = call.row.sender /\ new.region = call.row.region
          /\ new.left /\ new.arrived = call.row.arrived
      BY <1>3 DEF StopRows
    <3>2. SaveStop(r, new) /\ call.step = "leave"
      BY <1>2, <2>2 DEF Left
    <3>3. QED
      BY <3>1, <3>2
  <2>3. QED
    BY <2>1, <2>2
<1>6. /\ stops' = [j \in DOMAIN stops \cup {i} |-> IF j = i THEN new ELSE stops[j]]
      /\ acted' = Append(RemoveFirst(acted, i), i)
      /\ disorder' = IF call.stale THEN disorder \cup {"overtaken"} ELSE disorder
  BY <1>2, <1>4, <1>5 DEF SaveStop
<1>7. acted' \in Seq(Nat) /\ acted' # <<>> /\ Last(acted') = i
  <2>1. RemoveFirst(acted, i) \in Seq(Nat) /\ i \in Nat
    BY <1>1, OneRemoved
  <2>2. QED
    BY <1>6, <2>1, AppendProperties DEF Last
<1>8. PICK next \in Calls : ~Marks(next) /\ Continue(r, next)
  <2>1. /\ NoRequest \in Calls /\ ~Marks(NoRequest)
        /\ \A step \in {"on_trip", "reporting"} \cup Places :
              [call EXCEPT !.step = step] \in Calls /\ ~Marks([call EXCEPT !.step = step])
    BY GoingOn
  <2>2. CASE Arrived(r)
    BY <1>2, <2>1, <2>2 DEF Arrived
  <2>3. CASE Left(r, to)
    BY <1>2, <2>1, <2>3 DEF Left, AfterLeaving
  <2>4. QED
    BY <2>2, <2>3
<1>9. StopsTyped'
  <2>1. DOMAIN stops \subseteq 1..MaxStop
    BY <1>1 DEF TripTyped, StopsTyped
  <2>2. QED
    BY <1>1, <1>6, <2>1 DEF StopsTyped
<1>10. TripTyped' /\ \A q \in TripRequests : Loaded(requests[q])'
  BY <1>1, <1>7, <1>8, <1>9, WriterGoesOn DEF TripTyped
<1>11. ASSUME "overtaken" \notin disorder' PROVE InOrder'
  <2>1. InOrder /\ ~call.stale /\ disorder' = disorder
    BY <1>6, <1>11 DEF TripInv
  <2>2. /\ i \in DOMAIN stops /\ stops[i] = call.row
        /\ call.step = "arrive" => (LastMarked # 0 => stops[LastMarked].left) /\ FirstSenderLeft /\ ~stops[i].arrived
        /\ call.step = "leave" => (stops[i].arrived \/ stops[i].sender) /\ ~stops[i].left
    <3>1. Loaded(call) /\ Marks(call)
      BY <1>2, <1>3, <2>1 DEF TripInv, Marks
    <3>2. QED
      BY <1>4, <3>1 DEF Loaded
  <2>3. stops' = [stops EXCEPT ![i] = new]
    BY <1>1, <1>6, <2>2
  <2>4. /\ SenderStops' = SenderStops /\ RegionStops' = RegionStops /\ DOMAIN stops' = DOMAIN stops
        /\ stops'[i] = new /\ \A j \in DOMAIN stops \ {i} : stops'[j] = stops[j]
        /\ FirstSenderLeft => FirstSenderLeft'
    BY <1>1, <1>5, <2>2, <2>3, RowChanged
  <2>5. RegionStops \subseteq DOMAIN stops /\ DOMAIN stops \subseteq Nat
    BY <1>1 DEF RegionStops, TripTyped, StopsTyped
  <2>6. HasSender' /\ SenderFirst'
    BY <2>1, <2>4 DEF InOrder, HasSender, SenderFirst
  <2>7. Departed'
    <3> SUFFICES ASSUME NEW j \in RegionStops, Visited(stops'[j]) PROVE FirstSenderLeft
      BY <2>4 DEF Departed, Visited
    <3>1. CASE j # i
      BY <2>1, <2>4, <2>5, <3>1 DEF InOrder, Departed
    <3>2. CASE j = i
      <4>1. ~stops[i].sender
        BY <3>2 DEF RegionStops, SenderStops
      <4>2. CASE call.step = "leave"
        BY <2>1, <2>2, <3>2, <4>1, <4>2 DEF InOrder, Departed, Visited
      <4>3. QED
        BY <1>3, <2>2, <4>2
    <3>3. QED
      BY <3>1, <3>2
  <2>8. OpenIsLatest'
    <3>1. \A j \in DOMAIN stops : stops'[j].region = stops[j].region /\ (stops[j].left => stops'[j].left)
      BY <1>5, <2>2, <2>4
    <3>2. QED
      BY <2>1, <2>4, <2>5, <3>1 DEF InOrder, OpenIsLatest
  <2>9. PlaceIsLast'
    <3> SUFFICES ASSUME disorder \cap {"repeated", "reopened earlier"} = {}, NEW j \in RegionStops,
                        stops[j].arrived, ~stops[j].left, j # i
                 PROVE  FALSE
      BY <1>7, <2>1, <2>4, <2>5 DEF PlaceIsLast
    <3>1. acted # <<>> /\ Last(acted) = j
      BY <2>1 DEF InOrder, PlaceIsLast
    <3>2. CASE call.step = "arrive"
      <4>1. LastMarked = j /\ j # 0
        <5>1. j # 0
          BY <1>1, <2>5, StopIds
        <5>2. QED
          BY <3>1, <5>1 DEF LastMarked
      <4>2. QED
        BY <2>2, <3>2, <4>1
    <3>3. CASE call.step = "leave" /\ ~stops[i].sender
      <4>1. i \in RegionStops
        BY <2>2, <3>3 DEF RegionStops, SenderStops
      <4>2. QED
        BY <2>1, <2>2, <3>1, <3>3, <4>1 DEF InOrder, PlaceIsLast
    <3>4. CASE call.step = "leave" /\ stops[i].sender
      <4>1. FirstSenderLeft
        BY <2>1 DEF InOrder, Departed, Visited
      <4>2. FirstLeft
        BY <1>1, <4>1, FirstSender DEF TripTyped
      <4>3. i \in SenderStops /\ SenderStops \subseteq DOMAIN stops
        BY <2>2, <3>4 DEF SenderStops
      <4>4. \A t \in SenderStops : i <= t
        BY <2>1, <4>3 DEF InOrder, SenderFirst
      <4>5. QED
        BY <2>2, <3>4, <4>2, <4>3, <4>4 DEF FirstLeft
    <3>5. QED
      BY <1>3, <3>2, <3>3, <3>4
  <2>10. QED
    BY <2>6, <2>7, <2>8, <2>9 DEF InOrder
<1>12. QED
  BY <1>10, <1>11 DEF TripInv
(* A departure is reset.                                                    *)
LEMMA ResetLeftKept ==
    ASSUME TripInv, NEW i \in DOMAIN stops, ResetLeft(i)
    PROVE  TripInv'
<1>1. /\ TripTyped /\ UNCHANGED <<route, acted>> /\ Elsewhere /\ MaxStop \in Nat
      /\ stops[i] \in StopRows /\ DOMAIN stops \subseteq 1..MaxStop /\ RegionStops \subseteq DOMAIN stops
  BY TripAssumption DEF TripInv, TripTyped, StopsTyped, ResetLeft, RegionStops
<1> DEFINE expr == [stops[i] EXCEPT !.left = FALSE]
<1>2. /\ expr \in StopRows /\ expr.sender = stops[i].sender /\ expr.region = stops[i].region
      /\ expr.arrived = stops[i].arrived /\ ~expr.left
      /\ stops' = [stops EXCEPT ![i] = expr]
  BY <1>1 DEF ResetLeft, StopRows
<1> HIDE DEF expr
<1>3. PICK new \in StopRows :
         /\ new.sender = stops[i].sender /\ new.region = stops[i].region
         /\ new.arrived = stops[i].arrived /\ ~new.left
         /\ stops' = [stops EXCEPT ![i] = new]
  BY <1>2
<1>4. /\ StopsTyped' /\ SenderStops' = SenderStops /\ RegionStops' = RegionStops /\ DOMAIN stops' = DOMAIN stops
      /\ stops'[i] = new /\ \A j \in DOMAIN stops \ {i} : stops'[j] = stops[j]
      /\ FirstSenderLeft /\ ~stops[i].sender => FirstSenderLeft'
  BY <1>1, <1>3, RowChanged
<1>5. TripTyped' /\ \A q \in TripRequests : Loaded(requests[q])'
  BY <1>1, <1>4, ElsewhereStale DEF TripTyped
<1>6. ASSUME "overtaken" \notin disorder' PROVE InOrder'
  <2>1. InOrder /\ disorder \subseteq disorder'
    BY <1>6 DEF TripInv, ResetLeft
  <2>2. HasSender' /\ SenderFirst'
    BY <1>4, <2>1 DEF InOrder, HasSender, SenderFirst
  <2>3. Departed'
    <3> SUFFICES ASSUME NEW j \in RegionStops, Visited(stops'[j]) PROVE FirstSenderLeft'
      BY <1>4 DEF Departed, Visited
    <3>1. Visited(stops[j])
      BY <1>1, <1>3, <1>4 DEF Visited
    <3>2. ~stops[i].sender
      BY <3>1 DEF ResetLeft
    <3>3. QED
      BY <1>4, <2>1, <3>1, <3>2 DEF InOrder, Departed
  <2>4. OpenIsLatest'
    <3> SUFFICES ASSUME disorder' \cap {"repeated", "reopened"} = {}, NEW j \in RegionStops, stops[j].left
                 PROVE  stops'[j].left /\ TRUE
      <4>1. \A j \in RegionStops : stops'[j].region = stops[j].region
        BY <1>1, <1>3, <1>4
      <4>2. QED
        BY <1>4, <2>1, <4>1 DEF InOrder, OpenIsLatest
    <3>1. ~stops[i].left
      BY DEF ResetLeft
    <3>2. QED
      BY <1>1, <1>4, <3>1
  <2>5. PlaceIsLast'
    <3> SUFFICES ASSUME disorder' \cap {"repeated", "reopened earlier"} = {}, NEW j \in RegionStops,
                        stops'[j].arrived, ~stops'[j].left
                 PROVE  acted # <<>> /\ Last(acted) = j
      BY <1>1, <1>4 DEF PlaceIsLast
    <3>1. CASE j = i /\ stops[i].left
      <4>1. i = LastMarked
        BY <1>1, <3>1 DEF ResetLeft
      <4>2. i # 0
        BY <1>1, StopIds
      <4>3. QED
        BY <3>1, <4>1, <4>2 DEF LastMarked
    <3>2. CASE ~(j = i /\ stops[i].left)
      <4>1. stops[j].arrived /\ ~stops[j].left
        BY <1>1, <1>3, <1>4, <3>2
      <4>2. QED
        BY <2>1, <4>1 DEF InOrder, PlaceIsLast
    <3>3. QED
      BY <3>1, <3>2
  <2>6. QED
    BY <2>1, <2>2, <2>3, <2>4, <2>5 DEF InOrder
<1>7. QED
  BY <1>5, <1>6 DEF TripInv

(* An arrival is reset.                                                     *)
LEMMA ResetArrivedKept ==
    ASSUME TripInv, NEW i \in DOMAIN stops, ResetArrived(i)
    PROVE  TripInv'
<1>1. /\ TripTyped /\ UNCHANGED <<route, disorder>> /\ Elsewhere /\ acted \in Seq(Nat)
      /\ acted' = RemoveFirst(acted, i)
      /\ stops[i] \in StopRows /\ RegionStops \subseteq DOMAIN stops
  BY DEF TripInv, TripTyped, StopsTyped, ResetArrived, RegionStops
<1> DEFINE expr == [stops[i] EXCEPT !.arrived = FALSE]
<1>2. /\ expr \in StopRows /\ expr.sender = stops[i].sender /\ expr.region = stops[i].region
      /\ ~expr.arrived /\ expr.left = stops[i].left
      /\ stops' = [stops EXCEPT ![i] = expr]
  BY <1>1 DEF ResetArrived, StopRows
<1> HIDE DEF expr
<1>3. PICK new \in StopRows :
         /\ new.sender = stops[i].sender /\ new.region = stops[i].region
         /\ ~new.arrived /\ new.left = stops[i].left
         /\ stops' = [stops EXCEPT ![i] = new]
  BY <1>2
<1>4. /\ StopsTyped' /\ SenderStops' = SenderStops /\ RegionStops' = RegionStops /\ DOMAIN stops' = DOMAIN stops
      /\ stops'[i] = new /\ \A j \in DOMAIN stops \ {i} : stops'[j] = stops[j]
      /\ FirstSenderLeft => FirstSenderLeft'
  BY <1>1, <1>3, RowChanged
<1>5. TripTyped' /\ \A q \in TripRequests : Loaded(requests[q])'
  <2>1. acted' \in Seq(Nat)
    BY <1>1, OneRemoved
  <2>2. QED
    BY <1>1, <1>4, <2>1, ElsewhereStale DEF TripTyped
<1>6. ASSUME InOrder PROVE InOrder'
  <2>1. HasSender' /\ SenderFirst'
    BY <1>1, <1>4, <1>6 DEF InOrder, HasSender, SenderFirst
  <2>2. \A j \in RegionStops : /\ stops'[j].region = stops[j].region /\ stops'[j].left = stops[j].left
                               /\ stops'[j].arrived => stops[j].arrived /\ j # i
    BY <1>1, <1>3, <1>4
  <2>3. Departed'
    BY <1>4, <1>6, <2>2 DEF InOrder, Departed, Visited
  <2>4. OpenIsLatest'
    BY <1>1, <1>4, <1>6, <2>2 DEF InOrder, OpenIsLatest
  <2>5. PlaceIsLast'
    <3> SUFFICES ASSUME disorder \cap {"repeated", "reopened earlier"} = {}, NEW j \in RegionStops,
                        stops'[j].arrived, ~stops'[j].left
                 PROVE  acted' # <<>> /\ Last(acted') = j
      BY <1>1, <1>4 DEF PlaceIsLast
    <3>1. acted # <<>> /\ Last(acted) = j /\ j # i
      BY <1>6, <2>2 DEF InOrder, PlaceIsLast
    <3>2. QED
      BY <1>1, <3>1, OneRemoved
  <2>6. QED
    BY <2>1, <2>3, <2>4, <2>5 DEF InOrder
<1>7. QED
  BY <1>1, <1>5, <1>6 DEF TripInv

(* Nothing is in order that is not there.                                   *)
LEMMA TripBegins == TripInit => TripInv
<1> SUFFICES ASSUME TripInit PROVE TripInv
  OBVIOUS
<1>1. DOMAIN stops = {} /\ acted = <<>> /\ disorder = {} /\ requests = [r \in TripRequests |-> NoRequest]
  BY DEF TripInit
<1>2. NoRequest \in Calls /\ ~Marks(NoRequest)
  <2>1. NoStop \in StopRows /\ 0 \in 0..MaxStop
    BY TripAssumption DEF NoStop, StopRows, Places
  <2>2. QED
    BY <2>1 DEF NoRequest, Calls, Marks, Steps
<1>3. StopsTyped
  BY <1>1 DEF StopsTyped, TripInit
<1>4. route \in SUBSET Regions
  BY TripAssumption DEF TripInit
<1>5. <<>> \in Seq(Nat)
  OBVIOUS
<1>6. TripTyped
  BY <1>1, <1>2, <1>3, <1>4, <1>5 DEF TripTyped
<1>7. \A r \in TripRequests : Loaded(requests[r])
  BY <1>1, <1>2 DEF Loaded
<1>8. InOrder
  BY <1>1 DEF InOrder, HasSender, SenderFirst, Departed, OpenIsLatest, PlaceIsLast, RegionStops, SenderStops
<1>9. QED
  BY <1>6, <1>7, <1>8 DEF TripInv

(* Every step keeps the invariant.                                          *)
LEMMA TripStep ==
    ASSUME TripInv, [TripNext]_tripVars
    PROVE  TripInv'
<1>1. CASE CreateTripVerification
  BY <1>1, CreateKept
<1>2. ASSUME NEW r \in TripRequests, MarkStep(r) PROVE TripInv'
  <2>1. ASSUME NEW i \in DOMAIN stops, CheckArrived(r, i) \/ CheckLeft(r, i) PROVE TripInv'
    BY <2>1, CheckKept
  <2>2. CASE Arrived(r)
    <3>1. Nowhere \in Places \cup {Nowhere}
      OBVIOUS
    <3>2. QED
      BY <2>2, <3>1, MarkKept
  <2>3. ASSUME NEW to \in Regions \cup {HomeRegion, Nowhere}, Left(r, to) PROVE TripInv'
    <3>1. to \in Places \cup {Nowhere}
      BY DEF Places
    <3>2. QED
      BY <2>3, <3>1, MarkKept
  <2>4. CASE NextDestination(r)
    BY <2>4, NextDestinationKept
  <2>5. CASE SaveTripStatus(r) \/ AbortTrip(r)
    BY <2>5, StopsUntouched
  <2>6. QED
    BY <1>2, <2>1, <2>2, <2>3, <2>4, <2>5 DEF MarkStep
<1>3. ASSUME NEW i \in DOMAIN stops, ResetLeft(i) \/ ResetArrived(i) PROVE TripInv'
  BY <1>3, ResetLeftKept, ResetArrivedKept
<1>4. ASSUME NEW regions \in (SUBSET Regions) \ {{}}, Reroute(regions) PROVE TripInv'
  BY <1>4, RerouteKept
<1>5. CASE UpdateTripVerifications
  <2>1. {} \in SUBSET Regions
    OBVIOUS
  <2>2. QED
    BY <1>5, <2>1, RerouteKept
<1>6. CASE SignExtension \/ UNCHANGED tripVars
  BY <1>6, StopsUntouched
<1>7. QED
  BY <1>1, <1>2, <1>3, <1>4, <1>5, <1>6 DEF TripNext

(* A mark that no other write overtakes is made of the stop as it is, and   *)
(* the sender's stop is the first, the open stop of a region its latest,    *)
(* the open place the last one marked.                                      *)
THEOREM TripInvariant == TripSpec => []TripInv
<1>1. TripInv /\ [TripNext]_tripVars => TripInv'
  BY TripStep
<1>2. QED
  BY TripBegins, <1>1, PTL DEF TripSpec

(* Nobody has been anywhere before he has left the sender: neither a reset  *)
(* nor a change of route takes the departure back.                          *)
THEOREM NobodyArrivesBeforeHeLeft == TripSpec => []DepartureStands
<1>1. TripInv => DepartureStands
  BY DEF TripInv, InOrder, Departed, DepartureStands
<1>2. QED
  BY TripInvariant, <1>1, PTL

(* He is at one place at a time, unless the departure from a place other    *)
(* than the last one was reset, or the certificate created twice.           *)
THEOREM AtOnePlace == TripSpec => []OnePlaceAtATime
<1>1. TripInv => OnePlaceAtATime
  <2> SUFFICES ASSUME TripInv, disorder \cap {"overtaken", "repeated", "reopened earlier"} = {},
                      NEW i \in RegionStops, NEW j \in RegionStops,
                      \A k \in {i, j} : stops[k].arrived /\ ~stops[k].left
               PROVE  i = j
    BY DEF OnePlaceAtATime
  <2>1. PlaceIsLast /\ disorder \cap {"repeated", "reopened earlier"} = {}
    BY DEF TripInv, InOrder
  <2>2. QED
    BY <2>1 DEF PlaceIsLast
<1>2. QED
  BY TripInvariant, <1>1, PTL

(* A region has at most one stop that is not over, however often the route  *)
(* is changed or the region named as the next destination, unless the       *)
(* certificate was created again or a departure reset.                      *)
THEOREM OneStopIsOpen == TripSpec => []OneOpenStop
<1>1. TripInv => OneOpenStop
  <2> SUFFICES ASSUME TripInv, disorder \cap {"overtaken", "repeated", "reopened"} = {},
                      NEW i \in RegionStops, NEW j \in RegionStops,
                      stops[i].region = stops[j].region, ~stops[i].left, ~stops[j].left
               PROVE  i = j
    BY DEF OneOpenStop
  <2>1. OpenIsLatest /\ disorder \cap {"repeated", "reopened"} = {}
    BY DEF TripInv, InOrder
  <2>2. ~(i < j) /\ ~(j < i)
    BY <2>1 DEF OpenIsLatest
  <2>3. i \in Nat /\ j \in Nat
    BY DEF TripInv, TripTyped, StopsTyped, RegionStops
  <2>4. QED
    BY <2>2, <2>3
<1>2. QED
  BY TripInvariant, <1>1, PTL

-----------------------------------------------------------------------------
(****************************************************************************)
(* The accounts of the staff.                                               *)
(****************************************************************************)

Names == Phones \cup {OwnName}
AccountRows ==
    [emp : Employees, phone : Names, username : Names, active : BOOLEAN, status : {"working", "left"}]
ChunkRows == [emp : Employees, phone : Phones, id : Nat, username : Names]

StaffTyped ==
    /\ register \in [Employees -> Phones \cup {NotListed}]
    /\ accounts \in Seq(AccountRows)
    /\ import \in [step : {"idle", "create", "update"}, rows : Seq(ChunkRows)]
    /\ leavers \in [step : {"idle", "look up"}, todo : SUBSET Ids, missed : SUBSET Ids, due : SUBSET Ids]
    /\ loaded \subseteq [id : Ids, row : AccountRows]

(* A chunk has one row of each employee, with his account or a name that no *)
(* other row of it takes; who has no account gets none elsewhere.           *)
ChunkFits ==
    \A k \in DOMAIN import.rows :
       LET r == import.rows[k] IN
       /\ \A m \in DOMAIN import.rows : import.rows[m].emp = r.emp => m = k
       /\ r.id # 0 => r.id \in Ids /\ accounts[r.id].emp = r.emp
       /\ r.id = 0 =>
            /\ import.step = "create" => Active(r.emp) \subseteq restored
            /\ \A m \in DOMAIN import.rows :
                  (/\ import.rows[m].id = 0
                   /\ import.rows[m].username = r.username
                   /\ r.username # OwnName)
                     => m = k

(* What a request has loaded is an active account of the same employee.     *)
LoadedFits ==
    \A l \in loaded : l.row.active /\ l.row.status = "working" /\ l.row.emp = accounts[l.id].emp

ActiveWork == \A i \in Ids : accounts[i].active => accounts[i].status = "working"

OneEach ==
    \A i, j \in Ids \ restored :
       accounts[i].emp = accounts[j].emp /\ accounts[i].active /\ accounts[j].active => i = j

(* Who had left is still to be looked at, missed, restored or disabled.     *)
RunFits ==
    \A i \in leavers.due :
       /\ register[accounts[i].emp] = NotListed
       /\ accounts[i].active => i \in leavers.todo \cup leavers.missed \cup restored

StaffInv == StaffTyped /\ ChunkFits /\ LoadedFits /\ ActiveWork /\ OneEach /\ RunFits

NewAccount(r) ==
    [emp |-> r.emp, phone |-> r.phone, username |-> r.username, active |-> TRUE, status |-> "working"]

(* AfterCreating is what its definition says: the accounts after one row    *)
(* come from those after the row before.                                    *)
LEMMA CreatingSteps ==
    ASSUME StaffTyped
    PROVE  AfterCreating =
             [k \in 0..Len(import.rows) |->
                IF k = 0 THEN accounts ELSE Create(AfterCreating[k - 1], import.rows[k])]
<1>1. PICK n \in Nat : n = Len(import.rows)
  BY LenProperties DEF StaffTyped
<1> DEFINE Follows(f, m) ==
             f = [k \in 0..m |-> IF k = 0 THEN accounts ELSE Create(f[k - 1], import.rows[k])]
           stuck == {m \in Nat : m <= n /\ ~\E f : Follows(f, m)}
<1>2. /\ stuck \in SUBSET Nat /\ \A m \in stuck : m <= n /\ ~\E f : Follows(f, m)
      /\ \A m \in Nat : m <= n /\ m \notin stuck => \E f : Follows(f, m)
  OBVIOUS
<1> HIDE DEF stuck
<1>3. ASSUME stuck # {} PROVE FALSE
  <2>1. PICK m \in stuck : \A i \in stuck : m <= i
    BY <1>2, <1>3, Smallest
  <2>2. CASE m = 0
    <3>1. Follows([k \in 0..0 |-> accounts], 0)
      OBVIOUS
    <3>2. QED
      BY <1>2, <2>1, <2>2, <3>1
  <2>3. CASE m # 0
    <3>1. m - 1 \in Nat /\ m - 1 <= n /\ m - 1 \notin stuck
      BY <1>1, <1>2, <2>1, <2>3
    <3>2. PICK f : Follows(f, m - 1)
      BY <1>2, <3>1
    <3> DEFINE g == [k \in 0..m |-> IF k = m THEN Create(f[m - 1], import.rows[m]) ELSE f[k]]
    <3>3. ASSUME NEW k \in 0..m
          PROVE  g[k] = IF k = 0 THEN accounts ELSE Create(g[k - 1], import.rows[k])
      <4>1. CASE k = m
        <5>1. g[m] = Create(f[m - 1], import.rows[m]) /\ g[m - 1] = f[m - 1]
          BY <1>2, <2>3, <3>1
        <5>2. QED
          BY <4>1, <5>1, <2>3
      <4>2. CASE k # m
        <5>1. k \in 0..(m - 1) /\ g[k] = f[k] /\ (k # 0 => k - 1 \in 0..m /\ k - 1 # m)
          BY <1>2, <2>3, <3>1, <4>2
        <5>2. k # 0 => g[k - 1] = f[k - 1]
          BY <5>1
        <5>3. f[k] = IF k = 0 THEN accounts ELSE Create(f[k - 1], import.rows[k])
          BY <3>2, <5>1
        <5>4. QED
          BY <5>1, <5>2, <5>3
      <4>3. QED
        BY <4>1, <4>2
    <3>4. Follows(g, m)
      <4> HIDE DEF g
      <4>1. DOMAIN g = 0..m /\ g = [k \in 0..m |-> g[k]]
        BY DEF g
      <4>2. QED
        BY <3>3, <4>1
    <3>5. QED
      BY <1>2, <2>1, <3>4
  <2>4. QED
    BY <2>2, <2>3
<1>4. \E f : Follows(f, n)
  BY <1>1, <1>2, <1>3
<1>5. QED
  BY <1>1, <1>4 DEF AfterCreating

(* What the first k rows of a chunk have made of the accounts: those there  *)
(* were, and one for each row without one whose name was not taken.         *)
MadeBy(rows, k) ==
    /\ rows \in Seq(AccountRows)
    /\ Len(rows) >= Len(accounts)
    /\ \A i \in Ids : rows[i] = accounts[i]
    /\ \A i \in DOMAIN rows \ Ids :
          \E m \in 1..k : import.rows[m].id = 0 /\ rows[i] = NewAccount(import.rows[m])
    /\ \A i, j \in DOMAIN rows \ Ids : rows[i].emp = rows[j].emp => i = j
    /\ \A m \in 1..k : import.rows[m].id = 0 =>
          \/ \E i \in DOMAIN rows \ Ids : rows[i] = NewAccount(import.rows[m])
          \/ Taken(accounts, 0, import.rows[m].username)

(* The next row adds its account at the end, or is refused: not for the     *)
(* name of an earlier row of the chunk.                                     *)
LEMMA OneMore ==
    ASSUME StaffTyped, ChunkFits, NEW k \in DOMAIN import.rows, NEW rows, MadeBy(rows, k - 1)
    PROVE  MadeBy(Create(rows, import.rows[k]), k)
<1>1. PICK n \in Nat : n = Len(import.rows) /\ DOMAIN import.rows = 1..n
  BY LenProperties DEF StaffTyped
<1>2. /\ Len(rows) \in Nat /\ DOMAIN rows = 1..Len(rows)
      /\ Len(accounts) \in Nat /\ Ids = 1..Len(accounts)
  BY LenProperties DEF StaffTyped, MadeBy, Ids
<1> DEFINE r == import.rows[k]
<1>3. r \in ChunkRows /\ k \in 1..n
  <2>1. import.rows \in Seq(ChunkRows)
    BY DEF StaffTyped
  <2>2. QED
    BY <1>1, <2>1, ElementOfSeq
<1> HIDE DEF r
<1>4. CASE r.id # 0
  <2>1. Create(rows, r) = rows
    BY <1>4 DEF Create
  <2>2. \A m \in 1..k : import.rows[m].id = 0 => m \in 1..(k - 1)
    BY <1>3, <1>4 DEF r
  <2>3. 1..(k - 1) \subseteq 1..k
    BY <1>3
  <2>4. MadeBy(rows, k)
    BY <2>2, <2>3 DEF MadeBy
  <2>5. QED
    BY <2>1, <2>4 DEF r
<1>5. CASE r.id = 0 /\ Taken(rows, 0, r.username)
  <2>1. Create(rows, r) = rows
    BY <1>5 DEF Create
  <2>2. PICK j \in DOMAIN rows : rows[j].username = r.username /\ r.username # OwnName
    BY <1>5 DEF Taken
  <2>3. j \in Ids
    <3>1. ASSUME j \notin Ids PROVE FALSE
      <4>1. PICK m \in 1..(k - 1) : import.rows[m].id = 0 /\ rows[j] = NewAccount(import.rows[m])
        BY <3>1 DEF MadeBy
      <4>2. m \in 1..n /\ m # k /\ import.rows[m].username = r.username
        BY <1>3, <2>2, <4>1 DEF NewAccount
      <4>3. QED
        BY <1>1, <1>3, <1>5, <2>2, <4>1, <4>2 DEF ChunkFits, r
    <3>2. QED
      BY <3>1
  <2>4. Taken(accounts, 0, r.username)
    BY <1>2, <2>2, <2>3 DEF Taken, MadeBy, Ids
  <2>5. \A m \in 1..k : m = k \/ m \in 1..(k - 1)
    BY <1>3
  <2>6. 1..(k - 1) \subseteq 1..k
    BY <1>3
  <2>7. MadeBy(rows, k)
    BY <2>4, <2>5, <2>6 DEF MadeBy, r
  <2>8. QED
    BY <2>1, <2>7 DEF r
<1>6. CASE r.id = 0 /\ ~Taken(rows, 0, r.username)
  <2> DEFINE more == Append(rows, NewAccount(r))
  <2>1. Create(rows, r) = more
    BY <1>6 DEF Create, NewAccount
  <2>2. NewAccount(r) \in AccountRows
    BY <1>3 DEF NewAccount, AccountRows, ChunkRows, Names
  <2>3. /\ more \in Seq(AccountRows) /\ Len(more) = Len(rows) + 1
        /\ \A i \in 1..Len(rows) : more[i] = rows[i]
        /\ more[Len(rows) + 1] = NewAccount(r)
    BY <2>2, AppendProperties DEF MadeBy
  <2> HIDE DEF more
  <2>4. DOMAIN more = 1..(Len(rows) + 1)
    BY <1>2, <2>3, LenProperties
  <2>5. Len(rows) >= Len(accounts) /\ Len(rows) + 1 \notin Ids
    BY <1>2 DEF MadeBy
  <2>6. /\ DOMAIN more \ Ids = (DOMAIN rows \ Ids) \cup {Len(rows) + 1}
        /\ \A i \in DOMAIN rows : more[i] = rows[i]
        /\ Ids \subseteq DOMAIN rows
    BY <1>2, <2>3, <2>4, <2>5
  <2>7. \A i \in DOMAIN rows \ Ids : rows[i].emp # r.emp
    <3>1. ASSUME NEW i \in DOMAIN rows \ Ids, rows[i].emp = r.emp PROVE FALSE
      <4>1. PICK m \in 1..(k - 1) : import.rows[m].id = 0 /\ rows[i] = NewAccount(import.rows[m])
        BY <3>1 DEF MadeBy
      <4>2. m \in 1..n /\ m # k /\ import.rows[m].emp = r.emp
        BY <1>3, <3>1, <4>1 DEF NewAccount
      <4>3. QED
        BY <1>1, <1>3, <4>2 DEF ChunkFits, r
    <3>2. QED
      BY <3>1
  <2>8. NewAccount(r).emp = r.emp
    BY DEF NewAccount
  <2>9. \A i \in DOMAIN more \ Ids :
           \E m \in 1..k : import.rows[m].id = 0 /\ more[i] = NewAccount(import.rows[m])
    <3>1. 1..(k - 1) \subseteq 1..k /\ k \in 1..k
      BY <1>3
    <3>2. QED
      BY <1>6, <2>3, <2>6, <3>1 DEF MadeBy, r
  <2>10. \A i, j \in DOMAIN more \ Ids : more[i].emp = more[j].emp => i = j
    BY <2>3, <2>6, <2>7, <2>8 DEF MadeBy
  <2>11. \A m \in 1..k : import.rows[m].id = 0 =>
            \/ \E i \in DOMAIN more \ Ids : more[i] = NewAccount(import.rows[m])
            \/ Taken(accounts, 0, import.rows[m].username)
    <3>1. \A m \in 1..k : m = k \/ m \in 1..(k - 1)
      BY <1>3
    <3>2. QED
      BY <2>3, <2>6, <3>1 DEF MadeBy, r
  <2>12. Len(more) >= Len(accounts) /\ \A i \in Ids : more[i] = accounts[i]
    BY <1>2, <2>3, <2>5, <2>6 DEF MadeBy
  <2>13. MadeBy(more, k)
    BY <2>3, <2>9, <2>10, <2>11, <2>12 DEF MadeBy
  <2>14. QED
    BY <2>1, <2>13 DEF r
<1>7. QED
  BY <1>4, <1>5, <1>6

(* So does the whole chunk.                                                 *)
LEMMA AllMade ==
    ASSUME StaffTyped, ChunkFits
    PROVE  MadeBy(AfterCreating[Len(import.rows)], Len(import.rows))
<1>1. PICK n \in Nat : n = Len(import.rows) /\ DOMAIN import.rows = 1..n
  BY LenProperties DEF StaffTyped
<1> DEFINE wrong == {k \in Nat : k <= n /\ ~MadeBy(AfterCreating[k], k)}
<1>2. \A k \in 0..n :
         AfterCreating[k] = IF k = 0 THEN accounts ELSE Create(AfterCreating[k - 1], import.rows[k])
  BY <1>1, CreatingSteps
<1>3. ASSUME wrong # {} PROVE FALSE
  <2>1. PICK k \in wrong : \A i \in wrong : k <= i
    BY <1>3, Smallest
  <2>2. CASE k = 0
    <3>1. AfterCreating[0] = accounts
      BY <1>1, <1>2
    <3>2. MadeBy(accounts, 0)
      <4>1. accounts \in Seq(AccountRows) /\ Len(accounts) \in Nat
        BY LenProperties DEF StaffTyped
      <4>2. DOMAIN accounts \ Ids = {} /\ \A m \in 1..0 : FALSE
        BY DEF Ids
      <4>3. QED
        BY <4>1, <4>2 DEF MadeBy
    <3>3. QED
      BY <2>1, <2>2, <3>1, <3>2
  <2>3. CASE k # 0
    <3>1. k - 1 \in Nat /\ k - 1 <= n /\ k - 1 \notin wrong /\ k \in 1..n
      BY <2>1, <2>3, <1>1
    <3>2. MadeBy(AfterCreating[k - 1], k - 1)
      BY <3>1
    <3>3. MadeBy(Create(AfterCreating[k - 1], import.rows[k]), k)
      BY <1>1, <3>1, <3>2, OneMore
    <3>4. AfterCreating[k] = Create(AfterCreating[k - 1], import.rows[k])
      BY <1>2, <2>3, <3>1
    <3>5. QED
      BY <2>1, <3>3, <3>4
  <2>4. QED
    BY <2>2, <2>3
<1>4. QED
  BY <1>1, <1>3

(* Likewise for the accounts that are updated in turn.                      *)
Turns(turn) == turn \in Seq(Known) /\ \A m, n \in 1..Len(turn) : turn[m] = turn[n] => m = n

Turned(after, turn) ==
    after = [n \in 0..Len(turn) |->
               IF n = 0 THEN accounts
               ELSE LET r == import.rows[turn[n]] IN Updated(after[n - 1], r.id, r.phone)]

LEMMA UpdatingSteps ==
    ASSUME NEW turn, Turns(turn)
    PROVE  \E after : Turned(after, turn) /\ AfterUpdating(turn) = after[Len(turn)]
<1>1. PICK n \in Nat : n = Len(turn)
  BY LenProperties DEF Turns
<1> DEFINE Turn(f, k) == Updated(f[k - 1], import.rows[turn[k]].id, import.rows[turn[k]].phone)
           Follows(f, m) == f = [k \in 0..m |-> IF k = 0 THEN accounts ELSE Turn(f, k)]
           stuck == {m \in Nat : m <= n /\ ~\E f : Follows(f, m)}
<1>2. /\ stuck \in SUBSET Nat /\ \A m \in stuck : m <= n /\ ~\E f : Follows(f, m)
      /\ \A m \in Nat : m <= n /\ m \notin stuck => \E f : Follows(f, m)
  OBVIOUS
<1> HIDE DEF stuck
<1>3. ASSUME stuck # {} PROVE FALSE
  <2>1. PICK m \in stuck : \A i \in stuck : m <= i
    BY <1>2, <1>3, Smallest
  <2>2. CASE m = 0
    <3>1. Follows([k \in 0..0 |-> accounts], 0)
      OBVIOUS
    <3>2. QED
      BY <1>2, <2>1, <2>2, <3>1
  <2>3. CASE m # 0
    <3>1. m - 1 \in Nat /\ m - 1 <= n /\ m - 1 \notin stuck
      BY <1>1, <1>2, <2>1, <2>3
    <3>2. PICK f : Follows(f, m - 1)
      BY <1>2, <3>1
    <3> DEFINE g == [k \in 0..m |-> IF k = m THEN Turn(f, m) ELSE f[k]]
    <3>3. ASSUME NEW k \in 0..m
          PROVE  g[k] = IF k = 0 THEN accounts ELSE Turn(g, k)
      <4>1. CASE k = m
        <5>1. g[m] = Turn(f, m) /\ g[m - 1] = f[m - 1]
          BY <1>2, <2>3, <3>1
        <5>2. QED
          BY <4>1, <5>1, <2>3
      <4>2. CASE k # m
        <5>1. k \in 0..(m - 1) /\ g[k] = f[k] /\ (k # 0 => k - 1 \in 0..m /\ k - 1 # m)
          BY <1>2, <2>3, <3>1, <4>2
        <5>2. k # 0 => g[k - 1] = f[k - 1]
          BY <5>1
        <5>3. f[k] = IF k = 0 THEN accounts ELSE Turn(f, k)
          BY <3>2, <5>1
        <5>4. QED
          BY <5>1, <5>2, <5>3
      <4>3. QED
        BY <4>1, <4>2
    <3>4. Follows(g, m)
      <4> HIDE DEF g
      <4>1. DOMAIN g = 0..m /\ g = [k \in 0..m |-> g[k]]
        BY DEF g
      <4>2. QED
        BY <3>3, <4>1
    <3>5. QED
      BY <1>2, <2>1, <3>4
  <2>4. QED
    BY <2>2, <2>3
<1>4. \E f : Follows(f, n)
  BY <1>1, <1>2, <1>3
<1> DEFINE chosen == CHOOSE f : Follows(f, n)
<1>5. Follows(chosen, n)
  BY <1>4
<1>6. Turned(chosen, turn)
  BY <1>1, <1>5 DEF Turned
<1>7. AfterUpdating(turn) = chosen[n]
  BY <1>1 DEF AfterUpdating
<1>8. QED
  BY <1>1, <1>6, <1>7

(* No later turn is about account j.                                        *)
Settled(turn, n, j) == \A m \in 1..Len(turn) : m > n => import.rows[turn[m]].id # j

(* What n turns have made of the accounts: a phone that was not written is  *)
(* another account's name, as it was or as it will stay.                    *)
UpdatedBy(rows, turn, n) ==
    /\ rows \in Seq(AccountRows)
    /\ Len(rows) = Len(accounts)
    /\ \A i \in Ids :
          /\ rows[i].emp = accounts[i].emp
          /\ rows[i].active = accounts[i].active
          /\ rows[i].status \in {accounts[i].status, "working"}
          /\ (\A m \in 1..n : import.rows[turn[m]].id # i) => rows[i] = accounts[i]
    /\ \A m \in 1..n :
          LET r == import.rows[turn[m]] IN
          \/ rows[r.id].phone = r.phone
          \/ Taken(accounts, r.id, r.phone)
          \/ /\ r.phone # OwnName
             /\ \E j \in Ids \ {r.id} : rows[j].username = r.phone /\ Settled(turn, n, j)

(* Writing a phone changes no other account, and of this one neither the    *)
(* employee nor whether it is active.                                       *)
LEMMA OneUpdated ==
    ASSUME NEW rows \in Seq(AccountRows), NEW id \in DOMAIN rows, NEW phone \in Phones
    PROVE  /\ Updated(rows, id, phone) \in Seq(AccountRows)
           /\ Len(Updated(rows, id, phone)) = Len(rows)
           /\ \A i \in DOMAIN rows : i # id => Updated(rows, id, phone)[i] = rows[i]
           /\ Updated(rows, id, phone)[id].emp = rows[id].emp
           /\ Updated(rows, id, phone)[id].active = rows[id].active
           /\ Updated(rows, id, phone)[id].status \in {rows[id].status, "working"}
           /\ Updated(rows, id, phone)[id].phone = phone \/ Taken(rows, id, phone)
<1>1. CASE Taken(rows, id, phone)
  BY <1>1 DEF Updated
<1>2. CASE ~Taken(rows, id, phone)
  <2> DEFINE row == [rows[id] EXCEPT !.phone = phone, !.username = phone, !.status = "working"]
  <2>1. rows[id] \in AccountRows
    BY ElementOfSeq, LenProperties
  <2>2. /\ row \in AccountRows /\ row.emp = rows[id].emp /\ row.active = rows[id].active
        /\ row.status = "working" /\ row.phone = phone
    BY <2>1 DEF AccountRows, Names
  <2>3. Updated(rows, id, phone) = [rows EXCEPT ![id] = row]
    <3>1. Updated(rows, id, phone) =
            [rows EXCEPT ![id].phone = phone, ![id].username = phone, ![id].status = "working"]
      BY <1>2 DEF Updated
    <3>2. QED
      BY <3>1
  <2> HIDE DEF row
  <2>4. [rows EXCEPT ![id] = row] \in Seq(AccountRows) /\ Len([rows EXCEPT ![id] = row]) = Len(rows)
    BY <2>2, ExceptSeq, LenProperties
  <2>5. QED
    BY <2>2, <2>3, <2>4
<1>3. QED
  BY <1>1, <1>2

(* The next turn is about an account of its own.                            *)
LEMMA OneMoreTurn ==
    ASSUME StaffTyped, ChunkFits, NEW turn, Turns(turn), NEW n \in 1..Len(turn), NEW rows,
           UpdatedBy(rows, turn, n - 1)
    PROVE  UpdatedBy(Updated(rows, import.rows[turn[n]].id, import.rows[turn[n]].phone), turn, n)
<1>1. PICK last \in Nat : last = Len(turn) /\ \A m \in 1..last : turn[m] \in Known
  BY LenProperties, ElementOfSeq DEF Turns
<1>2. /\ Ids = DOMAIN rows /\ Ids \subseteq Nat
  <2>1. accounts \in Seq(AccountRows) /\ rows \in Seq(AccountRows) /\ Len(rows) = Len(accounts)
    BY DEF StaffTyped, UpdatedBy
  <2>2. QED
    BY <2>1, LenProperties DEF Ids
<1> DEFINE row(m) == import.rows[turn[m]]
<1>3. \A m \in 1..last : row(m) \in ChunkRows /\ row(m).id \in Ids /\ accounts[row(m).id].emp = row(m).emp
  <2>1. \A k \in DOMAIN import.rows : import.rows[k] \in ChunkRows
    <3>1. import.rows \in Seq(ChunkRows)
      BY DEF StaffTyped
    <3>2. QED
      BY <3>1, ElementOfSeq, LenProperties
  <2>2. QED
    BY <1>1, <2>1 DEF Known, ChunkFits
<1>4. \A m, k \in 1..last : row(m).id = row(k).id => m = k
  <2>1. SUFFICES ASSUME NEW m \in 1..last, NEW k \in 1..last, row(m).id = row(k).id PROVE m = k
    OBVIOUS
  <2>2. row(m).emp = row(k).emp
    BY <1>3, <2>1
  <2>3. turn[m] = turn[k]
    BY <1>1, <2>2 DEF Known, ChunkFits
  <2>4. QED
    BY <1>1, <2>3 DEF Turns
<1> DEFINE id == row(n).id
           phone == row(n).phone
           now == Updated(rows, id, phone)
<1>5. id \in Ids /\ phone \in Phones /\ n \in 1..last
  BY <1>1, <1>3 DEF ChunkRows
<1>6. /\ now \in Seq(AccountRows) /\ Len(now) = Len(rows)
      /\ \A i \in Ids : i # id => now[i] = rows[i]
      /\ now[id].emp = rows[id].emp
      /\ now[id].active = rows[id].active
      /\ now[id].status \in {rows[id].status, "working"}
      /\ now[id].phone = phone \/ Taken(rows, id, phone)
  BY <1>2, <1>5, OneUpdated DEF UpdatedBy
<1>7. \A m \in 1..n : m = n \/ m \in 1..(n - 1)
  BY <1>5
<1>8. 1..(n - 1) \subseteq 1..n /\ n \in 1..n /\ 1..n \subseteq 1..last
  BY <1>5
<1>9. \A j \in Ids : Settled(turn, n - 1, j) => Settled(turn, n, j) /\ j # id
  <2>1. \A m \in 1..last : m > n => m > n - 1
    BY <1>5
  <2>2. n > n - 1
    BY <1>5
  <2>3. QED
    BY <1>1, <1>5, <2>1, <2>2 DEF Settled
<1> HIDE DEF now
<1>10. \A m \in 1..n :
          \/ now[row(m).id].phone = row(m).phone
          \/ Taken(accounts, row(m).id, row(m).phone)
          \/ /\ row(m).phone # OwnName
             /\ \E j \in Ids \ {row(m).id} : now[j].username = row(m).phone /\ Settled(turn, n, j)
  <2>1. ASSUME NEW m \in 1..(n - 1)
        PROVE  \/ now[row(m).id].phone = row(m).phone
               \/ Taken(accounts, row(m).id, row(m).phone)
               \/ /\ row(m).phone # OwnName
                  /\ \E j \in Ids \ {row(m).id} : now[j].username = row(m).phone /\ Settled(turn, n, j)
    <3>1. m \in 1..last /\ m # n
      BY <1>5
    <3>2. row(m).id # id /\ now[row(m).id] = rows[row(m).id]
      BY <1>3, <1>4, <1>5, <1>6, <3>1
    <3>3. \/ rows[row(m).id].phone = row(m).phone
          \/ Taken(accounts, row(m).id, row(m).phone)
          \/ /\ row(m).phone # OwnName
             /\ \E j \in Ids \ {row(m).id} : rows[j].username = row(m).phone /\ Settled(turn, n - 1, j)
      BY DEF UpdatedBy
    <3>4. QED
      BY <1>6, <1>9, <3>2, <3>3
  <2>2. ASSUME Taken(rows, id, phone)
        PROVE  \/ Taken(accounts, id, phone)
               \/ /\ phone # OwnName
                  /\ \E j \in Ids \ {id} : now[j].username = phone /\ Settled(turn, n, j)
    <3>1. PICK j \in Ids \ {id} : rows[j].username = phone /\ phone # OwnName
      BY <1>2, <2>2 DEF Taken
    <3>2. CASE Settled(turn, n, j)
      BY <1>6, <3>1, <3>2
    <3>3. CASE ~Settled(turn, n, j)
      <4>1. PICK k \in 1..last : k > n /\ row(k).id = j
        BY <1>1, <3>3 DEF Settled
      <4>2. \A m \in 1..(n - 1) : row(m).id # j
        <5>1. ASSUME NEW m \in 1..(n - 1), row(m).id = j PROVE FALSE
          <6>1. m \in 1..last /\ m # k
            BY <1>5, <4>1
          <6>2. QED
            BY <1>4, <4>1, <5>1, <6>1
        <5>2. QED
          BY <5>1
      <4>3. rows[j] = accounts[j]
        BY <3>1, <4>2 DEF UpdatedBy
      <4>4. QED
        BY <3>1, <4>3 DEF Taken, Ids
    <3>4. QED
      BY <3>2, <3>3
  <2>3. QED
    BY <1>6, <1>7, <2>1, <2>2
<1>11. ASSUME NEW i \in Ids
       PROVE  /\ now[i].emp = accounts[i].emp
              /\ now[i].active = accounts[i].active
              /\ now[i].status \in {accounts[i].status, "working"}
              /\ (\A m \in 1..n : row(m).id # i) => now[i] = accounts[i]
  <2>1. /\ rows[i].emp = accounts[i].emp
        /\ rows[i].active = accounts[i].active
        /\ rows[i].status \in {accounts[i].status, "working"}
        /\ (\A m \in 1..(n - 1) : row(m).id # i) => rows[i] = accounts[i]
    BY DEF UpdatedBy
  <2>2. QED
    BY <1>6, <1>8, <2>1
<1>12. UpdatedBy(now, turn, n)
  BY <1>6, <1>10, <1>11 DEF UpdatedBy
<1>13. QED
  BY <1>12 DEF now

(* So do all turns.                                                         *)
LEMMA AllUpdated ==
    ASSUME StaffTyped, ChunkFits, NEW turn, Turns(turn)
    PROVE  UpdatedBy(AfterUpdating(turn), turn, Len(turn))
<1>1. PICK last \in Nat : last = Len(turn)
  BY LenProperties DEF Turns
<1>2. PICK after : Turned(after, turn) /\ AfterUpdating(turn) = after[last]
  BY <1>1, UpdatingSteps
<1> DEFINE wrong == {n \in Nat : n <= last /\ ~UpdatedBy(after[n], turn, n)}
<1>3. \A n \in 0..last :
         after[n] = IF n = 0 THEN accounts
                    ELSE Updated(after[n - 1], import.rows[turn[n]].id, import.rows[turn[n]].phone)
  BY <1>1, <1>2 DEF Turned
<1>4. ASSUME wrong # {} PROVE FALSE
  <2>1. PICK n \in wrong : \A i \in wrong : n <= i
    BY <1>4, Smallest
  <2>2. CASE n = 0
    <3>1. after[0] = accounts
      BY <1>1, <1>3
    <3>2. \A m \in 1..0 : FALSE
      OBVIOUS
    <3>3. accounts \in Seq(AccountRows)
      BY DEF StaffTyped
    <3>4. UpdatedBy(accounts, turn, 0)
      BY <3>2, <3>3 DEF UpdatedBy
    <3>5. QED
      BY <2>1, <2>2, <3>1, <3>4
  <2>3. CASE n # 0
    <3>1. n - 1 \in Nat /\ n - 1 <= last /\ n - 1 \notin wrong /\ n \in 1..last
      BY <2>1, <2>3, <1>1
    <3>2. UpdatedBy(after[n - 1], turn, n - 1)
      BY <3>1
    <3>3. UpdatedBy(Updated(after[n - 1], import.rows[turn[n]].id, import.rows[turn[n]].phone), turn, n)
      BY <1>1, <3>1, <3>2, OneMoreTurn
    <3>4. after[n] = Updated(after[n - 1], import.rows[turn[n]].id, import.rows[turn[n]].phone)
      BY <1>3, <2>3, <3>1
    <3>5. QED
      BY <2>1, <3>3, <3>4
  <2>4. QED
    BY <2>2, <2>3
<1>5. QED
  BY <1>1, <1>2, <1>4

-----------------------------------------------------------------------------
(* The invariant holds of the empty tables.                                 *)
LEMMA StaffBegins == StaffInit => StaffInv
<1> SUFFICES ASSUME StaffInit PROVE StaffInv
  OBVIOUS
<1>1. /\ register = [e \in Employees |-> NotListed] /\ accounts = <<>>
      /\ import = [step |-> "idle", rows |-> <<>>]
      /\ leavers = [step |-> "idle", todo |-> {}, missed |-> {}, due |-> {}]
      /\ loaded = {}
  BY DEF StaffInit, NoImport, NoRun
<1>2. <<>> \in Seq(AccountRows) /\ <<>> \in Seq(ChunkRows) /\ DOMAIN <<>> = {}
  BY EmptySeq, LenProperties
<1>3. Ids = {} /\ DOMAIN import.rows = {}
  BY <1>1, <1>2 DEF Ids
<1>4. StaffTyped
  BY <1>1, <1>2, <1>3 DEF StaffTyped
<1>5. ChunkFits
  BY <1>3 DEF ChunkFits
<1>6. LoadedFits /\ RunFits
  BY <1>1 DEF LoadedFits, RunFits
<1>7. ActiveWork /\ OneEach
  BY <1>3 DEF ActiveWork, OneEach
<1>8. QED
  BY <1>4, <1>5, <1>6, <1>7 DEF StaffInv

(* A statement that gives no account to another employee, and neither       *)
(* enables nor disables one.                                                *)
LEMMA SameHolders ==
    ASSUME StaffInv, accounts' \in Seq(AccountRows), Len(accounts') = Len(accounts),
           \A i \in Ids : /\ accounts'[i].emp = accounts[i].emp
                          /\ accounts'[i].active = accounts[i].active
                          /\ accounts'[i].status \in {accounts[i].status, "working"},
           restored \subseteq restored', register' = register, leavers' = leavers, loaded' = loaded,
           import' = import \/ import' = NoImport
    PROVE  StaffInv'
<1>1. Ids' = Ids
  <2>1. accounts \in Seq(AccountRows)
    BY DEF StaffInv, StaffTyped
  <2>2. QED
    BY <2>1, LenProperties DEF Ids
<1>2. import' \in [step : {"idle", "create", "update"}, rows : Seq(ChunkRows)]
  <2>1. <<>> \in Seq(ChunkRows)
    BY EmptySeq
  <2>2. NoImport \in [step : {"idle", "create", "update"}, rows : Seq(ChunkRows)]
    BY <2>1 DEF NoImport
  <2>3. import \in [step : {"idle", "create", "update"}, rows : Seq(ChunkRows)]
    BY DEF StaffInv, StaffTyped
  <2>4. QED
    BY <2>2, <2>3
<1>3. StaffTyped'
  BY <1>1, <1>2 DEF StaffInv, StaffTyped
<1>4. \A e : Active(e)' = Active(e)
  BY <1>1 DEF Active
<1>5. ChunkFits'
  <2>1. CASE import' = import
    BY <1>1, <1>4, <2>1 DEF StaffInv, ChunkFits
  <2>2. CASE import' = NoImport
    <3>1. DOMAIN import'.rows = {}
      BY <2>2, EmptySeq, LenProperties DEF NoImport
    <3>2. QED
      BY <3>1 DEF ChunkFits
  <2>3. QED
    BY <2>1, <2>2
<1>6. LoadedFits'
  BY DEF StaffInv, LoadedFits, StaffTyped
<1>7. ActiveWork'
  BY <1>1 DEF StaffInv, ActiveWork
<1>8. OneEach'
  BY <1>1 DEF StaffInv, OneEach
<1>9. RunFits'
  BY DEF StaffInv, RunFits, StaffTyped
<1>10. QED
  BY <1>3, <1>5, <1>6, <1>7, <1>8, <1>9 DEF StaffInv

(* One employee is updated by hand.                                         *)
LEMMA ManualKeeps ==
    ASSUME StaffInv, NEW e \in Employees, ManualUpdate(e)
    PROVE  StaffInv'
<1>1. PICK i \in Ids : accounts' = Updated(accounts, i, register[e])
  BY DEF ManualUpdate
<1>2. register[e] \in Phones /\ accounts \in Seq(AccountRows)
  BY DEF ManualUpdate, StaffInv, StaffTyped
<1>3. QED
  <2>1. /\ accounts' \in Seq(AccountRows) /\ Len(accounts') = Len(accounts)
        /\ \A j \in Ids : /\ accounts'[j].emp = accounts[j].emp
                          /\ accounts'[j].active = accounts[j].active
                          /\ accounts'[j].status \in {accounts[j].status, "working"}
    BY <1>1, <1>2, OneUpdated DEF Ids
  <2>2. /\ restored' = restored /\ register' = register /\ leavers' = leavers /\ loaded' = loaded
        /\ import' = import
    BY DEF ManualUpdate
  <2>3. QED
    BY <2>1, <2>2, SameHolders

(* The import's second statement.                                           *)
LEMMA BulkUpdateKeeps ==
    ASSUME StaffInv, NEW turn, Turns(turn), accounts' = AfterUpdating(turn), BulkUpdate
    PROVE  StaffInv'
<1>1. UpdatedBy(accounts', turn, Len(turn))
  BY AllUpdated DEF StaffInv
<1>2. QED
  <2>1. /\ accounts' \in Seq(AccountRows) /\ Len(accounts') = Len(accounts)
        /\ \A j \in Ids : /\ accounts'[j].emp = accounts[j].emp
                          /\ accounts'[j].active = accounts[j].active
                          /\ accounts'[j].status \in {accounts[j].status, "working"}
    BY <1>1 DEF UpdatedBy
  <2>2. /\ restored \subseteq restored' /\ register' = register /\ leavers' = leavers /\ loaded' = loaded
        /\ import' = NoImport
    BY DEF BulkUpdate
  <2>3. QED
    BY <2>1, <2>2, SameHolders

(* The accounts the import found are in some order.                         *)
LEMMA SomeTurns ==
    ASSUME StaffTyped, NEW turn \in SetToSeqs(Known)
    PROVE  Turns(turn) /\ \A k \in Known : \E m \in 1..Len(turn) : turn[m] = k
<1>1. IsFiniteSet(Known)
  <2>1. PICK n \in Nat : DOMAIN import.rows = 1..n
    BY LenProperties DEF StaffTyped
  <2>2. IsFiniteSet(1..n) /\ Known \in SUBSET (1..n)
    BY <2>1, FS_Interval DEF Known
  <2>3. QED
    BY <2>2, FS_Subset
<1>2. PICK c \in Nat : c = Cardinality(Known)
  BY <1>1, FS_CardinalityType
<1>3. turn \in [1..c -> Known] /\ \A i, j \in 1..c : i # j => turn[i] # turn[j]
  BY <1>2 DEF SetToSeqs
<1>4. turn \in Seq(Known) /\ Len(turn) = c
  BY <1>3, SeqDef, LenProperties
<1>5. turn \in Injection(1..c, Known)
  BY <1>3 DEF Injection, IsInjective
<1>6. Cardinality(1..c) = c
  BY <1>2, FS_Interval
<1>7. turn \in Surjection(1..c, Known)
  BY <1>1, <1>2, <1>5, <1>6, FS_Injection
<1>8. QED
  BY <1>3, <1>4, <1>7 DEF Turns, Surjection

(* An account is a row.                                                     *)
LEMMA RowOf == ASSUME StaffInv, NEW i \in Ids PROVE accounts[i] \in AccountRows
<1>1. accounts \in Seq(AccountRows)
  BY DEF StaffInv, StaffTyped
<1>2. QED
  BY <1>1, ElementOfSeq, LenProperties DEF Ids

(* The register changes: whoever is about to be disabled is so no more.     *)
LEMMA NewsKeeps ==
    ASSUME StaffInv, NEW e \in Employees, NEW phone \in Phones \cup {NotListed}, News(e, phone)
    PROVE  StaffInv'
<1>1. /\ register' = [register EXCEPT ![e] = phone]
      /\ leavers' = [leavers EXCEPT !.due = {i \in @ : accounts[i].emp # e}]
      /\ accounts' = accounts /\ import' = import /\ loaded' = loaded /\ restored' = restored
  BY DEF News
<1>2. Ids' = Ids
  BY <1>1 DEF Ids
<1>3. /\ leavers'.due = {i \in leavers.due : accounts[i].emp # e}
      /\ leavers'.todo = leavers.todo /\ leavers'.missed = leavers.missed
  BY <1>1 DEF StaffInv, StaffTyped
<1>4. StaffTyped'
  <2>1. leavers' \in [step : {"idle", "look up"}, todo : SUBSET Ids, missed : SUBSET Ids, due : SUBSET Ids]
    BY <1>1 DEF StaffInv, StaffTyped
  <2>2. register' \in [Employees -> Phones \cup {NotListed}]
    BY <1>1 DEF StaffInv, StaffTyped
  <2>3. QED
    BY <1>1, <1>2, <2>1, <2>2 DEF StaffInv, StaffTyped
<1>5. ChunkFits' /\ LoadedFits' /\ ActiveWork' /\ OneEach'
  BY <1>1, <1>2 DEF StaffInv, ChunkFits, LoadedFits, ActiveWork, OneEach, Active
<1>6. RunFits'
  <2>1. \A f \in Employees : f # e => register'[f] = register[f]
    BY <1>1 DEF StaffInv, StaffTyped
  <2>2. \A i \in leavers.due : accounts[i].emp \in Employees
    <3>1. \A i \in Ids : accounts[i] \in AccountRows
      BY RowOf
    <3>2. QED
      BY <3>1 DEF StaffInv, StaffTyped, AccountRows
  <2>3. QED
    BY <1>1, <1>3, <2>1, <2>2 DEF StaffInv, RunFits
<1>7. QED
  BY <1>4, <1>5, <1>6 DEF StaffInv

(* A request loads an active account.                                       *)
LEMMA LoadKeeps ==
    ASSUME StaffInv, NEW i \in Ids, LoadAccount(i)
    PROVE  StaffInv'
<1>1. /\ loaded' = {[id |-> i, row |-> accounts[i]]} /\ accounts[i].active
      /\ accounts' = accounts /\ import' = import /\ leavers' = leavers /\ restored' = restored
      /\ register' = register
  BY DEF LoadAccount
<1>2. Ids' = Ids
  BY <1>1 DEF Ids
<1>3. accounts[i] \in AccountRows
  BY RowOf
<1>4. StaffTyped'
  <2>1. loaded' \subseteq [id : Ids, row : AccountRows]
    BY <1>1, <1>3
  <2>2. QED
    BY <1>1, <1>2, <2>1 DEF StaffInv, StaffTyped
<1>5. LoadedFits'
  BY <1>1 DEF StaffInv, LoadedFits, ActiveWork
<1>6. ChunkFits' /\ ActiveWork' /\ OneEach' /\ RunFits'
  BY <1>1, <1>2 DEF StaffInv, ChunkFits, ActiveWork, OneEach, RunFits, Active
<1>7. QED
  BY <1>4, <1>5, <1>6 DEF StaffInv

(* The row it saves is active: if the account was disabled meanwhile, it is *)
(* restored.                                                                *)
LEMMA SaveKeeps ==
    ASSUME StaffInv, NEW l \in loaded, SaveAccount(l)
    PROVE  StaffInv'
<1>1. /\ loaded' = loaded \ {l} /\ import' = import /\ leavers' = leavers /\ register' = register
      /\ IF Taken(accounts, l.id, l.row.username) THEN accounts' = accounts /\ restored' = restored
         ELSE /\ accounts' = [accounts EXCEPT ![l.id] = l.row]
              /\ restored' = IF accounts[l.id].active THEN restored ELSE restored \cup {l.id}
  BY DEF SaveAccount
<1>2. /\ l.id \in Ids /\ l.row \in AccountRows /\ l.row.active /\ l.row.status = "working"
      /\ l.row.emp = accounts[l.id].emp
  BY DEF StaffInv, StaffTyped, LoadedFits
<1>3. restored \subseteq restored'
  BY <1>1
<1>4. /\ accounts' \in Seq(AccountRows) /\ Ids' = Ids
      /\ \A i \in Ids :
            /\ accounts'[i].emp = accounts[i].emp
            /\ accounts'[i] = accounts[i] \/ accounts'[i].status = "working"
            /\ accounts'[i].active => accounts[i].active \/ i \in restored'
  <2>1. CASE accounts' = accounts
    BY <2>1 DEF StaffInv, StaffTyped, Ids
  <2>2. CASE ~Taken(accounts, l.id, l.row.username)
    <3>1. accounts \in Seq(AccountRows)
      BY DEF StaffInv, StaffTyped
    <3>2. accounts' = [accounts EXCEPT ![l.id] = l.row]
      BY <1>1, <2>2
    <3>3. accounts' \in Seq(AccountRows)
      BY <1>2, <3>1, <3>2, ExceptSeq DEF Ids
    <3>4. DOMAIN accounts' = DOMAIN accounts
      BY <3>2
    <3>5. accounts'[l.id] = l.row /\ \A i \in Ids \ {l.id} : accounts'[i] = accounts[i]
      BY <1>2, <3>2 DEF Ids
    <3>6. accounts[l.id].active \/ l.id \in restored'
      BY <1>1, <2>2
    <3>7. QED
      BY <1>2, <3>3, <3>4, <3>5, <3>6 DEF Ids
  <2>3. QED
    BY <1>1, <2>1, <2>2
<1>5. StaffTyped'
  BY <1>1, <1>4 DEF StaffInv, StaffTyped
<1>6. \A e : Active(e) \subseteq restored => Active(e)' \subseteq restored'
  BY <1>3, <1>4 DEF Active
<1>7. ChunkFits'
  BY <1>1, <1>4, <1>6 DEF StaffInv, ChunkFits
<1>8. LoadedFits'
  BY <1>1, <1>4 DEF StaffInv, LoadedFits, StaffTyped
<1>9. ActiveWork'
  BY <1>4 DEF StaffInv, ActiveWork
<1>10. OneEach'
  BY <1>3, <1>4 DEF StaffInv, OneEach
<1>11. RunFits'
  <2>1. leavers.due \subseteq Ids
    BY DEF StaffInv, StaffTyped
  <2>2. QED
    BY <1>1, <1>3, <1>4, <2>1 DEF StaffInv, RunFits
<1>12. QED
  BY <1>5, <1>7, <1>8, <1>9, <1>10, <1>11 DEF StaffInv

(* The run reads the accounts, and everybody active who has left is among   *)
(* them.                                                                    *)
LEMMA ReadAccountsKeeps ==
    ASSUME StaffInv, ReadAccounts
    PROVE  StaffInv'
<1>1. /\ leavers' = [step |-> "look up", missed |-> {},
                     todo |-> {i \in Ids : accounts[i].status = "working"},
                     due |-> {i \in Ids : accounts[i].active /\ register[accounts[i].emp] = NotListed}]
      /\ accounts' = accounts /\ import' = import /\ loaded' = loaded /\ restored' = restored
      /\ register' = register
  BY DEF ReadAccounts
<1>2. Ids' = Ids
  BY <1>1 DEF Ids
<1>3. StaffTyped'
  BY <1>1, <1>2 DEF StaffInv, StaffTyped
<1>4. ChunkFits' /\ LoadedFits' /\ ActiveWork' /\ OneEach'
  <2>1. ChunkFits /\ LoadedFits /\ ActiveWork /\ OneEach
    BY DEF StaffInv
  <2>2. accounts' = accounts /\ import' = import /\ loaded' = loaded /\ restored' = restored
    BY DEF ReadAccounts
  <2>3. QED
    BY <1>2, <2>1, <2>2 DEF ChunkFits, LoadedFits, ActiveWork, OneEach, Active
<1>5. RunFits'
  BY <1>1 DEF StaffInv, RunFits, ActiveWork
<1>6. QED
  BY <1>3, <1>4, <1>5 DEF StaffInv

(* Whoever has left is disabled or missed.                                  *)
LEMMA LookUpKeeps ==
    ASSUME StaffInv, NEW i \in leavers.todo, LookUp(i)
    PROVE  StaffInv'
<1> DEFINE left == register[accounts[i].emp] = NotListed
           twice == i \in signerTwice
<1>1. /\ accounts' = IF ~left THEN [accounts EXCEPT ![i].status = "working"]
                     ELSE IF twice THEN accounts ELSE [accounts EXCEPT ![i] = Disabled(accounts[i])]
      /\ leavers' = [leavers EXCEPT !.todo = @ \ {i},
                                    !.missed = IF left /\ twice THEN @ \cup {i} ELSE @]
      /\ restored' = IF left /\ ~twice THEN restored \ {i} ELSE restored
      /\ import' = import /\ loaded' = loaded /\ register' = register
  BY DEF LookUp
<1>2. i \in Ids /\ accounts \in Seq(AccountRows)
  BY DEF StaffInv, StaffTyped
<1>3. accounts[i] \in AccountRows
  BY <1>2, ElementOfSeq, LenProperties DEF Ids
<1> HIDE DEF left, twice
<1>4. /\ accounts' \in Seq(AccountRows) /\ Ids' = Ids
      /\ \A k \in Ids \ {i} : accounts'[k] = accounts[k]
      /\ accounts'[i].emp = accounts[i].emp
      /\ accounts'[i].active => accounts[i].active /\ accounts'[i].status \in {accounts[i].status, "working"}
      /\ left => twice \/ ~accounts'[i].active
  <2>1. CASE ~left
    <3> DEFINE row == [accounts[i] EXCEPT !.status = "working"]
    <3>1. accounts' = [accounts EXCEPT ![i] = row]
      BY <1>1, <2>1
    <3>2. row \in AccountRows /\ row.emp = accounts[i].emp /\ row.active = accounts[i].active
          /\ row.status = "working"
      BY <1>3 DEF AccountRows
    <3> HIDE DEF row
    <3>3. accounts' \in Seq(AccountRows)
      BY <1>2, <3>1, <3>2, ExceptSeq DEF Ids
    <3>4. QED
      BY <1>2, <2>1, <3>1, <3>2, <3>3 DEF Ids
  <2>2. CASE left /\ twice
    BY <1>1, <1>2, <2>2 DEF Ids
  <2>3. CASE left /\ ~twice
    <3>1. accounts' = [accounts EXCEPT ![i] = Disabled(accounts[i])]
      BY <1>1, <2>3
    <3>2. Disabled(accounts[i]) \in AccountRows /\ Disabled(accounts[i]).emp = accounts[i].emp
          /\ ~Disabled(accounts[i]).active
      BY <1>3 DEF AccountRows, Disabled, Names
    <3>3. accounts' \in Seq(AccountRows)
      BY <1>2, <3>1, <3>2, ExceptSeq DEF Ids
    <3>4. QED
      BY <1>2, <2>3, <3>1, <3>2, <3>3 DEF Ids
  <2>4. QED
    BY <2>1, <2>2, <2>3
<1>5. /\ leavers'.todo = leavers.todo \ {i} /\ leavers'.due = leavers.due
      /\ leavers'.missed = (IF left /\ twice THEN leavers.missed \cup {i} ELSE leavers.missed)
      /\ leavers' \in [step : {"idle", "look up"}, todo : SUBSET Ids, missed : SUBSET Ids, due : SUBSET Ids]
  BY <1>1, <1>2 DEF StaffInv, StaffTyped
<1>6. StaffTyped'
  BY <1>1, <1>4, <1>5 DEF StaffInv, StaffTyped
<1>7. \A k \in Ids : accounts'[k].active => accounts[k].active /\ (k \in restored => k \in restored')
  BY <1>1, <1>4
<1>8. \A e : Active(e) \subseteq restored => Active(e)' \subseteq restored'
  BY <1>4, <1>7 DEF Active
<1>9. ChunkFits'
  BY <1>1, <1>4, <1>8 DEF StaffInv, ChunkFits
<1>10. LoadedFits'
  BY <1>1, <1>4 DEF StaffInv, LoadedFits, StaffTyped
<1>11. ActiveWork'
  BY <1>4 DEF StaffInv, ActiveWork
<1>12. OneEach'
  BY <1>4, <1>7 DEF StaffInv, OneEach
<1>13. RunFits'
  <2>1. SUFFICES ASSUME NEW k \in leavers.due
                 PROVE  /\ register[accounts'[k].emp] = NotListed
                        /\ accounts'[k].active => k \in leavers'.todo \cup leavers'.missed \cup restored'
    BY <1>1, <1>5 DEF RunFits
  <2>2. k \in Ids /\ register[accounts[k].emp] = NotListed
        /\ (accounts[k].active => k \in leavers.todo \cup leavers.missed \cup restored)
    BY DEF StaffInv, StaffTyped, RunFits
  <2>3. CASE k = i
    <3>1. left
      BY <2>2, <2>3 DEF left
    <3>2. QED
      BY <1>4, <1>5, <2>2, <2>3, <3>1
  <2>4. CASE k # i
    BY <1>4, <1>5, <1>7, <2>2, <2>4
  <2>5. QED
    BY <2>3, <2>4
<1>14. QED
  BY <1>6, <1>9, <1>10, <1>11, <1>12, <1>13 DEF StaffInv

(* Whose lookup fails is missed; at its end nobody is due.                  *)
LEMMA RunKeeps ==
    ASSUME StaffInv, (\E i \in leavers.todo : LookUpFails(i)) \/ RunEnds
    PROVE  StaffInv'
<1>1. /\ accounts' = accounts /\ import' = import /\ loaded' = loaded /\ restored' = restored
      /\ register' = register
  BY DEF LookUpFails, RunEnds
<1>2. Ids' = Ids
  BY <1>1 DEF Ids
<1>3. /\ leavers' \in [step : {"idle", "look up"}, todo : SUBSET Ids, missed : SUBSET Ids, due : SUBSET Ids]
      /\ leavers'.due \subseteq leavers.due
      /\ \A k \in leavers'.due : k \in leavers.todo \cup leavers.missed =>
                                   k \in leavers'.todo \cup leavers'.missed
  <2>1. ASSUME NEW i \in leavers.todo, LookUpFails(i)
        PROVE  /\ leavers' = [leavers EXCEPT !.todo = @ \ {i}, !.missed = @ \cup {i}]
               /\ i \in Ids
    BY <2>1 DEF LookUpFails, StaffInv, StaffTyped
  <2>2. CASE RunEnds
    BY <2>2 DEF RunEnds, NoRun
  <2>3. CASE \E i \in leavers.todo : LookUpFails(i)
    <3>1. PICK i \in leavers.todo : LookUpFails(i)
      BY <2>3
    <3>2. leavers' = [leavers EXCEPT !.todo = @ \ {i}, !.missed = @ \cup {i}] /\ i \in Ids
      BY <2>1, <3>1
    <3>3. leavers \in [step : {"idle", "look up"}, todo : SUBSET Ids, missed : SUBSET Ids, due : SUBSET Ids]
      BY DEF StaffInv, StaffTyped
    <3>4. QED
      BY <3>2, <3>3
  <2>4. QED
    BY <2>2, <2>3
<1>4. StaffTyped'
  BY <1>1, <1>2, <1>3 DEF StaffInv, StaffTyped
<1>5. ChunkFits' /\ LoadedFits' /\ ActiveWork' /\ OneEach'
  BY <1>1, <1>2 DEF StaffInv, ChunkFits, LoadedFits, ActiveWork, OneEach, Active
<1>6. RunFits'
  BY <1>1, <1>3 DEF StaffInv, RunFits
<1>7. QED
  BY <1>4, <1>5, <1>6 DEF StaffInv

(* The newest active account of an employee, if he has one.                 *)
LEMMA FoundIsHis ==
    ASSUME StaffInv, NEW e
    PROVE  /\ Found(e) \in Nat
           /\ Found(e) # 0 => Found(e) \in Ids /\ accounts[Found(e)].emp = e
           /\ Found(e) = 0 => Active(e) = {}
<1>1. PICK n \in Nat : n = Len(accounts) /\ Ids = 1..n
  BY LenProperties DEF StaffInv, StaffTyped, Ids
<1>2. CASE Active(e) = {}
  BY <1>2 DEF Found
<1>3. CASE Active(e) # {}
  <2>1. Active(e) \in SUBSET Nat /\ \A i \in Active(e) : i <= n
    BY <1>1 DEF Active
  <2>2. Max(Active(e)) \in Active(e)
    BY <1>1, <1>3, <2>1, Largest
  <2>3. Found(e) = Max(Active(e))
    BY <1>3 DEF Found
  <2>4. QED
    BY <1>1, <2>2, <2>3 DEF Active
<1>4. QED
  BY <1>2, <1>3

(* The import reads a chunk: new names differ from each other.              *)
LEMMA ReadChunkKeeps ==
    ASSUME StaffInv, NEW order \in SetToSeqs({e \in Employees : register[e] # NotListed}), ReadChunk(order)
    PROVE  StaffInv'
<1> DEFINE listed == {e \in Employees : register[e] # NotListed}
<1>1. PICK n \in Nat : /\ order \in [1..n -> listed]
                       /\ \A k, m \in 1..n : order[k] = order[m] => k = m
  <2>1. Cardinality(listed) \in Nat
    BY StaffAssumption, FS_Subset, FS_CardinalityType
  <2>2. QED
    BY <2>1 DEF SetToSeqs
<1> DEFINE row(k) == [emp |-> order[k], phone |-> register[order[k]], id |-> Found(order[k]),
                      username |-> IF Found(order[k]) # 0 THEN register[order[k]] ELSE NewName(order, k)]
<1>2. /\ accounts' = accounts /\ leavers' = leavers /\ loaded' = loaded /\ restored' = restored
      /\ register' = register
  BY DEF ReadChunk
<1>3. import' = [step |-> "create", rows |-> [k \in 1..n |-> row(k)]]
  BY <1>1 DEF ReadChunk
<1>4. \A k \in 1..n : order[k] \in Employees /\ register[order[k]] \in Phones
  BY <1>1 DEF StaffInv, StaffTyped
<1>5. \A k \in 1..n : NewName(order, k) \in {OwnName, register[order[k]]}
  BY DEF NewName
<1>6. \A k \in 1..n : row(k) \in ChunkRows
  <2>1. ASSUME NEW k \in 1..n PROVE row(k) \in ChunkRows
    <3>1. Found(order[k]) \in Nat
      BY FoundIsHis
    <3>2. QED
      BY <1>4, <1>5, <3>1 DEF ChunkRows, Names
  <2>2. QED
    BY <2>1
<1>7. PICK rows : rows = [k \in 1..n |-> row(k)]
  OBVIOUS
<1>8. /\ rows \in Seq(ChunkRows) /\ DOMAIN rows = 1..n /\ import' = [step |-> "create", rows |-> rows]
      /\ \A k \in 1..n : /\ rows[k].emp = order[k] /\ rows[k].id = Found(order[k])
                         /\ Found(order[k]) = 0 => rows[k].username = NewName(order, k)
  <2>1. rows \in [1..n -> ChunkRows]
    BY <1>6, <1>7
  <2>2. QED
    BY <1>3, <1>7, <2>1, SeqDef
<1> HIDE DEF row
<1>9. Ids' = Ids
  BY <1>2 DEF Ids
<1>10. StaffTyped'
  <2>1. import' \in [step : {"idle", "create", "update"}, rows : Seq(ChunkRows)]
    BY <1>8
  <2>2. QED
    BY <1>2, <1>9, <2>1 DEF StaffInv, StaffTyped
<1>11. \A k, m \in 1..n : (/\ Found(order[k]) = 0 /\ Found(order[m]) = 0
                           /\ NewName(order, m) = NewName(order, k) /\ NewName(order, k) # OwnName)
                             => k = m
  <2>1. ASSUME NEW k \in 1..n, NEW m \in 1..n, m < k, Found(order[m]) = 0, Found(order[k]) = 0,
               NewName(order, m) = NewName(order, k), NewName(order, k) # OwnName
        PROVE  FALSE
    <3>1. register[order[m]] = register[order[k]]
      BY <1>5, <2>1
    <3>2. m \in 1..(k - 1)
      BY <2>1
    <3>3. NewName(order, k) = OwnName
      BY <2>1, <3>1, <3>2 DEF NewName
    <3>4. QED
      BY <2>1, <3>3
  <2>2. SUFFICES ASSUME NEW k \in 1..n, NEW m \in 1..n, Found(order[m]) = 0, Found(order[k]) = 0,
                        NewName(order, m) = NewName(order, k), NewName(order, k) # OwnName
                 PROVE  k = m
    OBVIOUS
  <2>3. ~(m < k) /\ ~(k < m)
    BY <2>1, <2>2
  <2>4. QED
    BY <2>3
<1>12. ChunkFits'
  <2>1. ASSUME NEW k \in 1..n
        PROVE  /\ \A m \in 1..n : rows[m].emp = rows[k].emp => m = k
               /\ rows[k].id # 0 => rows[k].id \in Ids /\ accounts[rows[k].id].emp = rows[k].emp
               /\ rows[k].id = 0 => Active(rows[k].emp) \subseteq restored
               /\ \A m \in 1..n : (/\ rows[k].id = 0 /\ rows[m].id = 0
                                   /\ rows[m].username = rows[k].username /\ rows[k].username # OwnName)
                                     => m = k
    BY <1>1, <1>8, <1>11, FoundIsHis
  <2>2. \A e : Active(e)' = Active(e)
    BY <1>2, <1>9 DEF Active
  <2>3. SUFFICES ASSUME NEW k \in 1..n
                 PROVE  /\ \A m \in 1..n : rows[m].emp = rows[k].emp => m = k
                        /\ rows[k].id # 0 => rows[k].id \in Ids' /\ accounts'[rows[k].id].emp = rows[k].emp
                        /\ rows[k].id = 0 =>
                             /\ Active(rows[k].emp)' \subseteq restored'
                             /\ \A m \in 1..n : (/\ rows[m].id = 0
                                                 /\ rows[m].username = rows[k].username
                                                 /\ rows[k].username # OwnName)
                                                   => m = k
    BY <1>8 DEF ChunkFits
  <2>4. QED
    BY <1>2, <1>9, <2>1, <2>2
<1>13. LoadedFits' /\ ActiveWork' /\ OneEach' /\ RunFits'
  BY <1>2, <1>9 DEF StaffInv, LoadedFits, ActiveWork, OneEach, RunFits
<1>14. QED
  BY <1>10, <1>12, <1>13 DEF StaffInv

(* New accounts go to employees who have none that is not restored.         *)
LEMMA BulkCreateKeeps ==
    ASSUME StaffInv, BulkCreate
    PROVE  StaffInv'
<1>1. PICK n \in Nat : n = Len(import.rows) /\ DOMAIN import.rows = 1..n
  BY LenProperties DEF StaffInv, StaffTyped
<1>2. MadeBy(accounts', n)
  BY <1>1, AllMade DEF BulkCreate, StaffInv
<1>3. /\ import' = [import EXCEPT !.step = "update"] /\ import.step = "create"
      /\ leavers' = leavers /\ loaded' = loaded /\ restored' = restored /\ register' = register
  BY DEF BulkCreate
<1>4. /\ import'.step = "update" /\ import'.rows = import.rows
      /\ import' \in [step : {"idle", "create", "update"}, rows : Seq(ChunkRows)]
  BY <1>3 DEF StaffInv, StaffTyped
<1>5. /\ accounts' \in Seq(AccountRows) /\ Ids \subseteq Ids' /\ \A i \in Ids : accounts'[i] = accounts[i]
  <2>1. /\ accounts' \in Seq(AccountRows) /\ Len(accounts') >= Len(accounts)
        /\ accounts \in Seq(AccountRows)
    BY <1>2 DEF MadeBy, StaffInv, StaffTyped
  <2>2. Ids = 1..Len(accounts) /\ Ids' = 1..Len(accounts') /\ Len(accounts) \in Nat /\ Len(accounts') \in Nat
    BY <2>1, LenProperties DEF Ids
  <2>3. QED
    BY <1>2, <2>1, <2>2 DEF MadeBy
<1>6. \A i \in Ids' \ Ids : \E m \in 1..n :
         /\ import.rows[m].id = 0 /\ accounts'[i] = NewAccount(import.rows[m])
         /\ Active(import.rows[m].emp) \subseteq restored
  BY <1>1, <1>2, <1>3 DEF MadeBy, Ids, StaffInv, ChunkFits
<1>7. \A i, j \in Ids' \ Ids : accounts'[i].emp = accounts'[j].emp => i = j
  BY <1>2 DEF MadeBy, Ids
<1>8. \A r : NewAccount(r).active /\ NewAccount(r).emp = r.emp /\ NewAccount(r).status = "working"
  BY DEF NewAccount
<1>9. StaffTyped'
  BY <1>3, <1>4, <1>5 DEF StaffInv, StaffTyped
<1>10. ChunkFits'
  BY <1>4, <1>5 DEF StaffInv, ChunkFits
<1>11. LoadedFits'
  BY <1>3, <1>5 DEF StaffInv, LoadedFits, StaffTyped
<1>12. ActiveWork'
  BY <1>5, <1>6, <1>8 DEF StaffInv, ActiveWork
<1>13. OneEach'
  <2>1. SUFFICES ASSUME NEW i \in Ids', NEW j \in Ids', i \notin restored, j \notin restored,
                        accounts'[i].emp = accounts'[j].emp, accounts'[i].active, accounts'[j].active
                 PROVE  i = j
    BY <1>3 DEF OneEach
  <2>2. ASSUME NEW k \in Ids' \ Ids, NEW m \in Ids, accounts'[k].emp = accounts'[m].emp,
               accounts'[m].active
        PROVE  m \in restored
    BY <1>5, <1>6, <1>8, <2>2 DEF Active
  <2>3. CASE i \in Ids /\ j \in Ids
    BY <1>5, <2>1, <2>3 DEF StaffInv, OneEach
  <2>4. CASE i \notin Ids /\ j \notin Ids
    BY <1>7, <2>1, <2>4
  <2>5. QED
    BY <2>1, <2>2, <2>3, <2>4
<1>14. RunFits'
  <2>1. leavers.due \subseteq Ids
    BY DEF StaffInv, StaffTyped
  <2>2. QED
    BY <1>3, <1>5, <2>1 DEF StaffInv, RunFits
<1>15. QED
  BY <1>9, <1>10, <1>11, <1>12, <1>13, <1>14 DEF StaffInv

(* Every step keeps the invariant.                                          *)
LEMMA StaffStep == StaffInv /\ [StaffNext]_staffVars => StaffInv'
<1> SUFFICES ASSUME StaffInv, [StaffNext]_staffVars PROVE StaffInv'
  OBVIOUS
<1>1. CASE /\ UNCHANGED <<register, accounts, import, leavers, loaded, restored>>
  <2>1. accounts \in Seq(AccountRows)
    BY DEF StaffInv, StaffTyped
  <2>2. QED
    BY <1>1, <2>1, SameHolders
<1>2. ASSUME NEW i \in Ids, SecondSignerRow(i) \/ LoadAccount(i) PROVE StaffInv'
  BY <1>1, <1>2, LoadKeeps DEF SecondSignerRow
<1>3. ASSUME NEW turn \in SetToSeqs(Known), BulkUpdate, accounts' = AfterUpdating(turn) PROVE StaffInv'
  BY <1>3, SomeTurns, BulkUpdateKeeps DEF StaffInv
<1>4. CASE BulkUpdate
  BY <1>3, <1>4 DEF BulkUpdate
<1>5. CASE UNCHANGED staffVars
  BY <1>1, <1>5 DEF staffVars
<1>6. ASSUME NEW i \in leavers.todo, LookUp(i) \/ LookUpFails(i) PROVE StaffInv'
  BY <1>6, LookUpKeeps, RunKeeps
<1>7. QED
  BY <1>2, <1>4, <1>5, <1>6, ManualKeeps, NewsKeeps, SaveKeeps, ReadChunkKeeps, BulkCreateKeeps,
     ReadAccountsKeeps, RunKeeps DEF StaffNext

(* The inductive invariant of the two tasks and the requests between them   *)
(* (update_or_create_users, update_user_condition).                         *)
THEOREM StaffInvariant == StaffSpec => []StaffInv
  BY StaffBegins, StaffStep, PTL DEF StaffSpec

(* Nobody has two active accounts, however the import, the run that         *)
(* disables leavers and requests that save old rows interleave, unless such *)
(* a request restored one.                                                  *)
THEOREM OneAccountEach == StaffSpec => []OneActiveAccount
<1>1. StaffInv => OneActiveAccount
  <2>1. SUFFICES ASSUME StaffInv, NEW e \in Employees, Active(e) \cap restored = {}
                 PROVE  Cardinality(Active(e)) <= 1
    BY DEF OneActiveAccount
  <2>2. \A i, j \in Active(e) : i = j
    BY <2>1 DEF StaffInv, OneEach, Active
  <2>3. CASE Active(e) = {}
    BY <2>3, FS_EmptySet
  <2>4. CASE Active(e) # {}
    <3>1. PICK i : Active(e) = {i}
      BY <2>2, <2>4
    <3>2. QED
      BY <3>1, FS_Singleton
  <2>5. QED
    BY <2>3, <2>4
<1>2. QED
  BY StaffInvariant, <1>1, PTL

(* A run disables everybody who had left when it began, but for those it    *)
(* missed and accounts restored meanwhile.                                  *)
THEOREM WhoLeftIsDisabled == StaffSpec => LeaversAreDisabled
<1> DEFINE Disables ==
             leavers.step = "look up" /\ leavers'.step = "idle" =>
               \A i \in leavers.due \ (leavers.missed \cup restored) : ~accounts[i].active
<1>1. ASSUME StaffInv, [StaffNext]_staffVars PROVE Disables
  <2>1. SUFFICES ASSUME leavers.step = "look up", leavers'.step = "idle", leavers.todo # {} PROVE FALSE
    BY <1>1 DEF StaffInv, RunFits
  <2>2. \A i \in leavers.todo : LookUp(i) \/ LookUpFails(i) => leavers'.step = leavers.step
    BY <1>1 DEF LookUp, LookUpFails, StaffInv, StaffTyped
  <2>3. \A e, phone : News(e, phone) => leavers'.step = leavers.step
    BY <1>1 DEF News, StaffInv, StaffTyped
  <2>4. ~RunEnds /\ ~ReadAccounts
    BY <2>1 DEF RunEnds, ReadAccounts
  <2>5. leavers' # leavers
    BY <2>1
  <2>6. QED
    BY <1>1, <2>1, <2>2, <2>3, <2>4, <2>5 DEF StaffNext, staffVars, ManualUpdate, SecondSignerRow,
       LoadAccount, SaveAccount, ReadChunk, BulkCreate, BulkUpdate
<1>2. StaffInv /\ [StaffNext]_staffVars => [Disables]_staffVars
  BY <1>1
<1>3. QED
  BY StaffInvariant, <1>2, PTL DEF StaffSpec, LeaversAreDisabled

(* One refused row costs the others nothing: a row of the import is written *)
(* unless its phone was, or is, another account's name.                     *)
THEOREM RefusedAreClashes == StaffSpec => RefusedRowsAreClashes
<1> DEFINE OnlyClashes ==
             import'.step # import.step =>
               \A k \in DOMAIN import.rows :
                  LET r == import.rows[k]
                  IN
                  /\ import.step = "create" /\ r.id = 0 =>
                        \/ \E i \in DOMAIN accounts' : accounts'[i].emp = r.emp /\ accounts'[i].active
                        \/ Taken(accounts, 0, r.username)
                  /\ import.step = "update" /\ r.id # 0 =>
                        \/ accounts'[r.id].phone = r.phone
                        \/ Taken(accounts, r.id, r.phone)
                        \/ Taken(accounts', r.id, r.phone)
<1>1. ASSUME StaffInv, [StaffNext]_staffVars PROVE OnlyClashes
  <2>1. SUFFICES ASSUME import'.step # import.step, NEW k \in DOMAIN import.rows,
                        NEW r, r = import.rows[k]
                 PROVE  /\ import.step = "create" /\ r.id = 0 =>
                              \/ \E i \in DOMAIN accounts' : accounts'[i].emp = r.emp /\ accounts'[i].active
                              \/ Taken(accounts, 0, r.username)
                        /\ import.step = "update" /\ r.id # 0 =>
                              \/ accounts'[r.id].phone = r.phone
                              \/ Taken(accounts, r.id, r.phone)
                              \/ Taken(accounts', r.id, r.phone)
    OBVIOUS
  <2>2. PICK n \in Nat : n = Len(import.rows) /\ DOMAIN import.rows = 1..n
    BY <1>1, LenProperties DEF StaffInv, StaffTyped
  <2>3. CASE BulkCreate
    <3>1. MadeBy(accounts', n) /\ import.step = "create"
      BY <1>1, <2>2, <2>3, AllMade DEF BulkCreate, StaffInv
    <3>2. NewAccount(r).active /\ NewAccount(r).emp = r.emp
      BY DEF NewAccount
    <3>3. QED
      BY <2>1, <2>2, <3>1, <3>2 DEF MadeBy
  <2>4. CASE BulkUpdate
    <3>1. PICK turn \in SetToSeqs(Known) : accounts' = AfterUpdating(turn)
      BY <2>4 DEF BulkUpdate
    <3>2. Turns(turn) /\ \A i \in Known : \E m \in 1..Len(turn) : turn[m] = i
      BY <1>1, <3>1, SomeTurns DEF StaffInv
    <3>3. UpdatedBy(accounts', turn, Len(turn)) /\ import.step = "update"
      BY <1>1, <2>4, <3>1, <3>2, AllUpdated DEF BulkUpdate, StaffInv
    <3>4. ASSUME r.id # 0
          PROVE  \/ accounts'[r.id].phone = r.phone
                 \/ Taken(accounts, r.id, r.phone)
                 \/ Taken(accounts', r.id, r.phone)
      <4>1. PICK m \in 1..Len(turn) : turn[m] = k
        BY <2>1, <3>2, <3>4 DEF Known
      <4>2. DOMAIN accounts' = Ids
        <5>1. accounts \in Seq(AccountRows) /\ accounts' \in Seq(AccountRows) /\ Len(accounts') = Len(accounts)
          BY <1>1, <3>3 DEF StaffInv, StaffTyped, UpdatedBy
        <5>2. QED
          BY <5>1, LenProperties DEF Ids
      <4>3. QED
        BY <2>1, <3>3, <4>1, <4>2 DEF UpdatedBy, Taken
    <3>5. QED
      BY <3>3, <3>4
  <2>5. CASE \E order \in SetToSeqs({e \in Employees : register[e] # NotListed}) : ReadChunk(order)
    BY <2>5 DEF ReadChunk
  <2>6. QED
    BY <1>1, <2>1, <2>3, <2>4, <2>5 DEF StaffNext, staffVars, ManualUpdate, News, SecondSignerRow,
       LoadAccount, SaveAccount, ReadAccounts, LookUp, LookUpFails, RunEnds
<1>2. StaffInv /\ [StaffNext]_staffVars => [OnlyClashes]_staffVars
  BY <1>1
<1>3. QED
  BY StaffInvariant, <1>2, PTL DEF StaffSpec, RefusedRowsAreClashes
=============================================================================
