------------------------------- MODULE Payroll -------------------------------
(****************************************************************************)
(* The pay sheet of one department, or of one branch, for a month: a nightly*)
(* or manual generation fills the cell of a day from DailySummary, and the  *)
(* sheet is decided in two windows, up to the mid pay date and after it;    *)
(* a decided window is locked.                                              *)
(*                                                                          *)
(* One employee: a cell is the hours he is paid for that day.               *)
(****************************************************************************)
EXTENDS Integers, Sequences, FiniteSets

CONSTANTS
    LastDay,          \* of the month
    MidDay,           \* the mid pay date
    Stored,           \* what DailySummary may hold for him and a day, a sequence of rows
    PeriodIds,        \* row keys
    Generators,       \* processes that generate
    Senders,          \* requests that send to review
    MaxGenerations    \* bound on the generations

ASSUME PayrollAssumption ==
    /\ LastDay \in Nat
    /\ MidDay \in 1..LastDay
    /\ Stored \subseteq Seq([code : STRING, full : BOOLEAN, seconds : Int])
    /\ MaxGenerations \in Nat

VARIABLES
    branch,       \* is it the sheet of a branch, which names no department
    periods,      \* id -> row
    cells,        \* id -> day -> hours, NoCell if there is no row
    gen,          \* generator -> its transaction
    sends,        \* sender -> the set of the period it has loaded
    generations,  \* how many there were
    racing        \* history: generators that were writing when a window was locked

payVars == <<branch, periods, cells, gen, sends, generations, racing>>

PayDays == 1..LastDay
NoCell == -1
Resting == [step |-> "idle", day |-> 1, found |-> {}, hours |-> 0, double |-> FALSE]

PayInit ==
    /\ branch \in BOOLEAN
    /\ periods = [p \in {} |-> Resting]
    /\ cells = [p \in {} |-> Resting]
    /\ gen = [g \in Generators |-> Resting]
    /\ sends = [s \in Senders |-> {}]
    /\ generations = 0
    /\ racing = {}

-----------------------------------------------------------------------------
(* The generation of a day, one transaction.                                *)

(* Slip: minutes. *)
Slip_NearestWholeHour(seconds) == IF seconds <= 0 THEN 0 ELSE seconds \div 60

NearestWholeHour(seconds) ==
    LET hours == (seconds + 1800) \div 3600 IN
    IF seconds <= 0 THEN 0 ELSE IF hours > 8 THEN 8 ELSE hours

(* What else bears on the hours of the day: the calendar, the list of those  *)
(* excluded from the check, an approved exception, an explanation letter.   *)
Excuses == {"none", "day off", "excluded", "exception", "letter"}

(* Status "A" is at work, "K" on a trip; others are paid nothing.           *)
HoursAt(s, excuse) ==
    CASE s.code # "A" -> IF s.code = "K" THEN 8 ELSE 0
      [] s.code = "A" /\ (s.full \/ excuse = "exception") -> 8
      [] s.code = "A" /\ ~s.full /\ excuse = "letter" -> NearestWholeHour(s.seconds)
      [] OTHER -> 0

CellHours(s, excuse) ==
    CASE excuse = "day off" -> 0
      [] excuse = "excluded" -> 8
      [] OTHER -> HoursAt(s, excuse)

Locked(p, d) == IF d <= MidDay THEN periods[p].mid ELSE periods[p].final

(* Slip: the locks are not looked at. *)
Slip_GenerateRead(g, d, rows, excuse) ==
    /\ gen[g].step = "idle"
    /\ generations < MaxGenerations
    /\ generations' = generations + 1
    /\ rows # <<>>
    /\ Cardinality(DOMAIN periods) <= 1
    /\ gen' = [gen EXCEPT ![g] = [step |-> "write", day |-> d, found |-> DOMAIN periods,
                                  hours |-> CellHours(Head(rows), excuse),
                                  double |-> Len(rows) > 1]]
    /\ UNCHANGED <<branch, periods, cells, sends, racing>>

(* It reads the rows of the day, the period and its locks, and the excuse.  *)
(* Without rows, with a locked window or with two periods it ends here.     *)
GenerateRead(g, d, rows, excuse) ==
    /\ gen[g].step = "idle"
    /\ generations < MaxGenerations
    /\ generations' = generations + 1
    /\ rows # <<>>
    /\ Cardinality(DOMAIN periods) <= 1
    /\ \A p \in DOMAIN periods : ~Locked(p, d)
    /\ gen' = [gen EXCEPT ![g] = [step |-> "write", day |-> d, found |-> DOMAIN periods,
                                  hours |-> CellHours(Head(rows), excuse),
                                  double |-> Len(rows) > 1]]
    /\ UNCHANGED <<branch, periods, cells, sends, racing>>

Draft == [status |-> "draft", mid |-> FALSE, final |-> FALSE]

(* The period it creates if it found none.  A department has one row: who   *)
(* comes second takes the first one's, unless its window is locked.  Rows   *)
(* without a department are not unique.                                     *)
Fill(p, g) == cells' = [cells EXCEPT ![p][gen[g].day] = gen[g].hours]

NoneYet == branch \/ DOMAIN periods = {}

CreatePeriod(g) ==
    \E p \in PeriodIds \ DOMAIN periods :
       /\ periods' = [q \in DOMAIN periods \cup {p} |-> IF q = p THEN Draft ELSE periods[q]]
       /\ cells' = [q \in DOMAIN periods \cup {p} |->
                      IF q = p THEN [d \in PayDays |-> IF d = gen[g].day THEN gen[g].hours ELSE NoCell]
                      ELSE cells[q]]

GenerateWrite(g) ==
    /\ gen[g].step = "write"
    /\ ~gen[g].double
    /\ \/ \E p \in gen[g].found : Fill(p, g) /\ UNCHANGED periods
       \/ gen[g].found = {} /\ NoneYet /\ CreatePeriod(g)
       \/ /\ gen[g].found = {} /\ ~branch
          /\ \E p \in DOMAIN periods :
                IF Locked(p, gen[g].day) THEN UNCHANGED cells ELSE Fill(p, g)
          /\ UNCHANGED periods
    /\ gen' = [gen EXCEPT ![g] = Resting]
    /\ racing' = racing \ {g}
    /\ UNCHANGED <<branch, sends, generations>>

(* Two rows of the day make two cells for one key, which the upsert refuses.*)
GenerateFail(g) ==
    /\ gen[g].step = "write"
    /\ gen' = [gen EXCEPT ![g] = Resting]
    /\ racing' = racing \ {g}
    /\ UNCHANGED <<branch, periods, cells, sends, generations>>

-----------------------------------------------------------------------------
(* The decisions.                                                           *)

(* The row is loaded without a lock and its status saved.                   *)
SendToReview(s, p) ==
    /\ \/ /\ sends[s] = {} /\ periods[p].status \in {"draft", "rejected"}
          /\ sends' = [sends EXCEPT ![s] = {p}]
          /\ UNCHANGED periods
       \/ /\ sends[s] = {p}
          /\ sends' = [sends EXCEPT ![s] = {}]
          /\ periods' = [periods EXCEPT ![p].status = "in_review"]
    /\ UNCHANGED <<branch, cells, gen, generations, racing>>

(* Rows decided before are passed over.                                     *)
Decided(row, window, approved) ==
    CASE window = "mid" /\ ~row.mid ->
            [row EXCEPT !.mid = TRUE, !.status = IF approved THEN "in_review" ELSE "rejected"]
      [] window = "final" /\ ~row.final ->
            [row EXCEPT !.final = TRUE, !.status = IF approved THEN "approved" ELSE "rejected"]
      [] OTHER -> row

(* Slip: the final window does not wait for the mid one. *)
Slip_Approve(P, window, approved) ==
    /\ \A p \in P : periods[p].status = "in_review"
    /\ periods' = [p \in DOMAIN periods |->
                     IF p \in P THEN Decided(periods[p], window, approved) ELSE periods[p]]
    /\ racing' = racing \cup {g \in Generators : gen[g].step = "write"}
    /\ UNCHANGED <<branch, cells, gen, sends, generations>>

(* A transaction that holds the periods' rows.                              *)
Approve(P, window, approved) ==
    /\ \A p \in P : /\ periods[p].status = "in_review"
                    /\ window = "mid" => ~periods[p].final
                    /\ window = "final" => periods[p].mid
    /\ periods' = [p \in DOMAIN periods |->
                     IF p \in P THEN Decided(periods[p], window, approved) ELSE periods[p]]
    /\ racing' = IF periods' = periods THEN racing
                 ELSE racing \cup {g \in Generators : gen[g].step = "write"}
    /\ UNCHANGED <<branch, cells, gen, sends, generations>>

-----------------------------------------------------------------------------

GenerateStep(g) ==
    \/ \E d \in PayDays, rows \in Stored, excuse \in Excuses :
          GenerateRead(g, d, rows, excuse)
    \/ GenerateWrite(g)
    \/ GenerateFail(g)

PayNext ==
    \/ \E g \in Generators : GenerateStep(g)
    \/ \E s \in Senders, p \in DOMAIN periods : SendToReview(s, p)
    \/ \E P \in (SUBSET DOMAIN periods) \ {{}}, window \in {"mid", "final"}, approved \in BOOLEAN :
          Approve(P, window, approved)

PaySpec == PayInit /\ [][PayNext]_payVars

-----------------------------------------------------------------------------
(* Properties.                                                              *)

PeriodRow == [status : {"draft", "in_review", "approved", "rejected"}, mid : BOOLEAN, final : BOOLEAN]

(* Type invariant: no cell holds more than a working day.                   *)
PayTypeOK ==
    /\ DOMAIN periods \subseteq PeriodIds
    /\ periods \in [DOMAIN periods -> PeriodRow]
    /\ DOMAIN cells = DOMAIN periods
    /\ \A p \in DOMAIN cells : cells[p] \in [PayDays -> {NoCell} \cup 0..8]
    /\ \A g \in Generators : gen[g].found \subseteq DOMAIN periods
    /\ \A s \in Senders : sends[s] \subseteq DOMAIN periods
    /\ racing \subseteq Generators

(* A period is approved only with both windows decided, the mid window      *)
(* before the final one, whatever stale request saves a status in between.  *)
ApprovedIsClosed ==
    \A p \in DOMAIN periods : /\ periods[p].status = "approved" => periods[p].mid /\ periods[p].final
                              /\ periods[p].final => periods[p].mid

(* The hours of a decided window stand, for ever, but for a generation that *)
(* had read the locks before the decision.                                  *)
LockedHoursStand ==
    [][\A p \in DOMAIN periods, d \in PayDays :
          Locked(p, d) =>
             /\ Locked(p, d)'
             /\ \/ cells'[p][d] = cells[p][d]
                \/ \E g \in racing : gen[g].step = "write" /\ gen'[g].step = "idle"]_payVars
=============================================================================
