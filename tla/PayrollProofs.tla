---------------------------- MODULE PayrollProofs ----------------------------
(****************************************************************************)
(* For every month, department, set of generators and requests: what a cell *)
(* may hold, when a period is approved, that a department has one sheet, and*)
(* that the hours of a decided window stand.                                *)
(****************************************************************************)
EXTENDS Payroll, FiniteSetTheorems, TLAPS

Transaction == [step : {"idle", "write"}, day : PayDays, found : SUBSET PeriodIds,
                hours : 0..8, double : BOOLEAN]

(* A generation that has found a sheet may write to a locked window only if *)
(* the window was locked under its hands.                                   *)
WritesUnlocked ==
    \A g \in Generators : gen[g].step = "write" =>
       \A p \in gen[g].found : Locked(p, gen[g].day) => g \in racing

PayTyped ==
    /\ PayTypeOK
    /\ gen \in [Generators -> Transaction]

PayInv == PayTyped /\ ApprovedIsClosed /\ WritesUnlocked

-----------------------------------------------------------------------------
(* Hours.                                                                   *)

(* Seconds become 0 to 8 whole hours.                                       *)
LEMMA WholeHours ==
    ASSUME NEW seconds \in Int
    PROVE  NearestWholeHour(seconds) \in 0..8
  <1>1. CASE seconds <= 0
    BY <1>1 DEF NearestWholeHour
  <1>2. CASE seconds > 0
    <2>1. (seconds + 1800) \div 3600 \in Nat
      BY <1>2
    <2>2. QED
      BY <1>2, <2>1 DEF NearestWholeHour
  <1>3. QED
    BY <1>1, <1>2

(* The first element of a sequence belongs to the set the sequence is over. *)
LEMMA HeadIsMember ==
    ASSUME NEW S, NEW rows \in Seq(S), rows # <<>>
    PROVE  Head(rows) \in S
  OBVIOUS

(* Whatever was stored for a day, a cell of it holds 0 to 8 hours.          *)
LEMMA CellHoursRange ==
    ASSUME NEW rows \in Stored, rows # <<>>, NEW excuse
    PROVE  CellHours(Head(rows), excuse) \in 0..8
  <1> DEFINE s == Head(rows)
  <1>1. rows \in Seq([code : STRING, full : BOOLEAN, seconds : Int])
    BY PayrollAssumption
  <1>2. s \in [code : STRING, full : BOOLEAN, seconds : Int]
    BY <1>1, HeadIsMember
  <1>3. NearestWholeHour(s.seconds) \in 0..8
    BY <1>2, WholeHours
  <1> HIDE DEF s
  <1>4. HoursAt(s, excuse) \in 0..8
    <2>1. CASE s.code # "A"
      BY <2>1 DEF HoursAt
    <2>2. CASE s.code = "A" /\ (s.full \/ excuse = "exception")
      BY <2>2 DEF HoursAt
    <2>3. CASE s.code = "A" /\ ~s.full /\ excuse # "exception" /\ excuse = "letter"
      BY <1>3, <2>3 DEF HoursAt
    <2>4. CASE s.code = "A" /\ ~s.full /\ excuse # "exception" /\ excuse # "letter"
      BY <2>4 DEF HoursAt
    <2>5. QED
      BY <2>1, <2>2, <2>3, <2>4
  <1>5. CellHours(s, excuse) \in 0..8
    <2>1. CASE excuse = "day off"
      <3>1. CellHours(s, excuse) = 0
        BY <2>1 DEF CellHours
      <3>2. QED
        BY <3>1
    <2>2. CASE excuse = "excluded"
      BY <2>2 DEF CellHours
    <2>3. CASE excuse # "day off" /\ excuse # "excluded"
      <3>1. CellHours(s, excuse) = HoursAt(s, excuse)
        BY <2>3 DEF CellHours
      <3>2. QED
        BY <1>4, <3>1
    <2>4. QED
      BY <2>1, <2>2, <2>3
  <1>6. QED
    BY <1>5 DEF s

-----------------------------------------------------------------------------
(* The steps.                                                               *)

(* No generation is under way and no sheet exists at the beginning.         *)
LEMMA PayInitially == PayInit => PayInv
  <1> SUFFICES ASSUME PayInit PROVE PayInv
    OBVIOUS
  <1>1. DOMAIN periods = {} /\ DOMAIN cells = {}
    BY DEF PayInit
  <1>2. Resting \in Transaction
    BY PayrollAssumption DEF Resting, Transaction, PayDays
  <1>3. PayTyped
    <2>1. periods \in [DOMAIN periods -> PeriodRow]
      BY <1>1 DEF PayInit
    <2>2. gen \in [Generators -> Transaction]
      BY <1>2 DEF PayInit
    <2>3. \A g \in Generators : gen[g].found = {}
      BY DEF PayInit, Resting
    <2>4. (\A s \in Senders : sends[s] = {}) /\ racing = {}
      BY DEF PayInit
    <2>5. QED
      BY <1>1, <2>1, <2>2, <2>3, <2>4 DEF PayTyped, PayTypeOK
  <1>4. ApprovedIsClosed /\ WritesUnlocked
    BY <1>1 DEF ApprovedIsClosed, WritesUnlocked, PayInit, Resting
  <1>5. QED
    BY <1>3, <1>4 DEF PayInv

(* The statement that reads the summaries and the locks.                    *)
LEMMA ReadKeeps ==
    ASSUME PayInv, NEW g \in Generators, NEW d \in PayDays, NEW rows \in Stored,
           NEW excuse \in Excuses, GenerateRead(g, d, rows, excuse)
    PROVE  PayInv'
  <1> DEFINE row == [step |-> "write", day |-> d, found |-> DOMAIN periods,
                     hours |-> CellHours(Head(rows), excuse), double |-> Len(rows) > 1]
  <1>1. CellHours(Head(rows), excuse) \in 0..8
    BY CellHoursRange DEF GenerateRead
  <1>2. rows \in Seq([code : STRING, full : BOOLEAN, seconds : Int])
    BY PayrollAssumption
  <1>3. DOMAIN periods \subseteq PeriodIds
    BY DEF PayInv, PayTyped, PayTypeOK
  <1>4. row \in Transaction
    BY <1>1, <1>2, <1>3 DEF Transaction
  <1>5. gen' = [gen EXCEPT ![g] = row] /\ UNCHANGED <<branch, periods, cells, sends, racing>>
    BY DEF GenerateRead
  <1>6. /\ gen \in [Generators -> Transaction]
        /\ gen' \in [Generators -> Transaction]
        /\ gen'[g] = row
        /\ \A h \in Generators \ {g} : gen'[h] = gen[h]
    BY <1>4, <1>5 DEF PayInv, PayTyped
  <1>7. PayTyped'
    BY <1>5, <1>6 DEF PayInv, PayTyped, PayTypeOK
  <1>8. ApprovedIsClosed'
    BY <1>5 DEF PayInv, ApprovedIsClosed
  <1>9. WritesUnlocked'
    BY <1>5, <1>6 DEF PayInv, WritesUnlocked, GenerateRead, Locked
  <1>10. QED
    BY <1>7, <1>8, <1>9 DEF PayInv

(* Ending a transaction disturbs nothing but its own record.                *)
LEMMA EndsTransaction ==
    ASSUME PayInv, NEW g \in Generators, gen' = [gen EXCEPT ![g] = Resting]
    PROVE  /\ gen' \in [Generators -> Transaction]
           /\ gen'[g] = Resting
           /\ \A h \in Generators \ {g} : gen'[h] = gen[h]
  <1>1. Resting \in Transaction
    BY PayrollAssumption DEF Resting, Transaction, PayDays
  <1>2. QED
    BY <1>1 DEF PayInv, PayTyped

(* A generation rolled back leaves the rows alone.                          *)
LEMMA FailKeeps ==
    ASSUME PayInv, NEW g \in Generators, GenerateFail(g)
    PROVE  PayInv'
  <1>1. /\ gen' = [gen EXCEPT ![g] = Resting] /\ racing' = racing \ {g}
        /\ UNCHANGED <<branch, periods, cells, sends>>
    BY DEF GenerateFail
  <1>2. /\ gen' \in [Generators -> Transaction] /\ gen'[g] = Resting
        /\ \A h \in Generators \ {g} : gen'[h] = gen[h]
    BY <1>1, EndsTransaction
  <1>3. PayTyped'
    BY <1>1, <1>2 DEF PayInv, PayTyped, PayTypeOK, Resting
  <1>4. ApprovedIsClosed'
    BY <1>1 DEF PayInv, ApprovedIsClosed
  <1>5. WritesUnlocked'
    BY <1>1, <1>2 DEF PayInv, WritesUnlocked, Locked, Resting
  <1>6. QED
    BY <1>3, <1>4, <1>5 DEF PayInv

(* Filling a cell of a sheet that is there.                                 *)
LEMMA FillTyped ==
    ASSUME PayInv, NEW g \in Generators, NEW p \in DOMAIN periods, Fill(p, g)
    PROVE  /\ DOMAIN cells' = DOMAIN periods
           /\ \A q \in DOMAIN periods : cells'[q] \in [PayDays -> {NoCell} \cup 0..8]
           /\ \A q \in DOMAIN periods, d \in PayDays :
                 cells'[q][d] # cells[q][d] => q = p /\ d = gen[g].day
  <1>1. gen[g].hours \in 0..8 /\ gen[g].day \in PayDays
    BY DEF PayInv, PayTyped, Transaction
  <1>2. /\ DOMAIN cells = DOMAIN periods
        /\ \A q \in DOMAIN periods : cells[q] \in [PayDays -> {NoCell} \cup 0..8]
    BY DEF PayInv, PayTyped, PayTypeOK
  <1>3. DOMAIN cells' = DOMAIN periods
    BY <1>2 DEF Fill
  <1>4. \A q \in DOMAIN periods \ {p} : cells'[q] = cells[q]
    BY <1>2 DEF Fill
  <1>5. cells'[p] = [cells[p] EXCEPT ![gen[g].day] = gen[g].hours]
    BY <1>2 DEF Fill
  <1>6. cells'[p] \in [PayDays -> {NoCell} \cup 0..8]
    BY <1>1, <1>2, <1>5
  <1>7. \A d \in PayDays : cells'[p][d] # cells[p][d] => d = gen[g].day
    BY <1>1, <1>2, <1>5
  <1>8. QED
    BY <1>2, <1>3, <1>4, <1>6, <1>7

(* A new sheet is a draft, and takes nothing from those that are there.     *)
LEMMA CreateTyped ==
    ASSUME PayInv, NEW g \in Generators, CreatePeriod(g)
    PROVE  \E p \in PeriodIds \ DOMAIN periods :
              /\ DOMAIN periods' = DOMAIN periods \cup {p}
              /\ DOMAIN cells' = DOMAIN periods'
              /\ periods'[p] = Draft
              /\ cells'[p] \in [PayDays -> {NoCell} \cup 0..8]
              /\ \A q \in DOMAIN periods : periods'[q] = periods[q] /\ cells'[q] = cells[q]
  <1>1. gen[g].hours \in 0..8 /\ gen[g].day \in PayDays
    BY DEF PayInv, PayTyped, Transaction
  <1>2. PICK p \in PeriodIds \ DOMAIN periods :
           /\ periods' = [q \in DOMAIN periods \cup {p} |-> IF q = p THEN Draft ELSE periods[q]]
           /\ cells' = [q \in DOMAIN periods \cup {p} |->
                          IF q = p THEN [d \in PayDays |-> IF d = gen[g].day THEN gen[g].hours ELSE NoCell]
                          ELSE cells[q]]
    BY DEF CreatePeriod
  <1>3. /\ DOMAIN periods' = DOMAIN periods \cup {p}
        /\ DOMAIN cells' = DOMAIN periods'
        /\ periods'[p] = Draft
        /\ \A q \in DOMAIN periods : periods'[q] = periods[q] /\ cells'[q] = cells[q]
    BY <1>2
  <1>4. cells'[p] = [d \in PayDays |-> IF d = gen[g].day THEN gen[g].hours ELSE NoCell]
    BY <1>2
  <1>5. cells'[p] \in [PayDays -> {NoCell} \cup 0..8]
    BY <1>1, <1>4
  <1>6. QED
    BY <1>3, <1>5

(* What a write does: it fills a cell of one sheet, which it had found or   *)
(* whose window is open, creates a sheet, or does nothing.                  *)
LEMMA WriteOutcomes ==
    ASSUME PayInv, NEW g \in Generators, GenerateWrite(g)
    PROVE  \/ /\ UNCHANGED periods
              /\ \E p \in DOMAIN periods : /\ Fill(p, g)
                                           /\ p \in gen[g].found \/ ~Locked(p, gen[g].day)
           \/ NoneYet /\ CreatePeriod(g)
           \/ UNCHANGED <<periods, cells>>
  <1>1. gen[g].found \subseteq DOMAIN periods
    BY DEF PayInv, PayTyped, PayTypeOK
  <1>2. \/ \E p \in gen[g].found : Fill(p, g) /\ UNCHANGED periods
        \/ gen[g].found = {} /\ NoneYet /\ CreatePeriod(g)
        \/ /\ \E p \in DOMAIN periods :
                 IF Locked(p, gen[g].day) THEN UNCHANGED cells ELSE Fill(p, g)
           /\ UNCHANGED periods
    BY DEF GenerateWrite
  <1>3. QED
    BY <1>1, <1>2

(* A generation that writes gives a department no second sheet, and writes  *)
(* no locked cell unless the lock came after its look.                      *)
LEMMA WriteKeeps ==
    ASSUME PayInv, NEW g \in Generators, GenerateWrite(g)
    PROVE  PayInv'
  <1>1. /\ gen' = [gen EXCEPT ![g] = Resting] /\ racing' = racing \ {g}
        /\ UNCHANGED <<branch, sends>>
    BY DEF GenerateWrite
  <1>2. /\ gen' \in [Generators -> Transaction] /\ gen'[g] = Resting
        /\ \A h \in Generators \ {g} : gen'[h] = gen[h]
    BY <1>1, EndsTransaction
  <1>3. CASE UNCHANGED <<periods, cells>>
    <2>1. PayTyped'
      BY <1>1, <1>2, <1>3 DEF PayInv, PayTyped, PayTypeOK, Resting
    <2>2. ApprovedIsClosed'
      BY <1>1, <1>3 DEF PayInv, ApprovedIsClosed
    <2>3. WritesUnlocked'
      BY <1>1, <1>2, <1>3 DEF PayInv, WritesUnlocked, Locked, Resting
    <2>4. QED
      BY <2>1, <2>2, <2>3 DEF PayInv
  <1>4. ASSUME UNCHANGED periods, NEW p \in DOMAIN periods, Fill(p, g)
        PROVE  PayInv'
    <2>1. /\ DOMAIN cells' = DOMAIN periods
          /\ \A q \in DOMAIN periods : cells'[q] \in [PayDays -> {NoCell} \cup 0..8]
      BY <1>4, FillTyped
    <2>2. PayTyped'
      BY <1>1, <1>2, <1>4, <2>1 DEF PayInv, PayTyped, PayTypeOK, Resting
    <2>3. ApprovedIsClosed'
      BY <1>1, <1>4 DEF PayInv, ApprovedIsClosed
    <2>4. WritesUnlocked'
      BY <1>1, <1>2, <1>4 DEF PayInv, WritesUnlocked, Locked, Resting
    <2>5. QED
      BY <2>2, <2>3, <2>4 DEF PayInv
  <1>5. CASE NoneYet /\ CreatePeriod(g)
    <2>1. PICK p \in PeriodIds \ DOMAIN periods :
              /\ DOMAIN periods' = DOMAIN periods \cup {p}
              /\ DOMAIN cells' = DOMAIN periods'
              /\ periods'[p] = Draft
              /\ cells'[p] \in [PayDays -> {NoCell} \cup 0..8]
              /\ \A q \in DOMAIN periods : periods'[q] = periods[q] /\ cells'[q] = cells[q]
      BY <1>5, CreateTyped
    <2>2. Draft \in PeriodRow /\ Draft.status = "draft" /\ ~Draft.final
      BY DEF Draft, PeriodRow
    <2>3. periods' \in [DOMAIN periods' -> PeriodRow]
      <3>1. \A q \in DOMAIN periods : periods[q] \in PeriodRow
        BY DEF PayInv, PayTyped, PayTypeOK
      <3>2. \A q \in DOMAIN periods' : periods'[q] \in PeriodRow
        BY <2>1, <2>2, <3>1
      <3>3. periods' = [q \in DOMAIN periods' |-> periods'[q]]
        BY <1>5 DEF CreatePeriod
      <3>4. QED
        BY <3>2, <3>3
    <2>4. \A q \in DOMAIN cells' : cells'[q] \in [PayDays -> {NoCell} \cup 0..8]
      BY <2>1 DEF PayInv, PayTyped, PayTypeOK
    <2>5. PayTyped'
      <3>1. DOMAIN periods' \subseteq PeriodIds
        BY <2>1 DEF PayInv, PayTyped, PayTypeOK
      <3>2. \A h \in Generators : gen'[h].found \subseteq DOMAIN periods'
        BY <1>2, <2>1 DEF PayInv, PayTyped, PayTypeOK, Resting
      <3>3. \A s \in Senders : sends'[s] \subseteq DOMAIN periods'
        BY <1>1, <2>1 DEF PayInv, PayTyped, PayTypeOK
      <3>4. racing' \subseteq Generators
        BY <1>1 DEF PayInv, PayTyped, PayTypeOK
      <3>5. QED
        BY <1>2, <2>1, <2>3, <2>4, <3>1, <3>2, <3>3, <3>4 DEF PayTyped, PayTypeOK
    <2>6. ApprovedIsClosed'
      BY <2>1, <2>2 DEF PayInv, ApprovedIsClosed
    <2>7. WritesUnlocked'
      <3>1. \A h \in Generators : gen[h].found \subseteq DOMAIN periods
        BY DEF PayInv, PayTyped, PayTypeOK
      <3>2. QED
        BY <1>1, <1>2, <2>1, <3>1 DEF PayInv, WritesUnlocked, Locked, Resting
    <2>8. QED
      BY <2>5, <2>6, <2>7 DEF PayInv
  <1>6. QED
    BY <1>3, <1>4, <1>5, WriteOutcomes

(* Sending to review, with the row as loaded.                               *)
LEMMA SendKeeps ==
    ASSUME PayInv, NEW s \in Senders, NEW p \in DOMAIN periods, SendToReview(s, p)
    PROVE  /\ PayInv'
           /\ \A q \in DOMAIN periods, d \in PayDays : Locked(q, d) => Locked(q, d)'
  <1>1. UNCHANGED <<branch, cells, gen, racing>>
    BY DEF SendToReview
  <1>2. /\ periods \in [DOMAIN periods -> PeriodRow]
        /\ DOMAIN periods' = DOMAIN periods
        /\ \A t \in Senders : sends'[t] \subseteq DOMAIN periods
    <2>1. /\ periods \in [DOMAIN periods -> PeriodRow]
          /\ \A t \in Senders : sends[t] \subseteq DOMAIN periods
      BY DEF PayInv, PayTyped, PayTypeOK
    <2>2. DOMAIN periods' = DOMAIN periods
      BY DEF SendToReview
    <2>3. \E S \in {{}, {p}} : sends' = [sends EXCEPT ![s] = S]
      BY DEF SendToReview
    <2>4. \A t \in Senders : sends'[t] \subseteq DOMAIN periods
      BY <2>1, <2>3
    <2>5. QED
      BY <2>1, <2>2, <2>4
  <1>3. /\ periods' \in [DOMAIN periods -> PeriodRow]
        /\ \A q \in DOMAIN periods :
              /\ periods'[q].mid = periods[q].mid /\ periods'[q].final = periods[q].final
              /\ periods'[q].status \in {periods[q].status, "in_review"}
    BY <1>2 DEF SendToReview, PeriodRow
  <1>4. PayTyped'
    BY <1>1, <1>2, <1>3 DEF PayInv, PayTyped, PayTypeOK
  <1>5. ApprovedIsClosed'
    BY <1>1, <1>2, <1>3 DEF PayInv, ApprovedIsClosed
  <1>6. WritesUnlocked'
    BY <1>1, <1>2, <1>3 DEF PayInv, PayTyped, PayTypeOK, WritesUnlocked, Locked
  <1>7. QED
    BY <1>3, <1>4, <1>5, <1>6 DEF PayInv, Locked

(* A decision keeps the invariant and opens no window that was locked.      *)
LEMMA ApproveKeeps ==
    ASSUME PayInv, NEW P \in SUBSET DOMAIN periods, NEW window \in {"mid", "final"},
           NEW approved \in BOOLEAN, Approve(P, window, approved)
    PROVE  /\ PayInv'
           /\ \A q \in DOMAIN periods, d \in PayDays : Locked(q, d) => Locked(q, d)'
  <1>1. /\ UNCHANGED <<branch, cells, gen, sends>>
        /\ periods' = [p \in DOMAIN periods |->
                         IF p \in P THEN Decided(periods[p], window, approved) ELSE periods[p]]
        /\ racing' = IF periods' = periods THEN racing
                     ELSE racing \cup {g \in Generators : gen[g].step = "write"}
    BY DEF Approve
  <1>2. periods \in [DOMAIN periods -> PeriodRow]
    BY DEF PayInv, PayTyped, PayTypeOK
  <1>3. DOMAIN periods' = DOMAIN periods
    BY <1>1
  <1>4. ASSUME NEW p \in DOMAIN periods
        PROVE  /\ periods'[p] \in PeriodRow
               /\ periods[p].mid => periods'[p].mid
               /\ periods[p].final => periods'[p].final
               /\ periods'[p].status = "approved" => periods'[p].mid /\ periods'[p].final
               /\ periods'[p].final => periods'[p].mid
    <2>1. /\ periods[p] \in PeriodRow
          /\ periods[p].status = "approved" => periods[p].mid /\ periods[p].final
          /\ periods[p].final => periods[p].mid
      BY <1>2 DEF PayInv, ApprovedIsClosed
    <2>2. CASE p \notin P
      BY <1>1, <2>1, <2>2
    <2>3. CASE p \in P /\ window = "mid"
      <3>1. periods'[p] = Decided(periods[p], window, approved)
        BY <1>1, <2>3
      <3>2. ~periods[p].final
        BY <2>3 DEF Approve
      <3>3. QED
        BY <2>1, <2>3, <3>1, <3>2 DEF Decided, PeriodRow
    <2>4. CASE p \in P /\ window = "final"
      <3>1. periods'[p] = Decided(periods[p], window, approved)
        BY <1>1, <2>4
      <3>2. periods[p].mid
        BY <2>4 DEF Approve
      <3>3. QED
        BY <2>1, <2>4, <3>1, <3>2 DEF Decided, PeriodRow
    <2>5. QED
      BY <2>2, <2>3, <2>4
  <1>5. periods' \in [DOMAIN periods' -> PeriodRow]
    BY <1>1, <1>3, <1>4
  <1>6. PayTyped'
    BY <1>1, <1>3, <1>5 DEF PayInv, PayTyped, PayTypeOK
  <1>7. ApprovedIsClosed'
    BY <1>1, <1>3, <1>4 DEF PayInv, ApprovedIsClosed
  <1>8. WritesUnlocked'
    BY <1>1 DEF PayInv, WritesUnlocked, Locked
  <1>9. QED
    BY <1>4, <1>6, <1>7, <1>8 DEF PayInv, Locked

(* Every step keeps the invariant.                                          *)
LEMMA PayInvKept ==
    ASSUME PayInv, [PayNext]_payVars
    PROVE  PayInv'
  <1>1. CASE UNCHANGED payVars
    BY <1>1 DEF payVars, PayInv, PayTyped, PayTypeOK, ApprovedIsClosed,
                WritesUnlocked, Locked
  <1>2. ASSUME NEW g \in Generators, GenerateStep(g)
        PROVE  PayInv'
    BY <1>2, ReadKeeps, WriteKeeps, FailKeeps DEF GenerateStep
  <1>3. ASSUME NEW s \in Senders, NEW p \in DOMAIN periods, SendToReview(s, p)
        PROVE  PayInv'
    BY <1>3, SendKeeps
  <1>4. ASSUME NEW P \in SUBSET DOMAIN periods, NEW window \in {"mid", "final"},
               NEW approved \in BOOLEAN, Approve(P, window, approved)
        PROVE  PayInv'
    BY <1>4, ApproveKeeps
  <1>5. QED
    BY <1>1, <1>2, <1>3, <1>4 DEF PayNext

(* The inductive invariant of the pay sheets.                               *)
THEOREM PayInvariant == PaySpec => []PayInv
  <1>1. PayInit => PayInv
    BY PayInitially
  <1>2. PayInv /\ [PayNext]_payVars => PayInv'
    BY PayInvKept
  <1>3. QED
    BY <1>1, <1>2, PTL DEF PaySpec

(* Whatever runs beside what, cells hold at most a working day.             *)
THEOREM PayTypeCorrect == PaySpec => []PayTypeOK
  <1>1. PayInv => PayTypeOK
    BY DEF PayInv, PayTyped
  <1>2. QED
    BY <1>1, PayInvariant, PTL

(* A period is approved with both windows decided in their order only.      *)
THEOREM ApprovedPeriodsAreClosed == PaySpec => []ApprovedIsClosed
  <1>1. PayInv => ApprovedIsClosed
    BY DEF PayInv
  <1>2. QED
    BY <1>1, PayInvariant, PTL

-----------------------------------------------------------------------------
(* The hours of a decided window.                                           *)

HoursStand ==
    \A p \in DOMAIN periods, d \in PayDays :
       Locked(p, d) =>
          /\ Locked(p, d)'
          /\ \/ cells'[p][d] = cells[p][d]
             \/ \E g \in racing : gen[g].step = "write" /\ gen'[g].step = "idle"

(* No step changes a decided window, nor its hours but through a generation *)
(* that was writing.                                                        *)
LEMMA HoursStandStep ==
    ASSUME PayInv, [PayNext]_payVars
    PROVE  HoursStand
  <1>1. CASE UNCHANGED payVars
    BY <1>1 DEF payVars, HoursStand, Locked
  <1>2. ASSUME NEW g \in Generators, GenerateStep(g)
        PROVE  HoursStand
    <2>1. CASE UNCHANGED <<periods, cells>>
      BY <2>1 DEF HoursStand, Locked
    <2>2. ASSUME GenerateWrite(g), UNCHANGED periods, NEW p \in DOMAIN periods, Fill(p, g),
                 p \in gen[g].found \/ ~Locked(p, gen[g].day)
          PROVE  HoursStand
      <3>1. gen[g].step = "write" /\ gen'[g].step = "idle"
        BY <2>2, EndsTransaction DEF GenerateWrite, Resting
      <3>2. Locked(p, gen[g].day) => g \in racing
        BY <2>2, <3>1 DEF PayInv, WritesUnlocked
      <3>3. \A q \in DOMAIN periods, d \in PayDays :
               cells'[q][d] # cells[q][d] => q = p /\ d = gen[g].day
        BY <2>2, FillTyped
      <3>4. \A q \in DOMAIN periods, d \in PayDays : Locked(q, d) => Locked(q, d)'
        BY <2>2 DEF Locked
      <3>5. QED
        BY <3>1, <3>2, <3>3, <3>4 DEF HoursStand
    <2>3. CASE CreatePeriod(g)
      BY <2>3, CreateTyped DEF HoursStand, Locked
    <2>4. QED
      BY <1>2, <2>1, <2>2, <2>3, WriteOutcomes DEF GenerateStep, GenerateRead, GenerateFail
  <1>3. ASSUME NEW s \in Senders, NEW p \in DOMAIN periods, SendToReview(s, p)
        PROVE  HoursStand
    <2>1. UNCHANGED cells
      BY <1>3 DEF SendToReview
    <2>2. QED
      BY <1>3, <2>1, SendKeeps DEF HoursStand
  <1>4. ASSUME NEW P \in SUBSET DOMAIN periods, NEW window \in {"mid", "final"},
               NEW approved \in BOOLEAN, Approve(P, window, approved)
        PROVE  HoursStand
    <2>1. UNCHANGED cells
      BY <1>4 DEF Approve
    <2>2. QED
      BY <1>4, <2>1, ApproveKeeps DEF HoursStand
  <1>5. QED
    BY <1>1, <1>2, <1>3, <1>4 DEF PayNext

(* What was decided stays decided, and only a generation that was writing   *)
(* when the window was locked can still change its hours.                   *)
THEOREM DecidedHoursStand == PaySpec => LockedHoursStand
  <1>1. PayInv /\ [PayNext]_payVars => [HoursStand]_payVars
    BY HoursStandStep
  <1>2. PaySpec => [][HoursStand]_payVars
    BY <1>1, PayInvariant, PTL DEF PaySpec
  <1>3. QED
    BY <1>2 DEF LockedHoursStand, HoursStand
=============================================================================
