-------------------------- MODULE RegCounterProofs ---------------------------
(* Proofs about RegCounter, for every number of requests and every set of   *)
(* journals and years.                                                      *)
EXTENDS RegCounter, TLAPS

(* The row of a key is held by the one request that is about to save it,    *)
(* and what that request read is still what is there.                       *)
HoldsRow(t) ==
    pc[t] = "save" => lock[key[t]] = t /\ order[t] = Successor(key[t])

(* A taken number lies behind the counter, and was taken once.              *)
Behind(t) == Taken(t) => 0 < order[t] /\ order[t] < Successor(key[t])
TakenOnce == \A t, u \in Requests : Taken(t) /\ given[t] = given[u] => t = u

(* A document bears the number its request took.                            *)
BearsTaken(t) == number[t] # NoNumber => pc[t] = "done" /\ number[t] = given[t]

Rows == \A t \in Requests : HoldsRow(t)
Behinds == \A t \in Requests : Behind(t)
Bears == \A t \in Requests : BearsTaken(t)

CounterInv == TypeOK /\ Rows /\ Behinds /\ TakenOnce /\ Bears

(* The first state is of the right type.                                    *)
LEMMA InitType == Init => TypeOK
<1> SUFFICES ASSUME Init PROVE TypeOK
  OBVIOUS
<1>1. counter \in [Keys -> Nat]
  BY DEF Init
<1>2. QED
  BY <1>1 DEF Init, TypeOK, Locations

(* The next number of a journal and a year is positive.                     *)
LEMMA SuccessorType == TypeOK => \A k \in Keys : Successor(k) \in Nat \ {0}
BY DEF TypeOK, Successor

(* The counter only moves on when a request saves it, by one.               *)
LEMMA OnlySaveCounts ==
    ASSUME TypeOK, NEW t \in Requests, HoldsRow(t), Save(t)
    PROVE  /\ counter' = [counter EXCEPT ![key[t]] = Successor(key[t]) + 1]
           /\ \A k \in Keys : Successor(k)' = IF k = key[t] THEN Successor(k) + 1 ELSE Successor(k)
<1>1. order[t] = Successor(key[t]) /\ key[t] \in Keys /\ Successor(key[t]) \in Nat
  BY SuccessorType DEF Save, HoldsRow, TypeOK
<1>2. QED
  BY <1>1 DEF Save, Successor, TypeOK

(* Every step keeps the types.                                              *)
LEMMA TypeStep == TypeOK /\ [Next]_vars => TypeOK'
<1> SUFFICES ASSUME TypeOK, [Next]_vars PROVE TypeOK'
  OBVIOUS
<1>1. ASSUME NEW t \in Requests, Works(t) PROVE TypeOK'
  <2> USE DEF TypeOK, Locations, Goto, Read, Lock
  <2>1. CASE Get(t)
    BY <2>1 DEF Get
  <2>2. CASE DoesNotExist(t)
    BY <2>2 DEF DoesNotExist
  <2>3. CASE Create(t)
    BY <2>3 DEF Create
  <2>4. CASE GetAgain(t)
    BY <2>4 DEF GetAgain
  <2>5. CASE Save(t)
    BY <2>5 DEF Save
  <2>6. CASE File(t)
    BY <2>6 DEF File, Numbers
  <2>7. QED
    BY <1>1, <2>1, <2>2, <2>3, <2>4, <2>5, <2>6 DEF Works
<1>2. ASSUME NEW t \in Requests, Fails(t) PROVE TypeOK'
  BY <1>2 DEF Fails, Rollback, FileFails, TypeOK, Locations, Goto, Read
<1>3. CASE UNCHANGED vars
  BY <1>3 DEF vars, TypeOK
<1>4. QED
  BY <1>1, <1>2, <1>3 DEF Next

(* A request that works keeps the rows of the others: whoever takes a row   *)
(* takes it while nobody holds it, and whoever saves it is the one.         *)
LEMMA RowsStep ==
    ASSUME TypeOK, Rows, NEW t \in Requests, Works(t) \/ Fails(t)
    PROVE  Rows'
<1> SUFFICES ASSUME NEW u \in Requests, pc'[u] = "save"
             PROVE  lock'[key'[u]] = u /\ order'[u] = Successor(key[u])'
  BY DEF Rows, HoldsRow, Works, Fails, Get, DoesNotExist, Create, GetAgain, Save, File,
         Rollback, FileFails
<1>1. key' = key /\ key[t] \in Keys /\ key[u] \in Keys /\ Nobody # t /\ Nobody # u
  BY RequestAssumption DEF TypeOK, Works, Fails, Get, DoesNotExist, Create, GetAgain, Save, File,
         Rollback, FileFails
<1>2. pc[u] = "save" => lock[key[u]] = u /\ order[u] = Successor(key[u])
  BY DEF Rows, HoldsRow
<1>3. CASE Get(t) \/ Create(t)
  <2>1. lock[key[t]] = Nobody /\ lock' = [lock EXCEPT ![key[t]] = t] /\ counter' = counter
    BY <1>3 DEF Get, Create, Lock
  <2>2. order' = [order EXCEPT ![t] = Successor(key[t])]
    BY <1>3 DEF Get, Create, Read, Successor, TypeOK
  <2>3. CASE u = t
    BY <1>1, <2>1, <2>2, <2>3 DEF Successor, TypeOK
  <2>4. CASE u # t
    <3>1. pc[u] = "save"
      BY <1>3, <2>4 DEF Get, Create, Goto, TypeOK
    <3>2. QED
      BY <1>1, <1>2, <2>1, <2>2, <2>4, <3>1 DEF Successor, TypeOK
  <2>5. QED
    BY <2>3, <2>4
<1>4. CASE Save(t)
  <2>1. u # t /\ pc[u] = "save"
    BY <1>4 DEF Save, Goto, TypeOK
  <2>2. key[u] # key[t]
    BY <1>2, <1>4, <2>1 DEF Rows, HoldsRow, Save
  <2>3. QED
    BY <1>1, <1>2, <1>4, <2>1, <2>2 DEF Save, Successor, TypeOK
<1>5. CASE DoesNotExist(t) \/ GetAgain(t) \/ File(t) \/ FileFails(t)
  <2>1. pc[u] = "save"
    BY <1>5 DEF DoesNotExist, GetAgain, File, FileFails, Goto, TypeOK
  <2>2. QED
    BY <1>1, <1>2, <1>5, <2>1 DEF DoesNotExist, GetAgain, File, FileFails, Successor
<1>6. CASE Rollback(t)
  <2>1. u # t /\ pc[u] = "save"
    BY <1>6 DEF Rollback, Goto, TypeOK
  <2>2. pc[t] = "save" => key[u] # key[t]
    BY <1>2, <2>1 DEF Rows, HoldsRow
  <2>3. QED
    BY <1>1, <1>2, <1>6, <2>1, <2>2 DEF Rollback, Read, Successor, TypeOK
<1>7. QED
  BY <1>3, <1>4, <1>5, <1>6 DEF Works, Fails

(* What a step does to the numbers taken: a saved counter gives its request *)
(* the number it read, and every other step leaves them as they are.        *)
LEMMA TakenStep ==
    ASSUME TypeOK, Rows, Behinds, NEW t \in Requests, Works(t) \/ Fails(t)
    PROVE  /\ ~Save(t) => UNCHANGED given
           /\ Save(t) => /\ given[t] = NoNumber
                         /\ given' = [given EXCEPT ![t] = [key |-> key[t], order |-> Successor(key[t])]]
<1>1. \A u \in Requests \ {t} : Taken(u)' = Taken(u) /\ key'[u] = key[u] /\ order'[u] = order[u]
  BY DEF TypeOK, Taken, Works, Fails, Get, DoesNotExist, Create, GetAgain, Save, File,
         Rollback, FileFails, Goto, Read
<1>2. CASE Save(t)
  <2>1. order[t] = Successor(key[t]) /\ order' = order /\ key' = key
    BY <1>2 DEF Rows, HoldsRow, Save
  <2>2. Taken(t)' /\ ~Taken(t)
    BY <1>2 DEF Save, Goto, Taken, TypeOK
  <2>3. QED
    BY <1>1, <1>2, <2>1, <2>2 DEF given
<1>3. CASE ~Save(t)
  <2>1. Taken(t)' = Taken(t) /\ (Taken(t) => key'[t] = key[t] /\ order'[t] = order[t])
    <3>1. CASE File(t) \/ FileFails(t)
      <4>1. Taken(t) /\ order[t] > 0
        BY <3>1 DEF File, FileFails, Taken, Behinds, Behind
      <4>2. QED
        BY <3>1, <4>1 DEF File, FileFails, Goto, Taken, TypeOK
    <3>2. CASE ~(File(t) \/ FileFails(t))
      BY <1>3, <3>2 DEF TypeOK, Taken, Works, Fails, Get, DoesNotExist, Create, GetAgain,
           Rollback, Goto, Read
    <3>3. QED
      BY <3>1, <3>2
  <2>2. QED
    BY <1>1, <1>3, <2>1 DEF given
<1>4. QED
  BY <1>2, <1>3

(* Numbers taken stay behind the counter: a save moves it past the number   *)
(* it hands out, and it never moves back.                                   *)
LEMMA BehindsStep ==
    ASSUME TypeOK, Rows, Behinds, NEW t \in Requests, Works(t) \/ Fails(t)
    PROVE  Behinds'
<1> SUFFICES ASSUME NEW u \in Requests, Taken(u)'
             PROVE  0 < order'[u] /\ order'[u] < Successor(key[u])'
  BY DEF Behinds, Behind, Works, Fails, Get, DoesNotExist, Create, GetAgain, Save, File,
         Rollback, FileFails
<1>1. key' = key /\ key[t] \in Keys /\ key[u] \in Keys
  BY DEF TypeOK, Works, Fails, Get, DoesNotExist, Create, GetAgain, Save, File,
         Rollback, FileFails
<1>2. given'[u] = [key |-> key[u], order |-> order'[u]]
  BY <1>1 DEF given
<1>3. CASE Save(t)
  <2>1. \A k \in Keys : Successor(k)' = IF k = key[t] THEN Successor(k) + 1 ELSE Successor(k)
    BY <1>3, OnlySaveCounts DEF Rows
  <2>2. order' = order /\ order[t] = Successor(key[t])
    BY <1>3 DEF Save, Rows, HoldsRow
  <2>3. \A k \in Keys : Successor(k) \in Nat \ {0}
    BY SuccessorType
  <2>4. Successor(key[u])' = IF key[u] = key[t] THEN Successor(key[u]) + 1 ELSE Successor(key[u])
    BY <1>1, <2>1
  <2>5. CASE u = t
    BY <1>1, <2>2, <2>3, <2>4, <2>5
  <2>6. CASE u # t
    <3>1. Taken(u)
      BY <1>3, <2>2, <2>6 DEF Taken, Save, Goto, TypeOK
    <3>2. 0 < order[u] /\ order[u] < Successor(key[u]) /\ order[u] \in Nat
      BY <3>1 DEF Behinds, Behind, TypeOK
    <3>3. QED
      BY <1>1, <2>2, <2>3, <2>4, <3>2
  <2>7. QED
    BY <2>5, <2>6
<1>4. CASE ~Save(t)
  <2>1. counter' = counter
    BY <1>4 DEF Works, Fails, Get, DoesNotExist, Create, GetAgain, File, Rollback, FileFails
  <2>2. given'[u] = given[u] /\ [key |-> key[u], order |-> order'[u]] # NoNumber
    BY <1>1, <1>4, TakenStep, RequestAssumption DEF TypeOK, Numbers, Works, Fails, Get,
       DoesNotExist, Create, GetAgain, File, Rollback, FileFails, Read
  <2>3. Taken(u) /\ order'[u] = order[u]
    BY <1>2, <2>2 DEF given
  <2>4. QED
    BY <1>1, <2>1, <2>3 DEF Behinds, Behind, Successor
<1>5. QED
  BY <1>3, <1>4

(* A number is not taken twice: all taken ones are behind the counter, and  *)
(* a save takes the one the counter stands at.                              *)
LEMMA TakenOnceStep ==
    ASSUME TypeOK, Rows, Behinds, TakenOnce, NEW t \in Requests, Works(t) \/ Fails(t)
    PROVE  TakenOnce'
<1>0. \A u \in Requests : /\ Taken(u) => given[u] = [key |-> key[u], order |-> order[u]]
                          /\ Taken(u) <=> given[u] # NoNumber
                          /\ Taken(u)' <=> given'[u] # NoNumber
  <2>1. \A u \in Requests : [key |-> key[u], order |-> order[u]] # NoNumber
    BY RequestAssumption DEF TypeOK, Numbers
  <2>2. TypeOK'
    BY TypeStep DEF Next
  <2>3. \A u \in Requests : [key |-> key'[u], order |-> order'[u]] # NoNumber
    BY <2>2, RequestAssumption DEF TypeOK, Numbers
  <2>4. QED
    BY <2>1, <2>3 DEF given
<1>1. CASE Save(t)
  <2>1. given' = [given EXCEPT ![t] = [key |-> key[t], order |-> Successor(key[t])]]
    BY <1>1, TakenStep
  <2>2. \A u \in Requests : Taken(u) => given[u] # [key |-> key[t], order |-> Successor(key[t])]
    <3>1. SUFFICES ASSUME NEW u \in Requests, Taken(u),
                          [key |-> key[u], order |-> order[u]]
                            = [key |-> key[t], order |-> Successor(key[t])]
                   PROVE  FALSE
      BY <1>0
    <3>2. key[u] = key[t] /\ order[u] = Successor(key[u])
      BY <3>1
    <3>3. order[u] < Successor(key[u]) /\ Successor(key[u]) \in Nat
      BY <3>1, SuccessorType DEF Behinds, Behind, TypeOK
    <3>4. QED
      BY <3>2, <3>3
  <2>3. DOMAIN given = Requests
    BY DEF given
  <2>4. SUFFICES ASSUME NEW u \in Requests, NEW w \in Requests, Taken(u)', given'[u] = given'[w]
                 PROVE  u = w
    BY DEF TakenOnce
  <2>5. Taken(w)'
    BY <1>0, <2>4
  <2>6. \A r \in Requests \ {t} : given'[r] = given[r] /\ (Taken(r)' => Taken(r))
    BY <1>0, <2>1, <2>3
  <2>7. CASE u # t /\ w # t
    BY <2>4, <2>6, <2>7 DEF TakenOnce
  <2>8. CASE u = t /\ w # t
    BY <2>1, <2>2, <2>3, <2>4, <2>5, <2>6, <2>8
  <2>9. CASE w = t /\ u # t
    BY <2>1, <2>2, <2>3, <2>4, <2>6, <2>9
  <2>10. QED
    BY <2>7, <2>8, <2>9
<1>2. CASE ~Save(t)
  BY <1>0, <1>2, TakenStep DEF TakenOnce
<1>3. QED
  BY <1>1, <1>2

(* A document gets the number its request took and keeps it.                *)
LEMMA BearsStep ==
    ASSUME TypeOK, Rows, Behinds, Bears, NEW t \in Requests, Works(t) \/ Fails(t)
    PROVE  Bears'
<1> SUFFICES ASSUME NEW u \in Requests, number'[u] # NoNumber
             PROVE  pc'[u] = "done" /\ number'[u] = given'[u]
  BY DEF Bears, BearsTaken
<1>1. CASE File(t) /\ u = t
  BY <1>1 DEF File, Goto, TypeOK, given, Taken
<1>2. CASE ~File(t) \/ u # t
  <2>1. number'[u] = number[u]
    BY <1>2 DEF TypeOK, Works, Fails, Get, DoesNotExist, Create, GetAgain, Save, File,
       Rollback, FileFails
  <2>2. pc[u] = "done" /\ number[u] = given[u]
    BY <2>1 DEF Bears, BearsTaken
  <2>3. pc'[u] = "done" /\ (Save(t) => u # t)
    BY <2>2 DEF TypeOK, Works, Fails, Get, DoesNotExist, Create, GetAgain, Save, File,
       Rollback, FileFails, Goto
  <2>4. given'[u] = given[u]
    BY <2>3, TakenStep DEF given
  <2>5. QED
    BY <2>1, <2>2, <2>3, <2>4
<1>3. QED
  BY <1>1, <1>2

-----------------------------------------------------------------------------
(* The invariant holds at first.                                            *)
LEMMA InitInv == Init => CounterInv
<1> SUFFICES ASSUME Init PROVE CounterInv
  OBVIOUS
<1>1. \A t \in Requests : pc[t] = "get" /\ number[t] = NoNumber
  BY DEF Init
<1>2. \A t \in Requests : ~Taken(t)
  BY <1>1 DEF Taken
<1>3. QED
  BY <1>1, <1>2, InitType DEF CounterInv, Rows, HoldsRow, Behinds, Behind, TakenOnce, Bears, BearsTaken

(* Every step keeps the invariant.                                          *)
LEMMA InvStep == CounterInv /\ [Next]_vars => CounterInv'
<1> SUFFICES ASSUME CounterInv, [Next]_vars PROVE CounterInv'
  OBVIOUS
<1>1. ASSUME NEW t \in Requests, Works(t) \/ Fails(t) PROVE CounterInv'
  BY <1>1, TypeStep, RowsStep, BehindsStep, TakenOnceStep, BearsStep DEF CounterInv, Next
<1>2. CASE UNCHANGED vars
  BY <1>2 DEF vars, CounterInv, TypeOK, Rows, HoldsRow, Behinds, Behind, TakenOnce, Bears, BearsTaken,
     Taken, given, Successor
<1>3. QED
  BY <1>1, <1>2 DEF Next

(* The locking discipline is kept for ever: a request that is about to save *)
(* holds the row, and what it read is what is there (allocate_reg_number).  *)
THEOREM CounterInvariant == Spec => []CounterInv
<1>1. QED
  BY InitInv, InvStep, PTL DEF Spec

(* No two documents of a journal and a year get the same register_number,   *)
(* however many requests create documents at the same time and whichever of *)
(* them fail.                                                               *)
THEOREM NumbersAreDistinct == Spec => []DistinctNumbers
<1>1. CounterInv => DistinctNumbers
  <2> SUFFICES ASSUME CounterInv, NEW t \in Requests, NEW u \in Requests,
                      number[t] # NoNumber, number[t] = number[u]
               PROVE  t = u
    BY DEF DistinctNumbers
  <2>1. number[t] = given[t] /\ number[u] = given[u] /\ Taken(t)
    BY DEF CounterInv, Bears, BearsTaken, Taken
  <2>2. QED
    BY <2>1 DEF CounterInv, TakenOnce
<1>2. QED
  BY <1>1, CounterInvariant, PTL

-----------------------------------------------------------------------------
(* The refinement.                                                          *)

(* The first state is one of the abstract numbering.                        *)
LEMMA InitTakes == Init => Abstract!Init
<1> SUFFICES ASSUME Init PROVE Abstract!Init
  OBVIOUS
<1>1. \A k \in Keys : Successor(k) = 1
  BY DEF Init, Successor
<1>2. \A t \in Requests : ~Taken(t)
  BY DEF Init, Taken
<1>3. QED
  BY <1>1, <1>2 DEF Abstract!Init, given

(* A save takes the next number; every other step is a stutter.             *)
LEMMA StepTakes ==
    CounterInv /\ [Next]_vars => [Abstract!Next]_<<[k \in Keys |-> Successor(k)], given>>
<1> SUFFICES ASSUME CounterInv, [Next]_vars
             PROVE  [Abstract!Next]_<<[k \in Keys |-> Successor(k)], given>>
  OBVIOUS
<1> DEFINE next == [k \in Keys |-> Successor(k)]
<1>1. ASSUME NEW t \in Requests, Save(t) PROVE Abstract!Take(t, key[t])
  <2>1. given[t] = NoNumber
        /\ given' = [given EXCEPT ![t] = [key |-> key[t], order |-> Successor(key[t])]]
    BY <1>1, TakenStep DEF CounterInv, Works
  <2>2. \A k \in Keys : Successor(k)' = IF k = key[t] THEN Successor(k) + 1 ELSE Successor(k)
    BY <1>1, OnlySaveCounts DEF CounterInv, Rows
  <2>3. key[t] \in Keys
    BY DEF CounterInv, TypeOK
  <2>4. next' = [next EXCEPT ![key[t]] = @ + 1]
    BY <2>2, <2>3
  <2>5. QED
    BY <2>1, <2>3, <2>4 DEF Abstract!Take
<1>2. ASSUME NEW t \in Requests, Works(t) \/ Fails(t), ~Save(t) PROVE UNCHANGED <<next, given>>
  <2>1. given' = given
    BY <1>2, TakenStep DEF CounterInv
  <2>2. counter' = counter
    BY <1>2 DEF Works, Fails, Get, DoesNotExist, Create, GetAgain, File, Rollback, FileFails
  <2>3. QED
    BY <2>1, <2>2 DEF Successor
<1>3. CASE UNCHANGED vars
  BY <1>3 DEF vars, given, Taken, Successor
<1>4. ASSUME NEW t \in Requests, Save(t) PROVE Abstract!Next
  <2>1. key[t] \in Keys
    BY DEF CounterInv, TypeOK
  <2>2. QED
    BY <1>1, <1>4, <2>1 DEF Abstract!Next
<1>5. QED
  BY <1>2, <1>3, <1>4 DEF Next

(* Seen at its commits, allocate_reg_number is atomic: every request takes  *)
(* the next number of its journal and year in one step.                     *)
THEOREM AllocatesAtomically == Spec => TakesNumbersAtomically
<1>1. QED
  BY CounterInvariant, InitTakes, StepTakes, PTL DEF Spec, TakesNumbersAtomically, Abstract!Spec
=============================================================================
