------------------------------ MODULE MCOffice ------------------------------
(* The parts of the office that share no state with each other: in each     *)
(* behaviour one of them moves.  x and y stand for two processes, two       *)
(* requests or two people.                                                  *)
EXTENDS Attendance, Payroll, Chat, Trips, StaffSync, TLC

CONSTANTS x, y, p, q, ra, rb, home, Parts

VARIABLE part

Two == {x, y}

(* What may be stored of the employee for one day, two rows included.       *)
Whole == [code |-> "A", full |-> TRUE, seconds |-> 28800]
Half == [code |-> "A", full |-> FALSE, seconds |-> 16200]
MCStored == {<<>>, <<Whole>>, <<Half>>, <<Whole, Half>>}

PandQ == {p, q}
MCRoutes == {{}, {ra}}
MCRegions == {ra, rb}
MCRequests == {home}
MCWorkDays == {1, 3}

(* Nothing is promised of a trip once a stale request has saved its rows:   *)
(* such states are not followed.                                            *)
MCNotOvertaken == "overtaken" \notin disorder

MCSymmetry == Permutations(Two)

OfficeInit ==
    /\ part \in Parts
    /\ AttInit /\ PayInit /\ ChatInit /\ TripInit /\ StaffInit
    /\ part # "payroll" => ~branch
    /\ part # "trips" => route = {}

OfficeNext ==
    /\ UNCHANGED part
    /\ \/ /\ part = "attendance"
          /\ AttNext
          /\ UNCHANGED <<payVars, chatVars, tripVars, staffVars>>
       \/ /\ part = "payroll"
          /\ PayNext
          /\ UNCHANGED <<attVars, chatVars, tripVars, staffVars>>
       \/ /\ part = "chat"
          /\ ChatNext
          /\ UNCHANGED <<attVars, payVars, tripVars, staffVars>>
       \/ /\ part = "trips"
          /\ TripNext
          /\ UNCHANGED <<attVars, payVars, chatVars, staffVars>>
       \/ /\ part = "staff"
          /\ StaffNext
          /\ UNCHANGED <<attVars, payVars, chatVars, tripVars>>

officeVars == <<part, attVars, payVars, chatVars, tripVars, staffVars>>

OfficeSpec == OfficeInit /\ [][OfficeNext]_officeVars
=============================================================================
