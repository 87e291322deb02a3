-------------------------------- MODULE MCDesk --------------------------------
(* Four kinds of requests that share no state with each other: in each      *)
(* behaviour one of them moves.  x, y and z stand for requests, people or   *)
(* schedules.  Of the managers, three rows are moved by one client, and two *)
(* by two of them.                                                          *)
EXTENDS ManagerOrder, Schedules, FanOut, TLC

CONSTANTS x, y, z, a, b, Parts

VARIABLE part

Two == {x, y}
Three == {x, y, z}

MCLists == UNION {{f \in [1..n -> Three] : IsInjective(f)} : n \in {1, 3}}
MCClients == {a, b}
MCSymmetry == Permutations(Two) \cup Permutations(MCClients)

(* Only the marks matter where two clients meet.                            *)
TwoRows ==
    /\ nextLink <= 3
    /\ \A i \in DOMAIN links : links[i].order = 0
    /\ \A d \in Clients : Len(calls[d].list) <= 1

DeskInit ==
    /\ part \in Parts
    /\ LinkInit /\ ScheduleInit /\ FanInit
    /\ part # "fan-out" => DOMAIN reviews = {}

DeskNext ==
    /\ UNCHANGED part
    /\ \/ /\ part \in {"managers", "leaders"}
          /\ LinkNext
          /\ IF part = "managers" THEN calls'[b] = NoCall ELSE TwoRows'
          /\ UNCHANGED <<scheduleVars, fanVars>>
       \/ /\ part = "schedules"
          /\ ShiftNext
          /\ UNCHANGED <<linkVars, fanVars>>
       \/ /\ part = "plans"
          /\ PlanNext
          /\ UNCHANGED <<linkVars, fanVars>>
       \/ /\ part = "fan-out"
          /\ FanNext
          /\ UNCHANGED <<linkVars, scheduleVars>>

DeskSpec == DeskInit /\ [][DeskNext]_<<part, linkVars, scheduleVars, fanVars>>
=============================================================================
