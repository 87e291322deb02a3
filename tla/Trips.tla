-------------------------------- MODULE Trips -------------------------------
(****************************************************************************)
(* One business trip: the stops of its certificate.  The first stop is the  *)
(* company that sends the employee, the others are regions; at each one     *)
(* somebody marks that he has arrived and that he has left.  The route may  *)
(* be changed while the extension of the trip is being signed, a mark may   *)
(* be reset, and the stops may be created again.                            *)
(*                                                                          *)
(* all_verified looks for stops with verified = FALSE, and nothing stores   *)
(* that: it always holds, and is left out.  So are the plain PUT of a stop, *)
(* expenses and visited places.  A reset is taken as a whole.               *)
(****************************************************************************)
EXTENDS Naturals, SequencesExt

CONSTANTS
    Regions,        \* the regions a route is made of
    HomeRegion,     \* the region of the sending company
    Routes,         \* what the locations of the notice may be, none for a trip abroad
    TripRequests,   \* requests under way, never 0
    MaxStop         \* bound on the rows

Steps == {"idle", "arrive", "leave", "reporting", "on_trip"}
Nowhere == "nowhere"

ASSUME TripAssumption ==
    /\ IsFiniteSet(Regions)
    /\ (Regions \cup {HomeRegion}) \cap (Steps \cup {Nowhere}) = {}
    /\ Routes \subseteq SUBSET Regions
    /\ 0 \notin TripRequests
    /\ MaxStop \in Nat

VARIABLES
    route,          \* the locations of the notice
    trip,           \* its row
    stops,          \* id -> row
    acted,          \* the stops with an action_date, the oldest first
    requests,       \* request -> the rows it has loaded and checked, and what it has yet to save
    disorder        \* history: what happened that the properties make an exception of

tripVars == <<route, trip, stops, acted, requests, disorder>>

NoStop == [sender |-> FALSE, region |-> HomeRegion, arrived |-> FALSE, left |-> FALSE]
NoTrip == [status |-> "not_started", active |-> TRUE, extended |-> FALSE]
NoRequest == [step |-> "idle", stop |-> 0, row |-> NoStop, stale |-> FALSE]

TripInit ==
    /\ route \in Routes
    /\ trip = NoTrip
    /\ stops = [i \in {} |-> NoStop]
    /\ acted = <<>>
    /\ requests = [r \in TripRequests |-> NoRequest]
    /\ disorder = {}

Visited(row) == row.arrived \/ row.left
SenderStops == {i \in DOMAIN stops : stops[i].sender}
RegionStops == DOMAIN stops \ SenderStops

(* Ids are not given out twice while a request holds one.                   *)
NextId == Max({0} \cup DOMAIN stops \cup {requests[r].stop : r \in TripRequests}) + 1

RegionRows(S) == LET order == SetToSeq(S) IN [k \in DOMAIN order |-> [NoStop EXCEPT !.region = order[k]]]

Added(rows, new) ==
    [i \in DOMAIN rows \cup {NextId + k - 1 : k \in DOMAIN new} |->
       IF i \in DOMAIN rows THEN rows[i] ELSE new[i - NextId + 1]]

Fits(n) == NextId + n <= MaxStop + 1

(* A write makes what other requests have loaded stale.                     *)
Outdated(calls, r) ==
    [q \in TripRequests |->
       IF q = r \/ calls[q] = NoRequest THEN calls[q] ELSE [calls[q] EXCEPT !.stale = TRUE]]

Continue(r, row) == requests' = Outdated([requests EXCEPT ![r] = row], r)
Elsewhere == requests' = Outdated(requests, 0)

-----------------------------------------------------------------------------
(* The certificate is created when the order is registered: the sender's    *)
(* stop, and one for each location.  Nothing asks whether it was before.    *)

CreateTripVerification ==
    /\ Fits(1 + Cardinality(route))
    /\ stops' = Added(stops, <<[NoStop EXCEPT !.sender = TRUE]>> \o RegionRows(route))
    /\ disorder' = IF DOMAIN stops = {} THEN disorder ELSE disorder \cup {"repeated"}
    /\ Elsewhere
    /\ UNCHANGED <<route, trip, acted>>

-----------------------------------------------------------------------------
(* mark-arrived and mark-left: the stop and the trip are loaded, checked,   *)
(* and saved whole.                                                         *)

LastMarked == IF acted = <<>> THEN 0 ELSE Last(acted)
FirstSenderLeft == SenderStops # {} => stops[Min(SenderStops)].left

Load(r, i, step) ==
    /\ requests[r] = NoRequest
    /\ trip.active
    /\ requests' = [requests EXCEPT ![r] = [NoRequest EXCEPT !.step = step, !.stop = i, !.row = stops[i]]]
    /\ UNCHANGED <<route, trip, stops, acted, disorder>>

(* Slip: only the sender's stop must be left. *)
Slip_CheckArrived(r, i) == FirstSenderLeft /\ ~stops[i].arrived /\ Load(r, i, "arrive")

(* The stop that was marked last must be left, and the sender's too.        *)
CheckArrived(r, i) ==
    /\ LastMarked # 0 => stops[LastMarked].left
    /\ FirstSenderLeft
    /\ ~stops[i].arrived
    /\ Load(r, i, "arrive")

CheckLeft(r, i) ==
    /\ stops[i].arrived \/ stops[i].sender
    /\ ~stops[i].left
    /\ Load(r, i, "leave")

(* A row that was deleted meanwhile is inserted again.                      *)
SaveStop(r, row) ==
    LET i == requests[r].stop IN
    /\ stops' = [j \in DOMAIN stops \cup {i} |-> IF j = i THEN row ELSE stops[j]]
    /\ acted' = Append(RemoveFirst(acted, i), i)
    /\ disorder' = IF requests[r].stale THEN disorder \cup {"overtaken"} ELSE disorder

AfterLeaving(r) == IF requests[r].row.sender THEN [requests[r] EXCEPT !.step = "on_trip"] ELSE NoRequest

(* Back at the sender's, the trip is being reported.                        *)
Arrived(r) ==
    /\ requests[r].step = "arrive"
    /\ SaveStop(r, [requests[r].row EXCEPT !.arrived = TRUE])
    /\ Continue(r, IF requests[r].row.sender THEN [requests[r] EXCEPT !.step = "reporting"] ELSE NoRequest)
    /\ UNCHANGED <<route, trip>>

Left(r, to) ==
    /\ requests[r].step = "leave"
    /\ SaveStop(r, [requests[r].row EXCEPT !.left = TRUE])
    /\ Continue(r, IF to # Nowhere THEN [requests[r] EXCEPT !.step = to] ELSE AfterLeaving(r))
    /\ UNCHANGED <<route, trip>>

(* Slip: a region that has a stop gets another one. *)
Slip_NextDestination(r) ==
    /\ requests[r].step \in Regions \cup {HomeRegion}
    /\ Fits(1)
    /\ stops' = Added(stops, RegionRows({requests[r].step}))
    /\ Continue(r, AfterLeaving(r))
    /\ UNCHANGED <<route, trip, acted, disorder>>

(* The next destination: a region visited before gets another stop, if its  *)
(* latest one is over.                                                      *)
NextDestination(r) ==
    LET region == requests[r].step
        there == {i \in DOMAIN stops : stops[i].region = region}
        over == there # {} /\ stops[Max(there)].arrived /\ stops[Max(there)].left
    IN
    /\ region \in Regions \cup {HomeRegion}
    /\ over => Fits(1)
    /\ stops' = IF over THEN Added(stops, RegionRows({region})) ELSE stops
    /\ Continue(r, AfterLeaving(r))
    /\ UNCHANGED <<route, trip, acted, disorder>>

(* The trip was active when it was loaded, and is saved so.                 *)
SaveTripStatus(r) ==
    /\ requests[r].step \in {"reporting", "on_trip"}
    /\ trip' = [trip EXCEPT !.status = requests[r].step, !.active = TRUE]
    /\ disorder' = IF requests[r].stale THEN disorder \cup {"overtaken"} ELSE disorder
    /\ Continue(r, NoRequest)
    /\ UNCHANGED <<route, stops, acted>>

(* The request ends between two statements.                                 *)
AbortTrip(r) ==
    /\ requests[r] # NoRequest
    /\ requests' = [requests EXCEPT ![r] = NoRequest]
    /\ UNCHANGED <<route, trip, stops, acted, disorder>>

-----------------------------------------------------------------------------
(* Resetting a mark.                                                        *)

(* Slip: the sender's departure may always be reset. *)
Slip_ResetLeft(i) ==
    /\ stops[i].sender \/ stops[i].arrived
    /\ stops' = [stops EXCEPT ![i].left = FALSE]
    /\ disorder' = disorder \cup {"reopened"}
    /\ Elsewhere
    /\ UNCHANGED <<route, trip, acted>>

ResetLeft(i) ==
    /\ IF stops[i].sender THEN \A j \in RegionStops : ~Visited(stops[j])
       ELSE stops[i].arrived
    /\ stops' = [stops EXCEPT ![i].left = FALSE]
    /\ disorder' = disorder \cup (IF stops[i].left THEN {"reopened"} ELSE {})
                           \cup (IF stops[i].left /\ i # LastMarked THEN {"reopened earlier"} ELSE {})
    /\ Elsewhere
    /\ UNCHANGED <<route, trip, acted>>

ResetArrived(i) ==
    /\ stops[i].left => stops[i].sender
    /\ trip' = IF stops[i].sender THEN [trip EXCEPT !.status = "on_trip"] ELSE trip
    /\ stops' = [stops EXCEPT ![i].arrived = FALSE]
    /\ acted' = RemoveFirst(acted, i)
    /\ Elsewhere
    /\ UNCHANGED <<route, disorder>>

-----------------------------------------------------------------------------
(* Changing the route: the trip rests until the extension is signed, stops  *)
(* nobody has been to and the new route does not name go - they have no     *)
(* action_date -, new regions are added.  Only a trip with a certificate is *)
(* extended.                                                                *)

Dropped(regions) == {i \in RegionStops : stops[i].region \notin regions /\ ~Visited(stops[i])}

Reroute(regions) ==
    LET missing == regions \ {stops[i].region : i \in DOMAIN stops} IN
    /\ SenderStops # {}
    /\ Fits(Cardinality(missing))
    /\ trip' = [trip EXCEPT !.active = FALSE, !.extended = TRUE]
    /\ stops' = Added([i \in DOMAIN stops \ Dropped(regions) |-> stops[i]], RegionRows(missing))
    /\ Elsewhere
    /\ UNCHANGED <<route, acted, disorder>>

(* The endpoint for it reads the list under another name than the serializer*)
(* gives it, so it sees an empty one, and no notice is there to be signed.  *)
UpdateTripVerifications ==
    /\ SenderStops # {}
    /\ trip' = [trip EXCEPT !.active = FALSE]
    /\ stops' = [i \in DOMAIN stops \ Dropped({}) |-> stops[i]]
    /\ Elsewhere
    /\ UNCHANGED <<route, acted, disorder>>

SignExtension ==
    /\ trip.extended
    /\ trip' = [trip EXCEPT !.active = TRUE]
    /\ Elsewhere
    /\ UNCHANGED <<route, stops, acted, disorder>>

-----------------------------------------------------------------------------

MarkStep(r) ==
    \/ \E i \in DOMAIN stops : CheckArrived(r, i) \/ CheckLeft(r, i)
    \/ Arrived(r)
    \/ \E to \in Regions \cup {HomeRegion, Nowhere} : Left(r, to)
    \/ NextDestination(r) \/ SaveTripStatus(r) \/ AbortTrip(r)

TripNext ==
    \/ CreateTripVerification
    \/ \E r \in TripRequests : MarkStep(r)
    \/ \E i \in DOMAIN stops : ResetLeft(i) \/ ResetArrived(i)
    \/ \E regions \in (SUBSET Regions) \ {{}} : Reroute(regions)
    \/ UpdateTripVerifications
    \/ SignExtension

TripSpec == TripInit /\ [][TripNext]_tripVars

-----------------------------------------------------------------------------
(* Properties.  "overtaken" means that a request saved rows which had been  *)
(* changed since it loaded them.                                            *)

(* Nobody has been anywhere before he has left the sender: neither a reset  *)
(* nor a change of route takes the departure back.                          *)
DepartureStands ==
    \/ "overtaken" \in disorder
    \/ \A i \in RegionStops : Visited(stops[i]) => FirstSenderLeft

(* He is at one place at a time, unless the departure from a place other    *)
(* than the last one was reset, or the certificate created twice: then the  *)
(* departure from the second sender's stop hides the place he is at.        *)
OnePlaceAtATime ==
    \/ disorder \cap {"overtaken", "repeated", "reopened earlier"} # {}
    \/ \A i, j \in RegionStops : (\A k \in {i, j} : stops[k].arrived /\ ~stops[k].left) => i = j

(* A region has at most one stop that is not over, however often the route  *)
(* is changed or the region named as the next destination, unless the       *)
(* certificate was created again or a departure reset.                      *)
OneOpenStop ==
    \/ disorder \cap {"overtaken", "repeated", "reopened"} # {}
    \/ \A i, j \in RegionStops :
          stops[i].region = stops[j].region /\ ~stops[i].left /\ ~stops[j].left => i = j
=============================================================================
