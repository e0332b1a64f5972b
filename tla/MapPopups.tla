-------------------------------- MODULE MapPopups --------------------------------
(***************************************************************************)
(* The popups of the map page (app/static/js/map.js), the markers they      *)
(* belong to, and what the popups of vehicles are for besides the status:   *)
(* the check-in of the user and the watch that reports the position of the  *)
(* vehicle.                                                                *)
(*                                                                         *)
(* The page asks for its user's check-in once, when it is loaded, and then  *)
(* believes its own requests.  As in MapView a callback is one step, and    *)
(* answers arrive in any order.  The server's side of a check-in is one     *)
(* step of CheckInRegister.                                                *)
(***************************************************************************)
CONSTANTS
  Vehicles, Stations, Incidents,  \* primary keys
  Changing, \* the stations and incidents that come and go (a bound)
  Slots,    \* requests of the page in flight at one time (a bound)
  None,
  Pending,  \* no answer yet
  Error     \* the JSON body of a 401, which is no list

ASSUME ConstantsAssumption ==
  /\ Stations \cap (Vehicles \cup Incidents) = {}
  /\ Incidents \cap Vehicles = {}
  /\ Changing \subseteq Stations \cup Incidents
  /\ None \notin Vehicles \cup Stations \cup Incidents

VARIABLES
  crew,        \* the vehicle the server has the user on
  locations,   \* the stations and the active incidents
  currentCheckinVehicleId,
  watches,     \* the vehicles whose positions the page reports
  offered,     \* the check-in the popups were written with: it decides which of
               \* the buttons, check in or check out, each of them has
  markers,     \* the vehicles, stations and incidents on the map
  popup,       \* whose popup is open
  request,     \* the requests in flight
  calm         \* history: no other page or admin has changed the check-in, no
               \* answer about it was lost, no two requests for it overlapped, and
               \* no button was pressed that was out of date

mine == <<currentCheckinVehicleId, watches>>
drawn == <<offered, markers, popup>>
vars == <<crew, locations, mine, drawn, request, calm>>

Locations == Stations \cup Incidents
LocationLists == {(Locations \ Changing) \cup C : C \in SUBSET Changing}
Crew == Vehicles \cup {None}

\* What a poll brings: the locations, and which of their lists is an error body.
Answers == [locations : LocationLists, broken : {"none", "stations", "incidents"}]
Poll == [kind |-> "poll", answer |-> Pending]
CrewKinds == {"me", "check_in", "check_out"}
Requests == [kind : {"poll"}, answer : Answers \cup {Pending, Error}]
            \cup [kind : {"me"}, answer : Crew \cup {Pending}]
            \cup [kind : {"check_in", "check_out"}, vehicle : Vehicles, answer : {Pending, "ok"}]

ASSUME ValuesAssumption == None \notin Requests /\ Pending # "ok"

TypeOK ==
  /\ crew \in Crew
  /\ locations \in LocationLists
  /\ currentCheckinVehicleId \in Crew
  /\ watches \subseteq Vehicles
  /\ offered \in Crew
  /\ markers \subseteq Vehicles \cup Locations
  /\ popup \in markers \cup {None}
  /\ request \in [Slots -> Requests \cup {None}]
  /\ calm \in BOOLEAN

\* The page is loaded, which sends a poll and getMyCheckin.
Init ==
  /\ crew \in Crew
  /\ locations \in LocationLists
  /\ currentCheckinVehicleId = None
  /\ watches = {}
  /\ offered = None
  /\ markers = {}
  /\ popup = None
  /\ \E p, q \in Slots :
       /\ p # q
       /\ request = [s \in Slots |-> CASE s = p -> Poll
                                       [] s = q -> [kind |-> "me", answer |-> Pending]
                                       [] OTHER -> None]
  /\ calm = TRUE

Is(q, kind) == request[q] # None /\ request[q].kind = kind
Asked(q, kind) == Is(q, kind) /\ request[q].answer = Pending
Answered(q, kind) == Is(q, kind) /\ request[q].answer # Pending
Send(q, r) == request' = [request EXCEPT ![q] = r]
Deciding == \E q \in Slots : \E kind \in CrewKinds : Is(q, kind)

--------------------------------------------------------------------------------
(* The server.                                                             *)

OthersChangeLocations ==
  /\ locations' \in LocationLists \ {locations}
  /\ UNCHANGED <<crew, mine, drawn, request, calm>>

\* Another page of the user, or an admin who deletes the vehicle.
OthersChangeCrew ==
  /\ crew' \in Crew \ {crew}
  /\ calm' = FALSE
  /\ UNCHANGED <<locations, mine, drawn, request>>

AnswerPoll(q) ==
  /\ Asked(q, "poll")
  /\ Send(q, [Poll EXCEPT !.answer = [locations |-> locations, broken |-> "none"]])
  /\ UNCHANGED <<crew, locations, mine, drawn, calm>>

\* The session has ended, before the first of the three lists or since.
AnswerError(q) ==
  /\ Asked(q, "poll")
  /\ \E a \in {Error} \cup {[locations |-> locations, broken |-> b] : b \in {"stations", "incidents"}} :
       Send(q, [Poll EXCEPT !.answer = a])
  /\ UNCHANGED <<crew, locations, mine, drawn, calm>>

AnswerMe(q) ==
  /\ Asked(q, "me")
  /\ Send(q, [request[q] EXCEPT !.answer = crew])
  /\ UNCHANGED <<crew, locations, mine, drawn, calm>>

\* check_out of a vehicle the user is not on changes nothing and says 204 too.
Execute(q) ==
  /\ \/ Asked(q, "check_in") /\ crew' = request[q].vehicle
     \/ Asked(q, "check_out") /\ crew' = IF crew = request[q].vehicle THEN None ELSE crew
  /\ Send(q, [request[q] EXCEPT !.answer = "ok"])
  /\ UNCHANGED <<locations, mine, drawn, calm>>

--------------------------------------------------------------------------------
(* Polls.                                                                  *)

FetchData(q) ==
  /\ request[q] = None
  /\ Send(q, Poll)
  /\ UNCHANGED <<crew, locations, mine, drawn, calm>>

\* (variant) Markers are forgotten and stay on the map.
RemovedNothing(a) == {}

\* (variant) The markers of stations are drawn anew too.
RemovedRedrawing(a) == IF a.broken = "stations" THEN {} ELSE Locations

\* Removing a marker closes its popup.  The loop after the stations removes the
\* marker of every incident, although those that are left are drawn again.
Removed(a) == IF a.broken = "stations" THEN {} ELSE Locations \ (a.locations \cap Stations)

\* (variant) The popups of the markers that stay are not written again.
UpdateMapOnce(q) ==
  /\ Answered(q, "poll") /\ request[q].answer # Error
  /\ LET a == request[q].answer
     IN /\ offered' = IF markers = {} THEN currentCheckinVehicleId ELSE offered
        /\ popup' = IF popup \in Removed(a) THEN None ELSE popup
        /\ markers' = Vehicles \cup a.locations
  /\ Send(q, None)
  /\ UNCHANGED <<crew, locations, mine, calm>>

\* updateMap: the popups of vehicles, then stations, then incidents.  An error body
\* for one of the lists ends it there.
UpdateMap(q) ==
  /\ Answered(q, "poll") /\ request[q].answer # Error
  /\ LET a == request[q].answer
     IN /\ offered' = currentCheckinVehicleId
        /\ popup' = IF popup \in Removed(a) THEN None ELSE popup
        /\ markers' = Vehicles \cup CASE a.broken = "stations" -> markers
                                      [] a.broken = "incidents" -> a.locations \cap Stations
                                      [] OTHER -> a.locations
  /\ Send(q, None)
  /\ UNCHANGED <<crew, locations, mine, calm>>

\* No vehicles, or no answer.
PollFails(q) ==
  /\ Is(q, "poll")
  /\ Send(q, None)
  /\ UNCHANGED <<crew, locations, mine, drawn, calm>>

--------------------------------------------------------------------------------
(* The user's check-in.                                                    *)

\* (variant) The old watch goes on.
StartWithoutStop(v) == watches' = watches \cup {v}

\* startLocationWatchForVehicle stops the watch there is.
StartLocationWatch(v) == watches' = {v}

\* The answer to getMyCheckin; 204 does not stop a watch.
MyCheckin(q) ==
  /\ Answered(q, "me")
  /\ currentCheckinVehicleId' = request[q].answer
  /\ \/ request[q].answer # None /\ StartLocationWatch(request[q].answer)
     \/ request[q].answer = None /\ UNCHANGED watches
  /\ Send(q, None)
  /\ UNCHANGED <<crew, locations, drawn, calm>>

OpenPopup(x) ==
  /\ x \in markers
  /\ popup' \in {x, None} \ {popup}
  /\ UNCHANGED <<crew, locations, mine, offered, markers, request, calm>>

\* The button of the popup, as that was written.
PressCheckin(v) ==
  /\ popup = v
  /\ \E q \in Slots :
       /\ request[q] = None
       /\ Send(q, [kind |-> IF offered = v THEN "check_out" ELSE "check_in",
                   vehicle |-> v, answer |-> Pending])
  /\ calm' = (calm /\ ~ Deciding /\ offered = currentCheckinVehicleId)
  /\ UNCHANGED <<crew, locations, mine, drawn>>

CheckedIn(q) ==
  /\ Answered(q, "check_in")
  /\ currentCheckinVehicleId' = request[q].vehicle
  /\ StartLocationWatch(request[q].vehicle)
  /\ Send(q, Poll)
  /\ UNCHANGED <<crew, locations, drawn, calm>>

\* (variant) The watch goes on after a check-out.
CheckedOutWatching(q) ==
  /\ Answered(q, "check_out")
  /\ currentCheckinVehicleId' = None
  /\ Send(q, Poll)
  /\ UNCHANGED <<crew, locations, watches, drawn, calm>>

CheckedOut(q) ==
  /\ Answered(q, "check_out")
  /\ currentCheckinVehicleId' = None
  /\ watches' = {}
  /\ Send(q, Poll)
  /\ UNCHANGED <<crew, locations, drawn, calm>>

\* The request is refused before it has changed anything: an alert.
CheckinRefused(q) ==
  /\ Asked(q, "check_in") \/ Asked(q, "check_out")
  /\ Send(q, None)
  /\ UNCHANGED <<crew, locations, mine, drawn, calm>>

\* Request or answer are lost.
CheckinLost(q) ==
  /\ \E kind \in CrewKinds : Is(q, kind)
  /\ Send(q, None)
  /\ calm' = FALSE
  /\ UNCHANGED <<crew, locations, mine, drawn>>

--------------------------------------------------------------------------------
Fails(q) == AnswerError(q) \/ PollFails(q) \/ CheckinRefused(q) \/ CheckinLost(q)

Disturbance ==
  \/ OthersChangeLocations \/ OthersChangeCrew
  \/ \E v \in Vehicles : PressCheckin(v)
  \/ \E q \in Slots : Fails(q)

Progress(q) ==
  \/ AnswerPoll(q) \/ UpdateMap(q) \/ AnswerMe(q) \/ Execute(q)
  \/ MyCheckin(q) \/ CheckedIn(q) \/ CheckedOut(q)
  \/ Is(q, "poll") /\ request[q].answer = Error /\ PollFails(q)

Next ==
  \/ Disturbance
  \/ \E x \in Vehicles \cup Locations : OpenPopup(x)
  \/ \E q \in Slots : Progress(q) \/ FetchData(q)

Spec == Init /\ [][Next]_vars

\* Requests are answered, and the timer of setInterval goes on.
FairSpec == Spec /\ \A q \in Slots : WF_vars(Progress(q)) /\ WF_vars(FetchData(q))

--------------------------------------------------------------------------------
(* Properties.                                                             *)

\* Whatever arrives in whatever order, the page reports the position of one vehicle
\* at most; it does report that of the vehicle it believes the user is on; and as
\* long as nothing has disturbed it, and no request about the check-in is in
\* flight, it believes what the server knows and reports nothing else.
WatchFollowsCheckin ==
  /\ \A v, w \in watches : v = w
  /\ currentCheckinVehicleId # None => currentCheckinVehicleId \in watches
  /\ calm /\ ~ Deciding =>
       currentCheckinVehicleId = crew /\ watches = {crew} \ {None}

\* A poll does not close the popup of a vehicle or a station under the user: what
\* is still there keeps its marker, and with it the popup.
OpenPopupSurvives ==
  [][\A x \in Vehicles \cup Stations :
       popup = x /\ popup' # x /\ request' # request => x \notin markers']_vars

CaughtUp == offered = currentCheckinVehicleId /\ markers = Vehicles \cup locations

\* When nobody does anything any more and requests no longer fail, the popups end
\* up with the buttons that fit the check-in the page knows, and the map with the
\* locations there are, and an incident a failed poll has removed is back.
PopupsCatchUp ==
  \/ []<><<Disturbance>>_vars
  \/ <>[]CaughtUp

\* The requests that can still put something out of date on the page: those about
\* the check-in, and polls whose answer is not what there is.
UpToDate(a) == a \in {Pending, Error, [locations |-> locations, broken |-> "none"]}
Stale == {q \in Slots : request[q] # None /\ ~ (Is(q, "poll") /\ UpToDate(request[q].answer))}

\* No step adds to them; and once nothing is out of date, the first poll that is shown
\* makes popups and markers right, and no step makes them wrong again.
Nearer ==
  /\ Stale' \subseteq Stale
  /\ Stale = {} /\ CaughtUp => CaughtUp'
  /\ Stale = {} /\ (\E q \in Slots : UpdateMap(q)) => CaughtUp'

\* Why they catch up: while nothing disturbs, every step brings them nearer or leaves
\* them, in whatever order the answers arrive.
NearsCaughtUp == [][~ Disturbance => Nearer]_vars
================================================================================
