--------------------------------- MODULE MapView ---------------------------------
(***************************************************************************)
(* The vehicles of the map page (app/static/js/map.js) as the answers to    *)
(* polls, status changes and drags arrive, in whatever order.               *)
(*                                                                         *)
(* The page keeps the status of a vehicle three times: in the colour of its *)
(* marker, in the list of the sidebar, and in allVehicles.  changeStatus    *)
(* writes the colour and allVehicles before it asks the server; a poll      *)
(* writes all three, unless one of its answers is the JSON body of an error.*)
(* JavaScript runs one callback at a time: each is one step.  The server is *)
(* what it lists; others change that at any moment.  Popups and locations   *)
(* are the matter of MapPopups.                                            *)
(***************************************************************************)
CONSTANTS
  Vehicles,  \* primary keys
  Statuses,
  Places,    \* where a vehicle is shown: its own position or its location's
  Slots,     \* requests of the page in flight at one time (a bound)
  None,
  Pending,   \* no answer yet
  Error      \* the JSON body of a 401, which is no list

VARIABLES
  fleet,        \* the vehicles the API lists
  allVehicles,  \* the status of each vehicle, or an error body
  list,         \* the status of each vehicle in the sidebar
  markers,      \* colour, position and last start of a drag of each marker
  complete,     \* the last poll to end was shown as a whole
  request       \* the requests in flight

page == <<allVehicles, list, markers, complete>>
vars == <<fleet, page, request>>

Fleets == [Vehicles -> [status : Statuses, at : Places] \cup {None}]
StatusLists == [Vehicles -> Statuses \cup {None}]
StatusOf(vehicles) ==
  [v \in Vehicles |-> IF vehicles[v] = None THEN None ELSE vehicles[v].status]

\* The three answers to a poll: the vehicles, or Error when that list is an error
\* body, and whether the lists of stations and incidents are lists.
Answers == [vehicles : Fleets, places : BOOLEAN]
Poll == [kind |-> "poll", answer |-> Pending]
Requests == [kind : {"poll"}, answer : Answers \cup {Pending, Error}]
            \cup [kind : {"status"}, vehicle : Vehicles, value : Statuses, answer : {Pending, "ok"}]
            \cup [kind : {"drag"}, vehicle : Vehicles, value : Places, answer : {Pending, "ok"}]

Markers == [icon : Statuses, at : Places, oldLatLng : Places \cup {None}]

\* None is the absence of each of these, and an error body is no list and no answer.
ASSUME ValuesAssumption ==
  /\ None \notin Statuses \cup Places \cup Markers \cup Requests
  /\ None \notin [status : Statuses, at : Places]
  /\ Error \notin StatusLists
  /\ {Pending, Error} \cap Answers = {} /\ Pending # "ok"

TypeOK ==
  /\ fleet \in Fleets
  /\ allVehicles \in StatusLists \cup {Error}
  /\ list \in StatusLists
  /\ markers \in [Vehicles -> Markers \cup {None}]
  /\ complete \in BOOLEAN
  /\ request \in [Slots -> Requests \cup {None}]

Nothing == [v \in Vehicles |-> None]

\* The page is loaded and sends its first poll.
Init ==
  /\ fleet \in Fleets
  /\ allVehicles = Nothing
  /\ list = Nothing
  /\ markers = Nothing
  /\ complete = FALSE
  /\ \E q \in Slots : request = [s \in Slots |-> IF s = q THEN Poll ELSE None]

Is(q, kind) == request[q] # None /\ request[q].kind = kind
Asked(q, kind) == Is(q, kind) /\ request[q].answer = Pending
Send(q, r) == request' = [request EXCEPT ![q] = r]

--------------------------------------------------------------------------------
(* The server.                                                             *)

\* Other users, and this one on other pages, change vehicles and locations; so
\* does an assignment made here, whose answer the page does not use.
OthersChange ==
  /\ fleet' \in Fleets \ {fleet}
  /\ UNCHANGED <<page, request>>

AnswerPoll(q) ==
  /\ Asked(q, "poll")
  /\ Send(q, [Poll EXCEPT !.answer = [vehicles |-> fleet, places |-> TRUE]])
  /\ UNCHANGED <<fleet, page>>

\* The session has ended, before the vehicles were asked for or since.
AnswerError(q) ==
  /\ Asked(q, "poll")
  /\ \E a \in {Error, [vehicles |-> fleet, places |-> FALSE]} :
       Send(q, [Poll EXCEPT !.answer = a])
  /\ UNCHANGED <<fleet, page>>

\* The change is made.  A vehicle that is at a location stays to be shown there,
\* whatever its own position.
Execute(q) ==
  /\ Asked(q, "status") \/ Asked(q, "drag")
  /\ LET v == request[q].vehicle
     IN /\ fleet[v] # None
        /\ \/ Is(q, "status") /\ fleet' = [fleet EXCEPT ![v].status = request[q].value]
           \/ Is(q, "drag") /\ \E at \in {request[q].value, fleet[v].at} :
                                 fleet' = [fleet EXCEPT ![v].at = at]
  /\ Send(q, [request[q] EXCEPT !.answer = "ok"])
  /\ UNCHANGED page

--------------------------------------------------------------------------------
(* Polls.                                                                  *)

\* fetchData, every ten seconds.
FetchData(q) ==
  /\ request[q] = None
  /\ Send(q, Poll)
  /\ UNCHANGED <<fleet, page>>

\* (variant) A marker that is there keeps its place.
DrawInPlace(shown) ==
  [v \in Vehicles |->
    IF shown[v] = None THEN None
    ELSE IF markers[v] = None
    THEN [icon |-> shown[v].status, at |-> shown[v].at, oldLatLng |-> None]
    ELSE [markers[v] EXCEPT !.icon = shown[v].status]]

\* A marker for each vehicle of the answer and for no other.  (One that was removed
\* and is drawn again counts as the same for a drag still in flight.)
Draw(shown) ==
  [v \in Vehicles |->
    IF shown[v] = None THEN None
    ELSE [icon |-> shown[v].status, at |-> shown[v].at,
          oldLatLng |-> IF markers[v] = None THEN None ELSE markers[v].oldLatLng]]

\* updateMap: allVehicles, the markers of vehicles, those of stations and incidents,
\* the sidebar.  An error body for one of these two ends it before the sidebar.
UpdateMap(q) ==
  /\ Is(q, "poll") /\ request[q].answer \in Answers
  /\ LET a == request[q].answer
     IN /\ allVehicles' = StatusOf(a.vehicles)
        /\ markers' = Draw(a.vehicles)
        /\ list' = IF a.places THEN StatusOf(a.vehicles) ELSE list
        /\ complete' = a.places
  /\ Send(q, None)
  /\ UNCHANGED fleet

\* An error body for the vehicles ends it as soon as it is in allVehicles.
UpdateMapThrows(q) ==
  /\ Is(q, "poll") /\ request[q].answer = Error
  /\ allVehicles' = Error
  /\ complete' = FALSE
  /\ Send(q, None)
  /\ UNCHANGED <<fleet, list, markers>>

\* One of the three fetches fails, or its answer is no JSON.
PollFails(q) ==
  /\ Is(q, "poll")
  /\ complete' = FALSE
  /\ Send(q, None)
  /\ UNCHANGED <<fleet, allVehicles, list, markers>>

--------------------------------------------------------------------------------
(* The user.                                                               *)

Know(v, s) ==
  allVehicles' = IF allVehicles # Error /\ allVehicles[v] # None
                 THEN [allVehicles EXCEPT ![v] = s] ELSE allVehicles

\* changeStatus, from the popup of the marker.  When allVehicles is an error body
\* its find throws, after the colour is set and before the request is sent.
ChangeStatus(v, s) ==
  /\ markers[v] # None
  /\ markers' = [markers EXCEPT ![v].icon = s]
  /\ Know(v, s)
  /\ \/ /\ allVehicles # Error
        /\ \E q \in Slots :
             /\ request[q] = None
             /\ Send(q, [kind |-> "status", vehicle |-> v, value |-> s, answer |-> Pending])
     \/ allVehicles = Error /\ UNCHANGED request
  /\ UNCHANGED <<fleet, list, complete>>

\* updateStatus has answered: allVehicles takes its vehicle, and a poll follows.
StatusAnswered(q) ==
  /\ Is(q, "status") /\ request[q].answer = "ok"
  /\ Know(request[q].vehicle, request[q].value)
  /\ Send(q, Poll)
  /\ UNCHANGED <<fleet, list, markers, complete>>

\* (variant) Only a change that was made is followed by a poll.
StatusRefusedNoPoll(q) ==
  /\ Asked(q, "status")
  /\ Send(q, None)
  /\ UNCHANGED <<fleet, page>>

\* It has refused: the marker takes the status allVehicles has, which changeStatus
\* has overwritten.
StatusRefused(q) ==
  /\ Asked(q, "status")
  /\ LET v == request[q].vehicle
     IN markers' = IF markers[v] # None /\ allVehicles # Error
                   THEN [markers EXCEPT ![v].icon = allVehicles[v]] ELSE markers
  /\ Send(q, Poll)
  /\ UNCHANGED <<fleet, allVehicles, list, complete>>

\* The request, or its answer, is lost.
StatusLost(q) ==
  /\ Is(q, "status")
  /\ Send(q, Poll)
  /\ UNCHANGED <<fleet, page>>

\* dragstart and dragend of an admin, and updateVehiclePosition.
Drag(v, at) ==
  /\ markers[v] # None
  /\ markers' = [markers EXCEPT ![v].at = at, ![v].oldLatLng = markers[v].at]
  /\ \E q \in Slots :
       /\ request[q] = None
       /\ Send(q, [kind |-> "drag", vehicle |-> v, value |-> at, answer |-> Pending])
  /\ UNCHANGED <<fleet, allVehicles, list, complete>>

\* (variant) The start of the drag is taken to be there.
PutMarkerUnchecked(v, at) ==
  markers' = IF markers[v] = None THEN markers ELSE [markers EXCEPT ![v].at = at]

PutMarker(v, at) ==
  markers' = IF markers[v] = None \/ at = None THEN markers
             ELSE [markers EXCEPT ![v].at = at]

\* The marker goes where it was dropped ...
DragAnswered(q) ==
  /\ Is(q, "drag") /\ request[q].answer = "ok"
  /\ PutMarker(request[q].vehicle, request[q].value)
  /\ Send(q, None)
  /\ UNCHANGED <<fleet, allVehicles, list, complete>>

\* ... or back to where the last drag began.
DragFails(q) ==
  /\ Is(q, "drag")
  /\ PutMarker(request[q].vehicle, markers[request[q].vehicle].oldLatLng)
  /\ Send(q, None)
  /\ UNCHANGED <<fleet, allVehicles, list, complete>>

--------------------------------------------------------------------------------
UserActs ==
  \E v \in Vehicles : (\E s \in Statuses : ChangeStatus(v, s)) \/ (\E p \in Places : Drag(v, p))

Fails(q) ==
  PollFails(q) \/ AnswerError(q) \/ StatusRefused(q) \/ StatusLost(q) \/ DragFails(q)

\* A change of a vehicle that is gone can only fail.
FailsForGood(q) ==
  /\ Asked(q, "status") \/ Asked(q, "drag")
  /\ fleet[request[q].vehicle] = None
  /\ StatusRefused(q) \/ DragFails(q)

\* What the server and the browser do with a request in time.
Progress(q) ==
  \/ AnswerPoll(q) \/ UpdateMap(q) \/ UpdateMapThrows(q)
  \/ Execute(q) \/ StatusAnswered(q) \/ DragAnswered(q) \/ FailsForGood(q)

Next ==
  \/ UserActs \/ OthersChange
  \/ \E q \in Slots : Progress(q) \/ Fails(q) \/ FetchData(q)

Spec == Init /\ [][Next]_vars

\* Requests are answered, and the timer of setInterval goes on.
FairSpec == Spec /\ \A q \in Slots : WF_vars(Progress(q)) /\ WF_vars(FetchData(q))

--------------------------------------------------------------------------------
(* Properties.                                                             *)

Polling == \E q \in Slots : Is(q, "poll")
Changing(v) == \E q \in Slots : Is(q, "status") /\ request[q].vehicle = v

\* The page does not contradict itself.  The vehicles that have a marker are those
\* of allVehicles; and once a poll has been shown, the marker and the sidebar show
\* the same vehicles with the same status, unless a change of that vehicle or the
\* poll that must follow it is still in flight.
PageAgrees ==
  /\ allVehicles # Error => \A v \in Vehicles : allVehicles[v] = None <=> markers[v] = None
  /\ complete =>
       \A v \in Vehicles :
         /\ markers[v] = None <=> list[v] = None
         /\ markers[v] # None => markers[v].icon = list[v] \/ Changing(v) \/ Polling

InSync ==
  \A v \in Vehicles :
    IF fleet[v] = None THEN markers[v] = None /\ list[v] = None
    ELSE /\ markers[v] # None /\ list[v] = fleet[v].status
         /\ markers[v].icon = fleet[v].status /\ markers[v].at = fleet[v].at

\* However the answers were ordered, refused or lost: when nobody changes anything
\* any more and requests no longer fail, the page ends up showing what the server
\* has, and goes on showing it.
Converges ==
  []<><<UserActs \/ OthersChange \/ \E q \in Slots : Fails(q)>>_vars \/ <>[]InSync

\* The changes the server has not decided on; and the requests that can still put
\* something out of date on the page, which are changes and polls that were answered
\* before the last of them.
Undecided == {q \in Slots : Asked(q, "status") \/ Asked(q, "drag")}
UpToDate(a) == a \in {Pending, Error} \/ a.vehicles = fleet
Stale == {q \in Slots : request[q] # None /\ ~ (Is(q, "poll") /\ UpToDate(request[q].answer))}

\* No step adds to either, but that deciding a change makes earlier answers out of
\* date; and once nothing is out of date, the first poll that is shown as a whole
\* makes the page right, and no step makes it wrong again.
Nearer ==
  /\ Undecided' \subseteq Undecided
  /\ Undecided' = Undecided => Stale' \subseteq Stale
  /\ Stale = {} /\ InSync => InSync'
  /\ Stale = {} /\ complete' /\ (\E q \in Slots : UpdateMap(q)) => InSync'

\* Why it converges: while nobody changes anything every step brings the page nearer
\* to the server or leaves it, whatever is refused, lost or answered by an error.
NearsSync == [][~ UserActs /\ ~ OthersChange => Nearer]_vars

--------------------------------------------------------------------------------
(* What a comment of the code says, and the code does not do.              *)

\* map.js:237, of a status the server has refused: "Revert on error".
RevertedOnError ==
  [][\A q \in Slots, v \in Vehicles :
       StatusRefused(q) /\ request[q].vehicle = v /\ markers[v] # None
       /\ list[v] # request[q].value =>
         markers'[v].icon # request[q].value]_vars
================================================================================
