------------------------------ MODULE MapViewProofs ------------------------------
(***************************************************************************)
(* Proofs about MapView, for any vehicles, statuses and places and any      *)
(* number of requests of the page at the same time.                        *)
(*                                                                         *)
(* PageAgrees is inductive but for one case: changeStatus recolours a marker*)
(* without sending anything when allVehicles is an error body.  It is then  *)
(* the last poll that was not shown as a whole: KnownWhenComplete.          *)
(*                                                                         *)
(* The last part is what convergence rests on: which steps of a page that   *)
(* nobody disturbs bring it nearer to the server.                          *)
(***************************************************************************)
EXTENDS MapView, TLAPS

KnownWhenComplete == complete => allVehicles # Error

IInv == TypeOK /\ PageAgrees /\ KnownWhenComplete

--------------------------------------------------------------------------------
(* Requests.                                                               *)

LEMMA RequestTypes ==
  ASSUME TypeOK, NEW q \in Slots, request[q] # None
  PROVE  /\ request[q] \in Requests
         /\ Is(q, "poll") => request[q].answer \in Answers \cup {Pending, Error}
         /\ Is(q, "status") => request[q].vehicle \in Vehicles /\ request[q].value \in Statuses
         /\ Is(q, "drag") => request[q].vehicle \in Vehicles /\ request[q].value \in Places
BY DEF TypeOK, Requests, Is

LEMMA SendTypes ==
  ASSUME TypeOK, NEW q \in Slots, NEW r \in Requests \cup {None}, Send(q, r)
  PROVE  /\ request' \in [Slots -> Requests \cup {None}]
         /\ request'[q] = r
         /\ \A p \in Slots \ {q} : request'[p] = request[p]
BY DEF TypeOK, Send

LEMMA PollTypes ==
  /\ Poll \in Requests /\ Poll.kind = "poll" /\ Poll # None
  /\ \A a \in Answers \cup {Pending, Error} :
       [Poll EXCEPT !.answer = a] \in Requests /\ [Poll EXCEPT !.answer = a].kind = "poll"
BY ValuesAssumption DEF Poll, Requests

\* Sending a poll, in whatever slot.
LEMMA PollSent ==
  ASSUME TypeOK, NEW q \in Slots, Send(q, Poll)
  PROVE  request' \in [Slots -> Requests \cup {None}] /\ Polling'
<1>1. request' \in [Slots -> Requests \cup {None}] /\ request'[q] = Poll
  BY PollTypes, SendTypes
<1> QED
  BY <1>1, PollTypes DEF Polling, Is

\* What a slot other than q holds is still there.
LEMMA OthersStay ==
  ASSUME NEW q \in Slots, \A p \in Slots \ {q} : request'[p] = request[p]
  PROVE  /\ ~ Is(q, "poll") /\ Polling => Polling'
         /\ ~ Is(q, "status") => \A v \in Vehicles : Changing(v) => Changing(v)'
BY DEF Polling, Changing, Is

--------------------------------------------------------------------------------
(* The server, and polls.                                                  *)

\* A step that changes neither the page nor the kind of a request.
LEMMA PageKept ==
  ASSUME IInv, UNCHANGED page, Polling => Polling',
         \A v \in Vehicles : Changing(v) => Changing(v)' \/ Polling'
  PROVE  PageAgrees' /\ KnownWhenComplete'
BY DEF IInv, PageAgrees, KnownWhenComplete, page

LEMMA AnswerKeeps ==
  ASSUME IInv, NEW q \in Slots, AnswerPoll(q) \/ AnswerError(q)
  PROVE  IInv'
<1> USE DEF IInv
<1>1. PICK a \in Answers \cup {Error} : Send(q, [Poll EXCEPT !.answer = a])
  <2>1. \A b \in BOOLEAN : [vehicles |-> fleet, places |-> b] \in Answers
    BY DEF TypeOK, Answers
  <2> QED
    BY <2>1 DEF AnswerPoll, AnswerError
<1>2. /\ request'[q] # None /\ request'[q].kind = "poll"
      /\ \A p \in Slots \ {q} : request'[p] = request[p]
      /\ request' \in [Slots -> Requests \cup {None}]
  <2> DEFINE r == [Poll EXCEPT !.answer = a]
  <2>1. r \in Requests /\ r.kind = "poll"
    BY PollTypes
  <2> HIDE DEF r
  <2>2. Send(q, r)
    BY <1>1 DEF r
  <2> QED
    BY <2>1, <2>2, SendTypes, ValuesAssumption
<1>3. UNCHANGED <<fleet, page>> /\ Is(q, "poll")
  BY DEF AnswerPoll, AnswerError, Asked
<1>4. TypeOK'
  BY <1>2, <1>3 DEF TypeOK, page
<1>5. Polling' /\ \A v \in Vehicles : Changing(v) => Changing(v)'
  BY <1>2, <1>3, OthersStay DEF Polling, Is
<1> QED
  BY <1>3, <1>4, <1>5, PageKept

LEMMA ExecuteKeeps ==
  ASSUME IInv, NEW q \in Slots, Execute(q)
  PROVE  IInv'
<1> USE DEF IInv
<1> DEFINE r == [request[q] EXCEPT !.answer = "ok"]
<1>1. /\ request[q] \in Requests /\ request[q] # None
      /\ request[q].kind \in {"status", "drag"}
      /\ request[q].vehicle \in Vehicles /\ fleet[request[q].vehicle] # None
  BY RequestTypes DEF Execute, Asked, Is
<1>2. r \in Requests /\ r.kind = request[q].kind /\ r.vehicle = request[q].vehicle
  BY <1>1 DEF Requests
<1>3. /\ request'[q] = r /\ r # None
      /\ \A p \in Slots \ {q} : request'[p] = request[p]
      /\ request' \in [Slots -> Requests \cup {None}]
  BY <1>2, SendTypes, ValuesAssumption DEF Execute
<1>4. fleet' \in Fleets
  <2>1. fleet[request[q].vehicle] \in [status : Statuses, at : Places]
    BY <1>1 DEF TypeOK, Fleets
  <2>2. CASE Is(q, "status") /\ request[q].value \in Statuses
    BY <1>1, <2>1, <2>2 DEF Execute, TypeOK, Fleets, Is
  <2>3. CASE Is(q, "drag") /\ request[q].value \in Places
    BY <1>1, <2>1, <2>3 DEF Execute, TypeOK, Fleets, Is
  <2> QED
    BY <1>1, <2>2, <2>3, RequestTypes DEF Is
<1>5. UNCHANGED page
  BY DEF Execute
<1>6. TypeOK'
  BY <1>3, <1>4, <1>5 DEF TypeOK, page
<1>7. /\ Polling => Polling'
      /\ \A v \in Vehicles : Changing(v) => Changing(v)'
  <2> HIDE DEF r
  <2>1. \A p \in Slots : \A kind \in {"poll", "status"} : Is(p, kind) =>
          Is(p, kind)' /\ (kind = "status" => request'[p].vehicle = request[p].vehicle)
    BY <1>1, <1>2, <1>3 DEF Is
  <2> QED
    BY <2>1 DEF Polling, Changing
<1> QED
  BY <1>5, <1>6, <1>7, PageKept

LEMMA FetchKeeps ==
  ASSUME IInv, NEW q \in Slots, FetchData(q)
  PROVE  IInv'
<1> USE DEF IInv
<1>1. Polling' /\ request' \in [Slots -> Requests \cup {None}]
  BY PollSent DEF FetchData
<1>2. UNCHANGED <<fleet, page>> /\ request[q] = None
  BY DEF FetchData
<1>3. TypeOK'
  BY <1>1, <1>2 DEF TypeOK, page
<1> QED
  BY <1>1, <1>2, <1>3, PageKept

\* A poll ends: it is shown, in part or as a whole, or it is not.
LEMMA PollEndKeeps ==
  ASSUME IInv, NEW q \in Slots, UpdateMap(q) \/ UpdateMapThrows(q) \/ PollFails(q)
  PROVE  IInv'
<1> USE DEF IInv
<1>1. request' \in [Slots -> Requests \cup {None}] /\ UNCHANGED fleet
  BY SendTypes DEF UpdateMap, UpdateMapThrows, PollFails
<1>2. CASE UpdateMap(q)
  <2> DEFINE a == request[q].answer
  <2>1. a \in Answers
    BY <1>2 DEF UpdateMap
  <2>2. StatusOf(a.vehicles) \in StatusLists
        /\ \A v \in Vehicles : StatusOf(a.vehicles)[v] = None <=> a.vehicles[v] = None
    BY <2>1, ValuesAssumption DEF Answers, Fleets, StatusOf, StatusLists
  <2>3. /\ Draw(a.vehicles) \in [Vehicles -> Markers \cup {None}]
        /\ \A v \in Vehicles :
             /\ Draw(a.vehicles)[v] = None <=> a.vehicles[v] = None
             /\ a.vehicles[v] # None => Draw(a.vehicles)[v].icon = StatusOf(a.vehicles)[v]
    <3> SUFFICES ASSUME NEW v \in Vehicles
        PROVE  LET d == Draw(a.vehicles)[v]
               IN /\ d \in Markers \cup {None}
                  /\ d = None <=> a.vehicles[v] = None
                  /\ a.vehicles[v] # None => d.icon = StatusOf(a.vehicles)[v]
      BY DEF Draw
    <3>1. a.vehicles[v] \in [status : Statuses, at : Places] \cup {None}
          /\ (markers[v] # None => markers[v].oldLatLng \in Places \cup {None})
      BY <2>1 DEF Answers, Fleets, TypeOK, Markers
    <3> QED
      BY <3>1, ValuesAssumption DEF Draw, StatusOf, Markers
  <2>4. /\ allVehicles' = StatusOf(a.vehicles)
        /\ markers' = Draw(a.vehicles)
        /\ list' = IF a.places THEN StatusOf(a.vehicles) ELSE list
        /\ complete' = a.places /\ a.places \in BOOLEAN
    BY <1>2, <2>1 DEF UpdateMap, Answers
  <2> HIDE DEF a
  <2>5. TypeOK'
    BY <1>1, <2>2, <2>3, <2>4 DEF TypeOK
  <2>6. PageAgrees' /\ KnownWhenComplete'
    BY <2>2, <2>3, <2>4, ValuesAssumption DEF PageAgrees, KnownWhenComplete
  <2> QED
    BY <2>5, <2>6
<1>3. CASE UpdateMapThrows(q)
  BY <1>1, <1>3 DEF UpdateMapThrows, TypeOK, PageAgrees, KnownWhenComplete
<1>4. CASE PollFails(q)
  BY <1>1, <1>4 DEF PollFails, TypeOK, PageAgrees, KnownWhenComplete
<1> QED
  BY <1>2, <1>3, <1>4

--------------------------------------------------------------------------------
(* The user.                                                               *)

\* Know keeps the type of allVehicles and which vehicles are in it.
LEMMA KnowTypes ==
  ASSUME TypeOK, NEW v \in Vehicles, NEW s \in Statuses, Know(v, s)
  PROVE  /\ allVehicles' \in StatusLists \cup {Error}
         /\ allVehicles' = Error <=> allVehicles = Error
         /\ allVehicles # Error =>
              \A w \in Vehicles : allVehicles'[w] = None <=> allVehicles[w] = None
BY ValuesAssumption DEF Know, TypeOK, StatusLists

LEMMA ChangeStatusKeeps ==
  ASSUME IInv, NEW v \in Vehicles, NEW s \in Statuses, ChangeStatus(v, s)
  PROVE  IInv'
<1> USE DEF IInv
<1>1. markers[v] \in Markers
  BY DEF ChangeStatus, TypeOK
<1>2. /\ markers' \in [Vehicles -> Markers \cup {None}]
      /\ \A w \in Vehicles : (markers'[w] = None <=> markers[w] = None)
                             /\ (w # v => markers'[w] = markers[w])
  BY <1>1, ValuesAssumption DEF ChangeStatus, TypeOK, Markers
<1>3. /\ request' \in [Slots -> Requests \cup {None}]
      /\ Polling => Polling'
      /\ \A w \in Vehicles : Changing(w) => Changing(w)'
      /\ allVehicles # Error => Changing(v)'
  <2>1. CASE allVehicles = Error /\ UNCHANGED request
    BY <2>1 DEF Polling, Changing, Is, TypeOK
  <2>2. ASSUME NEW q \in Slots, request[q] = None,
               Send(q, [kind |-> "status", vehicle |-> v, value |-> s, answer |-> Pending])
        PROVE  <1>3!1 /\ <1>3!2 /\ <1>3!3 /\ Changing(v)'
    <3> DEFINE r == [kind |-> "status", vehicle |-> v, value |-> s, answer |-> Pending]
    <3>1. r \in Requests /\ r # None /\ r.kind = "status" /\ r.vehicle = v
      BY ValuesAssumption DEF Requests
    <3>2. /\ request'[q] = r
          /\ \A p \in Slots \ {q} : request'[p] = request[p]
          /\ request' \in [Slots -> Requests \cup {None}]
      BY <2>2, <3>1, SendTypes
    <3> HIDE DEF r
    <3>3. Changing(v)'
      BY <3>1, <3>2 DEF Changing, Is
    <3> QED
      BY <2>2, <3>2, <3>3, OthersStay DEF Is
  <2> QED
    BY <2>1, <2>2 DEF ChangeStatus
<1>4. UNCHANGED <<fleet, list, complete>> /\ Know(v, s)
  BY DEF ChangeStatus
<1>5. TypeOK'
  BY <1>2, <1>3, <1>4, KnowTypes DEF TypeOK
<1>6. PageAgrees'
  BY <1>2, <1>3, <1>4, KnowTypes DEF PageAgrees, KnownWhenComplete
<1>7. KnownWhenComplete'
  BY <1>4, KnowTypes DEF KnownWhenComplete
<1> QED
  BY <1>5, <1>6, <1>7

\* Whatever becomes of a change of status, a poll takes its place.
LEMMA StatusEndKeeps ==
  ASSUME IInv, NEW q \in Slots, StatusAnswered(q) \/ StatusRefused(q) \/ StatusLost(q)
  PROVE  IInv'
<1> USE DEF IInv
<1> DEFINE v == request[q].vehicle
<1>1. v \in Vehicles /\ request[q].value \in Statuses
  BY RequestTypes DEF StatusAnswered, StatusRefused, StatusLost, Asked, Is
<1>2. Polling' /\ request' \in [Slots -> Requests \cup {None}]
  BY PollSent DEF StatusAnswered, StatusRefused, StatusLost
<1>3. UNCHANGED <<fleet, list, complete>>
  BY DEF StatusAnswered, StatusRefused, StatusLost, page
<1>4. /\ allVehicles' \in StatusLists \cup {Error}
      /\ allVehicles' = Error <=> allVehicles = Error
      /\ allVehicles # Error =>
           \A w \in Vehicles : allVehicles'[w] = None <=> allVehicles[w] = None
  BY <1>1, KnowTypes DEF StatusAnswered, StatusRefused, StatusLost, page, TypeOK
<1>5. /\ markers' \in [Vehicles -> Markers \cup {None}]
      /\ \A w \in Vehicles : markers'[w] = None <=> markers[w] = None
  <2>1. CASE StatusRefused(q) /\ markers[v] # None /\ allVehicles # Error
    <3>1. allVehicles[v] \in Statuses
      BY <1>1, <2>1 DEF PageAgrees, TypeOK, StatusLists
    <3>2. markers[v] \in Markers /\ [markers[v] EXCEPT !.icon = allVehicles[v]] \in Markers
      BY <1>1, <2>1, <3>1 DEF TypeOK, Markers
    <3>3. markers' = [markers EXCEPT ![v].icon = allVehicles[v]]
      BY <2>1 DEF StatusRefused
    <3> QED
      BY <1>1, <2>1, <3>2, <3>3, ValuesAssumption DEF TypeOK
  <2>2. CASE UNCHANGED markers
    BY <2>2 DEF TypeOK
  <2> QED
    BY <2>1, <2>2 DEF StatusAnswered, StatusRefused, StatusLost, page
<1>6. TypeOK'
  BY <1>2, <1>3, <1>4, <1>5 DEF TypeOK
<1>7. PageAgrees' /\ KnownWhenComplete'
  BY <1>2, <1>3, <1>4, <1>5 DEF PageAgrees, KnownWhenComplete
<1> QED
  BY <1>6, <1>7

\* A drag moves one marker, here and back.
LEMMA DragKeeps ==
  ASSUME IInv,
         \/ \E v \in Vehicles, p \in Places : Drag(v, p)
         \/ \E q \in Slots : DragAnswered(q) \/ DragFails(q)
  PROVE  IInv'
<1> USE DEF IInv
<1>1. PICK q \in Slots, r \in Requests \cup {None} :
        /\ Send(q, r)
        /\ request[q] = None \/ Is(q, "drag")
  <2>1. \A v \in Vehicles, p \in Places :
          [kind |-> "drag", vehicle |-> v, value |-> p, answer |-> Pending] \in Requests
    BY DEF Requests
  <2> QED
    BY <2>1 DEF Drag, DragAnswered, DragFails
<1>2. /\ request' \in [Slots -> Requests \cup {None}]
      /\ Polling => Polling'
      /\ \A v \in Vehicles : Changing(v) => Changing(v)'
  BY <1>1, SendTypes, OthersStay DEF Is
<1>3. UNCHANGED <<fleet, allVehicles, list, complete>>
  BY DEF Drag, DragAnswered, DragFails
<1>4. /\ markers' \in [Vehicles -> Markers \cup {None}]
      /\ \A w \in Vehicles : /\ markers'[w] = None <=> markers[w] = None
                             /\ markers[w] # None => markers'[w].icon = markers[w].icon
  <2>1. ASSUME NEW v \in Vehicles, NEW p \in Places, Drag(v, p)
        PROVE  <1>4
    <3>1. markers[v] \in Markers
      BY <2>1 DEF Drag, TypeOK
    <3> DEFINE m == [markers[v] EXCEPT !.at = p, !.oldLatLng = markers[v].at]
    <3>2. m \in Markers /\ m.icon = markers[v].icon
      BY <3>1 DEF Markers
    <3>3. markers' = [markers EXCEPT ![v] = m]
      BY <2>1 DEF Drag, TypeOK
    <3> HIDE DEF m
    <3> QED
      BY <3>1, <3>2, <3>3, ValuesAssumption DEF TypeOK
  <2>2. ASSUME NEW v \in Vehicles, NEW p \in Places \cup {None}, PutMarker(v, p)
        PROVE  <1>4
    <3>1. CASE UNCHANGED markers
      BY <3>1 DEF TypeOK
    <3>2. CASE markers[v] # None /\ p # None
      <4> DEFINE m == [markers[v] EXCEPT !.at = p]
      <4>1. m \in Markers /\ m.icon = markers[v].icon
        BY <3>2 DEF Markers, TypeOK
      <4>2. markers' = [markers EXCEPT ![v] = m]
        BY <2>2, <3>2 DEF PutMarker
      <4> HIDE DEF m
      <4> QED
        BY <3>2, <4>1, <4>2, ValuesAssumption DEF TypeOK
    <3> QED
      BY <2>2, <3>1, <3>2 DEF PutMarker
  <2>3. ASSUME NEW s \in Slots, DragAnswered(s)
        PROVE  <1>4
    BY <2>2, <2>3, RequestTypes DEF DragAnswered, Is
  <2>4. ASSUME NEW s \in Slots, DragFails(s)
        PROVE  <1>4
    <3> DEFINE v == request[s].vehicle
    <3>1. v \in Vehicles /\ PutMarker(v, markers[v].oldLatLng)
      BY <2>4, RequestTypes DEF DragFails, Is
    <3>2. CASE markers[v] = None
      BY <3>1, <3>2 DEF PutMarker, TypeOK
    <3>3. CASE markers[v] # None
      BY <2>2, <3>1, <3>3 DEF TypeOK, Markers
    <3> QED
      BY <3>2, <3>3
  <2> QED
    BY <2>1, <2>3, <2>4
<1>5. TypeOK'
  BY <1>2, <1>3, <1>4 DEF TypeOK
<1>6. PageAgrees' /\ KnownWhenComplete'
  BY <1>2, <1>3, <1>4 DEF PageAgrees, KnownWhenComplete
<1> QED
  BY <1>5, <1>6

--------------------------------------------------------------------------------
(* Every step.                                                             *)

LEMMA InitIInv == Init => IInv
<1> SUFFICES ASSUME Init PROVE IInv
  OBVIOUS
<1>1. Nothing \in StatusLists /\ Nothing \in [Vehicles -> Markers \cup {None}]
      /\ \A v \in Vehicles : Nothing[v] = None
  BY DEF Nothing, StatusLists
<1>2. TypeOK
  BY <1>1, PollTypes DEF Init, TypeOK
<1> QED
  BY <1>1, <1>2 DEF Init, IInv, PageAgrees, KnownWhenComplete

LEMMA NextIInv == IInv /\ [Next]_vars => IInv'
<1> SUFFICES ASSUME IInv, [Next]_vars PROVE IInv'
  OBVIOUS
<1>1. CASE UserActs
  BY <1>1, ChangeStatusKeeps, DragKeeps DEF UserActs
<1>2. CASE OthersChange
  <2>1. UNCHANGED <<page, request>> /\ fleet' \in Fleets
    BY <1>2 DEF OthersChange
  <2>2. TypeOK' /\ (Polling => Polling') /\ \A v \in Vehicles : Changing(v) => Changing(v)'
    BY <2>1 DEF IInv, TypeOK, page, Polling, Changing, Is
  <2> QED
    BY <2>1, <2>2, PageKept DEF IInv
<1>3. ASSUME NEW q \in Slots, Progress(q) \/ Fails(q) \/ FetchData(q) PROVE IInv'
  BY <1>3, AnswerKeeps, ExecuteKeeps, FetchKeeps, PollEndKeeps, StatusEndKeeps, DragKeeps
     DEF Progress, Fails, FailsForGood
<1>4. CASE UNCHANGED vars
  BY <1>4 DEF IInv, TypeOK, PageAgrees, KnownWhenComplete, vars, page, Polling, Changing, Is
<1> QED
  BY <1>1, <1>2, <1>3, <1>4 DEF Next

\* Whatever arrives in whatever order, the strengthened invariant holds.
THEOREM Invariance == Spec => []IInv
BY InitIInv, NextIInv, PTL DEF Spec

\* Every reachable state of the page has its type: no marker gets the colour of no
\* status, or the place None, from an answer that came late.
THEOREM TypeCorrect == Spec => []TypeOK
<1>1. IInv => TypeOK
  BY DEF IInv
<1> QED
  BY <1>1, Invariance, PTL

\* Markers, sidebar and allVehicles name the same vehicles, with the same status
\* unless a change or the poll after it is in flight.
THEOREM PageStaysConsistent == Spec => []PageAgrees
<1>1. IInv => PageAgrees
  BY DEF IInv
<1> QED
  BY <1>1, Invariance, PTL
--------------------------------------------------------------------------------
(* Nobody changes anything: the page comes nearer to the server.            *)

\* A step of the page or the server about one request, which leaves the server as it
\* is, is nearer when that request does not become undecided or out of date by it.
LEMMA OneRequest ==
  ASSUME NEW q \in Slots, UNCHANGED fleet, \A p \in Slots \ {q} : request'[p] = request[p],
         q \in Undecided' => q \in Undecided, q \in Stale' => q \in Stale
  PROVE  Undecided' \subseteq Undecided /\ Stale' \subseteq Stale
BY DEF Undecided, Stale, Asked, Is, UpToDate

\* A new poll, one that is answered now, and one that has ended are not out of date.
LEMMA Settles ==
  ASSUME TypeOK, NEW q \in Slots, UNCHANGED fleet,
         \/ Send(q, None)
         \/ \E a \in Answers \cup {Pending, Error} :
              UpToDate(a) /\ Send(q, [Poll EXCEPT !.answer = a])
  PROVE  Undecided' \subseteq Undecided /\ Stale' \subseteq Stale
<1>1. CASE Send(q, None)
  <2>1. request'[q] = None /\ \A p \in Slots \ {q} : request'[p] = request[p]
    BY <1>1, SendTypes
  <2> QED
    BY <2>1, OneRequest DEF Undecided, Stale, Asked, Is
<1>2. ASSUME NEW a \in Answers \cup {Pending, Error}, UpToDate(a),
             Send(q, [Poll EXCEPT !.answer = a])
      PROVE  Undecided' \subseteq Undecided /\ Stale' \subseteq Stale
  <2> DEFINE r == [Poll EXCEPT !.answer = a]
  <2>1. r \in Requests /\ r.kind = "poll" /\ r.answer = a
    BY PollTypes DEF Poll
  <2> HIDE DEF r
  <2>2. request'[q] = r /\ \A p \in Slots \ {q} : request'[p] = request[p]
    BY <1>2, <2>1, SendTypes DEF r
  <2>3. UpToDate(a)'
    BY <1>2 DEF UpToDate
  <2> QED
    BY <2>1, <2>2, <2>3, OneRequest DEF Undecided, Stale, Asked, Is
<1> QED
  BY <1>1, <1>2

\* What a poll that is not out of date shows.
LEMMA ShowsServer ==
  ASSUME IInv, NEW q \in Slots, UpdateMap(q), Stale = {}, complete' \/ InSync
  PROVE  InSync'
<1> USE DEF IInv
<1> DEFINE a == request[q].answer
<1>1. a \in Answers /\ a.vehicles = fleet
  BY ValuesAssumption DEF UpdateMap, Is, Stale, UpToDate
<1>2. /\ UNCHANGED fleet /\ markers' = Draw(fleet)
      /\ list' = StatusOf(fleet) \/ (list' = list /\ InSync)
  BY <1>1 DEF UpdateMap
<1> SUFFICES ASSUME NEW v \in Vehicles
             PROVE  IF fleet[v] = None THEN markers'[v] = None /\ list'[v] = None
                    ELSE /\ markers'[v] # None /\ list'[v] = fleet[v].status
                         /\ markers'[v].icon = fleet[v].status /\ markers'[v].at = fleet[v].at
  BY <1>2 DEF InSync
<1>3. list'[v] = IF fleet[v] = None THEN None ELSE fleet[v].status
  BY <1>2 DEF StatusOf, InSync
<1>4. CASE fleet[v] = None
  BY <1>2, <1>3, <1>4 DEF Draw
<1>5. CASE fleet[v] # None
  <2>1. fleet[v].status \in Statuses /\ fleet[v].at \in Places
        /\ (markers[v] # None => markers[v].oldLatLng \in Places \cup {None})
    BY <1>5 DEF TypeOK, Fleets, Markers
  <2>2. markers'[v] = [icon |-> fleet[v].status, at |-> fleet[v].at,
                       oldLatLng |-> IF markers[v] = None THEN None ELSE markers[v].oldLatLng]
    BY <1>2, <1>5 DEF Draw
  <2>3. markers'[v] \in Markers
    BY <2>1, <2>2 DEF Markers
  <2> QED
    BY <1>3, <1>5, <2>2, <2>3, ValuesAssumption
<1> QED
  BY <1>4, <1>5

LEMMA NextNearer ==
  ASSUME IInv, [Next]_vars, ~ UserActs, ~ OthersChange
  PROVE  Nearer \/ UNCHANGED vars
<1> USE DEF IInv
<1>1. ASSUME NEW q \in Slots, UpdateMap(q), Stale = {}, complete' PROVE InSync'
  BY <1>1, ShowsServer
<1>2. ASSUME Undecided' \subseteq Undecided, Stale' \subseteq Stale,
             Stale = {} /\ InSync => InSync'
      PROVE  Nearer
  BY <1>1, <1>2 DEF Nearer
<1>3. ASSUME UNCHANGED <<fleet, list, markers>> PROVE InSync => InSync'
  BY <1>3 DEF InSync
<1>4. ASSUME NEW q \in Slots, AnswerPoll(q) \/ AnswerError(q) \/ FetchData(q) \/ PollFails(q)
                              \/ UpdateMapThrows(q)
      PROVE  Nearer
  <2>1. \A b \in BOOLEAN : /\ [vehicles |-> fleet, places |-> b] \in Answers
                           /\ UpToDate([vehicles |-> fleet, places |-> b])
    BY DEF TypeOK, Answers, UpToDate
  <2>2. /\ UNCHANGED <<fleet, list, markers>>
        /\ \/ Send(q, None)
           \/ \E a \in Answers \cup {Pending, Error} :
                UpToDate(a) /\ Send(q, [Poll EXCEPT !.answer = a])
    <3>1. CASE FetchData(q)
      <4>1. [Poll EXCEPT !.answer = Pending] = Poll /\ UpToDate(Pending)
        BY DEF Poll, UpToDate
      <4> QED
        BY <3>1, <4>1 DEF FetchData, page
    <3>2. CASE AnswerPoll(q)
      BY <2>1, <3>2 DEF AnswerPoll, page
    <3>3. CASE AnswerError(q)
      <4>1. UpToDate(Error)
        BY DEF UpToDate
      <4> QED
        BY <2>1, <3>3, <4>1 DEF AnswerError, page
    <3>4. CASE PollFails(q) \/ UpdateMapThrows(q)
      BY <3>4 DEF PollFails, UpdateMapThrows
    <3> QED
      BY <1>4, <3>1, <3>2, <3>3, <3>4
  <2> QED
    BY <1>2, <1>3, <2>2, Settles
<1>5. ASSUME NEW q \in Slots, UpdateMap(q) PROVE Nearer
  <2>1. UNCHANGED fleet /\ Send(q, None)
    BY <1>5 DEF UpdateMap
  <2> QED
    BY <1>2, <1>5, <2>1, Settles, ShowsServer
<1>6. ASSUME NEW q \in Slots, Execute(q) PROVE Nearer
  <2> DEFINE r == [request[q] EXCEPT !.answer = "ok"]
  <2>1. /\ q \in Undecided /\ q \in Stale /\ request[q] \in Requests
        /\ request[q].kind \in {"status", "drag"} /\ request[q].answer = Pending
    BY <1>6, RequestTypes DEF Execute, Asked, Is, Undecided, Stale
  <2>2. r \in Requests /\ r.answer = "ok"
    BY <2>1 DEF Requests
  <2> HIDE DEF r
  <2>3. request'[q] = r /\ \A p \in Slots \ {q} : request'[p] = request[p]
    BY <1>6, <2>2, SendTypes DEF Execute, r
  <2>4. \A p \in Undecided' : p # q => p \in Undecided
    BY <2>3 DEF Undecided, Asked, Is
  <2>5. q \notin Undecided'
    BY <2>2, <2>3, ValuesAssumption DEF Undecided, Asked, Is
  <2> QED
    BY <2>1, <2>4, <2>5 DEF Nearer
<1>7. ASSUME NEW q \in Slots, StatusAnswered(q) \/ StatusRefused(q) \/ StatusLost(q)
                              \/ DragAnswered(q) \/ DragFails(q)
      PROVE  Nearer
  <2>1. /\ q \in Stale /\ UNCHANGED fleet
        /\ Send(q, None) \/ Send(q, Poll)
    BY <1>7 DEF StatusAnswered, StatusRefused, StatusLost, DragAnswered, DragFails, Asked, Is, Stale
  <2>2. [Poll EXCEPT !.answer = Pending] = Poll /\ UpToDate(Pending)
    BY DEF Poll, UpToDate
  <2>3. Undecided' \subseteq Undecided /\ Stale' \subseteq Stale
    BY <2>1, <2>2, Settles
  <2> QED
    BY <1>2, <2>1, <2>3
<1> QED
  BY <1>4, <1>5, <1>6, <1>7 DEF Next, Progress, Fails, FailsForGood

\* While nobody changes anything each step brings the page nearer to the server, for any
\* number of requests and whatever fails: of what could keep it wrong nothing is added,
\* and a page that is right stays right.  That the steps are taken is Converges.
THEOREM QuietPageNearsSync == Spec => NearsSync
<1>1. IInv /\ [Next]_vars => [~ UserActs /\ ~ OthersChange => Nearer]_vars
  BY NextNearer
<1> QED
  BY <1>1, Invariance, PTL DEF Spec, NearsSync
================================================================================
