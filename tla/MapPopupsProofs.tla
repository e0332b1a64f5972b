---------------------------- MODULE MapPopupsProofs ----------------------------
(***************************************************************************)
(* Proofs about MapPopups, for any vehicles, stations and incidents and any *)
(* number of requests of the page at the same time.                        *)
(*                                                                         *)
(* WatchFollowsCheckin compares what the page believes with what the server *)
(* knows while no request about the check-in is in flight.  Undisturbed     *)
(* says what is true while one is: there is no other, and it accounts for   *)
(* the difference.                                                         *)
(*                                                                         *)
(* The last part is what catching up rests on: which steps bring the popups *)
(* nearer to the check-in while nothing disturbs.                          *)
(***************************************************************************)
EXTENDS MapPopups, TLAPS

Believes(v) == currentCheckinVehicleId = v /\ watches = {v} \ {None}

Undisturbed ==
  calm => \A q \in Slots : \A kind \in CrewKinds : Is(q, kind) =>
    /\ \A p \in Slots : \A other \in CrewKinds : Is(p, other) => p = q
    /\ kind = "me" => Believes(None) /\ request[q].answer \in {Pending, crew}
    /\ kind = "check_in" =>
         IF request[q].answer = Pending THEN Believes(crew) ELSE crew = request[q].vehicle
    /\ kind = "check_out" =>
         IF request[q].answer = Pending
         THEN Believes(crew) /\ crew = request[q].vehicle ELSE crew = None

IInv == TypeOK /\ WatchFollowsCheckin /\ Undisturbed

--------------------------------------------------------------------------------
(* Requests.                                                               *)

\* What the requests in flight are, by their kind.
LEMMA RequestTypes ==
  ASSUME TypeOK, NEW q \in Slots, request[q] # None
  PROVE  /\ request[q] \in Requests
         /\ request[q].kind \in CrewKinds \cup {"poll"}
         /\ Is(q, "poll") => request[q].answer \in Answers \cup {Pending, Error}
         /\ Is(q, "me") => request[q].answer \in Crew \cup {Pending}
         /\ Is(q, "check_in") \/ Is(q, "check_out") =>
              request[q].vehicle \in Vehicles /\ request[q].answer \in {Pending, "ok"}
BY DEF TypeOK, Requests, Is, CrewKinds

\* Sending a request of the right type, or forgetting one.
LEMMA SendTypes ==
  ASSUME TypeOK, NEW q \in Slots, NEW r \in Requests \cup {None}, Send(q, r)
  PROVE  /\ request' \in [Slots -> Requests \cup {None}]
         /\ request'[q] = r
         /\ \A p \in Slots \ {q} : request'[p] = request[p]
BY DEF TypeOK, Send

LEMMA PollTypes ==
  /\ Poll \in Requests /\ Poll.kind = "poll"
  /\ \A a \in Answers \cup {Pending, Error} : [Poll EXCEPT !.answer = a] \in Requests
                                              /\ [Poll EXCEPT !.answer = a].kind = "poll"
BY DEF Poll, Requests

\* A step that only changes a poll keeps what is known of the check-in.
LEMMA PollStep ==
  ASSUME IInv, NEW q \in Slots, request[q] = None \/ Is(q, "poll"),
         request'[q] = None \/ request'[q].kind = "poll",
         \A p \in Slots \ {q} : request'[p] = request[p],
         UNCHANGED <<crew, mine, calm>>
  PROVE  WatchFollowsCheckin' /\ Undisturbed'
<1>1. \A p \in Slots : \A kind \in CrewKinds : Is(p, kind)' <=> Is(p, kind)
  BY DEF Is, CrewKinds
<1>2. \A p \in Slots : \A kind \in CrewKinds : Is(p, kind) => request'[p] = request[p]
  BY DEF Is, CrewKinds
<1>3. WatchFollowsCheckin'
  BY <1>1 DEF IInv, WatchFollowsCheckin, Deciding, mine
<1>4. Undisturbed'
  BY <1>1, <1>2 DEF IInv, Undisturbed, Believes, mine
<1> QED
  BY <1>3, <1>4

--------------------------------------------------------------------------------
(* The steps.                                                              *)

LEMMA PollsKeep ==
  ASSUME IInv, NEW q \in Slots, AnswerPoll(q) \/ AnswerError(q) \/ FetchData(q) \/ PollFails(q)
  PROVE  IInv'
<1> USE DEF IInv
<1>0. UNCHANGED <<crew, locations, mine, drawn, calm>>
  BY DEF AnswerPoll, AnswerError, FetchData, PollFails
<1>1. PICK r \in Requests \cup {None} : Send(q, r) /\ (r = None \/ r.kind = "poll")
  <2>1. ASSUME NEW b \in {"none", "stations", "incidents"}
        PROVE  [locations |-> locations, broken |-> b] \in Answers
    BY DEF TypeOK, Answers
  <2> QED
    BY <2>1, PollTypes DEF AnswerPoll, AnswerError, FetchData, PollFails
<1>2. request[q] = None \/ Is(q, "poll")
  BY DEF AnswerPoll, AnswerError, FetchData, PollFails, Asked
<1>3. TypeOK'
  BY <1>0, <1>1, SendTypes DEF TypeOK, mine, drawn
<1> QED
  BY <1>0, <1>1, <1>2, <1>3, SendTypes, PollStep

LEMMA UpdateMapKeeps ==
  ASSUME IInv, NEW q \in Slots, UpdateMap(q)
  PROVE  IInv'
<1> USE DEF IInv
<1> DEFINE a == request[q].answer
<1>0. /\ Is(q, "poll") /\ request' = [request EXCEPT ![q] = None]
      /\ UNCHANGED <<crew, locations, mine, calm>>
  BY DEF UpdateMap, Answered, Send
<1>1. a \in Answers
  BY RequestTypes DEF UpdateMap, Answered, Is
<1>2. a.locations \subseteq Locations
  BY <1>1, ConstantsAssumption DEF Answers, LocationLists, Locations
<1>3. markers' \subseteq Vehicles \cup Locations /\ popup' \in markers' \cup {None}
  <2>1. CASE a.broken = "stations"
    BY <2>1, <1>2 DEF UpdateMap, TypeOK, Removed, Locations
  <2>2. CASE a.broken = "incidents"
    BY <2>2, <1>2 DEF UpdateMap, TypeOK, Removed, Locations
  <2>3. CASE a.broken = "none"
    BY <2>3, <1>2 DEF UpdateMap, TypeOK, Removed, Locations
  <2> QED
    BY <1>1, <2>1, <2>2, <2>3 DEF Answers
<1>4. TypeOK'
  BY <1>0, <1>3, SendTypes DEF TypeOK, UpdateMap, mine
<1> QED
  BY <1>0, <1>4, PollStep DEF TypeOK

LEMMA OthersKeep ==
  ASSUME IInv, OthersChangeLocations \/ OthersChangeCrew
               \/ \E x \in Vehicles \cup Locations : OpenPopup(x)
  PROVE  IInv'
<1> USE DEF IInv, TypeOK, WatchFollowsCheckin, Undisturbed, Believes, Deciding, Is
<1>1. CASE OthersChangeLocations
  BY <1>1 DEF OthersChangeLocations, mine, drawn
<1>2. CASE OthersChangeCrew
  BY <1>2 DEF OthersChangeCrew, mine, drawn
<1>3. ASSUME NEW x \in Vehicles \cup Locations, OpenPopup(x) PROVE IInv'
  BY <1>3 DEF OpenPopup, mine
<1> QED
  BY <1>1, <1>2, <1>3

\* The server answers a request about the check-in.
LEMMA ServerKeeps ==
  ASSUME IInv, NEW q \in Slots, AnswerMe(q) \/ Execute(q)
  PROVE  IInv'
<1> USE DEF IInv
<1>0. request[q] # None /\ request[q] \in Requests
  BY RequestTypes DEF AnswerMe, Execute, Asked, Is
<1>1. CASE AnswerMe(q)
  <2>1. Is(q, "me") /\ UNCHANGED <<crew, locations, mine, drawn, calm>>
    BY <1>1 DEF AnswerMe, Asked
  <2>2. [request[q] EXCEPT !.answer = crew] \in Requests
        /\ [request[q] EXCEPT !.answer = crew].kind = "me"
        /\ [request[q] EXCEPT !.answer = crew].answer = crew
    BY <1>0, <2>1 DEF Requests, Is, TypeOK
  <2>3. /\ request'[q].kind = "me" /\ request'[q].answer = crew /\ request'[q] # None
        /\ \A p \in Slots \ {q} : request'[p] = request[p]
        /\ request' \in [Slots -> Requests \cup {None}]
    <3>1. Send(q, [request[q] EXCEPT !.answer = crew])
      BY <1>1 DEF AnswerMe
    <3> QED
      BY <2>2, <3>1, SendTypes, ValuesAssumption
  <2>4. TypeOK'
    BY <2>1, <2>3 DEF TypeOK, mine, drawn
  <2>5. WatchFollowsCheckin'
    BY <2>1, <2>3 DEF WatchFollowsCheckin, Deciding, mine, Is, CrewKinds
  <2>6. Undisturbed'
    BY <2>1, <2>3 DEF Undisturbed, Believes, mine, Is, CrewKinds
  <2> QED
    BY <2>4, <2>5, <2>6
<1>2. CASE Execute(q)
  <2> DEFINE r == [request[q] EXCEPT !.answer = "ok"]
  <2>1. /\ Is(q, "check_in") \/ Is(q, "check_out")
        /\ request[q].answer = Pending
        /\ UNCHANGED <<locations, mine, drawn, calm>>
    BY <1>2 DEF Execute, Asked
  <2>2. r \in Requests /\ r.kind = request[q].kind /\ r.vehicle = request[q].vehicle
        /\ r.answer = "ok" /\ request[q].vehicle \in Vehicles
    BY <1>0, <2>1 DEF Requests, Is
  <2>3. /\ request'[q] = r /\ request'[q] # None
        /\ \A p \in Slots \ {q} : request'[p] = request[p]
        /\ request' \in [Slots -> Requests \cup {None}]
    <3>1. Send(q, r)
      BY <1>2 DEF Execute
    <3> QED
      BY <2>2, <3>1, SendTypes, ValuesAssumption
  <2>4. TypeOK'
    <3>1. crew' \in Crew
      BY <1>2, <2>2 DEF Execute, TypeOK, Crew
    <3> QED
      BY <2>1, <2>3, <3>1 DEF TypeOK, mine, drawn
  <2>5. \A p \in Slots : \A kind \in CrewKinds : Is(p, kind)' <=> Is(p, kind)
    BY <1>0, <2>2, <2>3 DEF Is
  <2>6. WatchFollowsCheckin'
    BY <2>1, <2>5 DEF WatchFollowsCheckin, Deciding, mine, CrewKinds
  <2>7. ASSUME calm PROVE
          /\ \A p \in Slots : \A kind \in CrewKinds : Is(p, kind) => p = q
          /\ Is(q, "check_out") => crew = request[q].vehicle
    BY <2>1, <2>7 DEF Undisturbed, CrewKinds
  <2>8. ASSUME calm PROVE
          crew' = IF Is(q, "check_in") THEN request[q].vehicle ELSE None
    BY <1>2, <2>7, <2>8 DEF Execute, Asked, Is
  <2>9. ASSUME calm', NEW p \in Slots, NEW kind \in CrewKinds, Is(p, kind)' PROVE
          /\ p = q /\ calm /\ Is(q, kind)
          /\ \A o \in Slots : \A other \in CrewKinds : Is(o, other)' => o = p
    BY <2>1, <2>5, <2>7, <2>9
  <2>10. ASSUME calm', Is(q, "check_in")' PROVE crew' = request'[q].vehicle
    BY <2>1, <2>2, <2>3, <2>5, <2>8, <2>9, <2>10 DEF CrewKinds
  <2>11. ASSUME calm', Is(q, "check_out")' PROVE crew' = None
    <3>1. Is(q, "check_out") /\ ~ Is(q, "check_in")
      BY <2>5, <2>11 DEF CrewKinds, Is
    <3> QED
      BY <2>1, <2>8, <2>11, <3>1
  <2>12. ~ Is(q, "me")'
    BY <2>1, <2>2, <2>3 DEF Is
  <2>13. request'[q].answer # Pending
    BY <2>2, <2>3, ValuesAssumption
  <2>14. Undisturbed'
    BY <2>9, <2>10, <2>11, <2>12, <2>13 DEF Undisturbed, CrewKinds
  <2> QED
    BY <2>4, <2>6, <2>14
<1> QED
  BY <1>1, <1>2

\* The page gets the answer to a request about the check-in, or presses the button.
LEMMA MyCheckinKeeps ==
  ASSUME IInv, NEW q \in Slots, MyCheckin(q)
  PROVE  IInv'
<1> USE DEF IInv
<1>1. /\ Is(q, "me") /\ request[q].answer \in Crew /\ request[q].answer # Pending
      /\ UNCHANGED <<crew, locations, drawn, calm>>
  BY RequestTypes DEF MyCheckin, Answered, Is
<1>2. /\ request'[q] = None
      /\ \A p \in Slots \ {q} : request'[p] = request[p]
      /\ request' \in [Slots -> Requests \cup {None}]
  BY SendTypes DEF MyCheckin
<1>3. /\ currentCheckinVehicleId' = request[q].answer
      /\ watches' = IF request[q].answer # None THEN {request[q].answer} ELSE watches
  BY DEF MyCheckin, StartLocationWatch
<1>4. TypeOK'
  BY <1>1, <1>2, <1>3 DEF TypeOK, drawn, Crew
<1>5. calm => Believes(None) /\ request[q].answer = crew
              /\ \A p \in Slots : \A kind \in CrewKinds : Is(p, kind) => p = q
  BY <1>1 DEF Undisturbed, CrewKinds
<1>6. calm' => \A p \in Slots : \A kind \in CrewKinds : ~ Is(p, kind)'
  BY <1>1, <1>2, <1>5 DEF Is
<1>7. Undisturbed'
  BY <1>6 DEF Undisturbed
<1>8. WatchFollowsCheckin'
  BY <1>1, <1>3, <1>5 DEF WatchFollowsCheckin, Believes
<1> QED
  BY <1>4, <1>7, <1>8

LEMMA PressCheckinKeeps ==
  ASSUME IInv, NEW v \in Vehicles, PressCheckin(v)
  PROVE  IInv'
<1> USE DEF IInv
<1> DEFINE r == [kind |-> IF offered = v THEN "check_out" ELSE "check_in",
                 vehicle |-> v, answer |-> Pending]
<1>1. PICK q \in Slots : request[q] = None /\ Send(q, r)
  BY DEF PressCheckin
<1>2. r \in Requests /\ r.kind \in {"check_in", "check_out"}
  BY DEF Requests
<1>3. /\ request'[q] = r /\ request'[q] # None
      /\ \A p \in Slots \ {q} : request'[p] = request[p]
      /\ request' \in [Slots -> Requests \cup {None}]
  BY <1>1, <1>2, SendTypes, ValuesAssumption
<1>4. UNCHANGED <<crew, locations, mine, drawn>>
      /\ calm' = (calm /\ ~ Deciding /\ offered = currentCheckinVehicleId)
  BY DEF PressCheckin
<1>5. TypeOK'
  BY <1>3, <1>4 DEF TypeOK, mine, drawn
<1>6. Deciding'
  BY <1>2, <1>3 DEF Deciding, Is, CrewKinds
<1>7. WatchFollowsCheckin'
  BY <1>4, <1>6 DEF WatchFollowsCheckin, mine
<1>8. ASSUME calm', NEW p \in Slots, NEW kind \in CrewKinds, Is(p, kind)'
      PROVE  p = q /\ kind = r.kind
  BY <1>3, <1>4, <1>8 DEF Deciding, Is
<1>9. ASSUME calm' PROVE Believes(crew)' /\ offered = crew'
  BY <1>4, <1>9 DEF WatchFollowsCheckin, Believes, mine
<1>10. r.kind # "me" /\ r.answer = Pending /\ (r.kind = "check_out" => offered = r.vehicle)
  OBVIOUS
<1> HIDE DEF r
<1>11. Undisturbed'
  BY <1>3, <1>8, <1>9, <1>10 DEF Undisturbed, CrewKinds
<1> QED
  BY <1>5, <1>7, <1>11

\* An answer to the button, and the poll it sends in its place.
LEMMA CheckedKeeps ==
  ASSUME IInv, NEW q \in Slots, CheckedIn(q) \/ CheckedOut(q)
  PROVE  IInv'
<1> USE DEF IInv
<1> DEFINE v == IF Is(q, "check_in") THEN request[q].vehicle ELSE None
<1>1. /\ Is(q, "check_in") \/ Is(q, "check_out")
      /\ request[q].answer # Pending
      /\ UNCHANGED <<crew, locations, drawn, calm>>
  BY DEF CheckedIn, CheckedOut, Answered
<1>2. v \in Crew
  BY <1>1, RequestTypes DEF Is, Crew
<1>3. currentCheckinVehicleId' = v /\ watches' = {v} \ {None}
  <2>1. CASE CheckedIn(q)
    <3>1. Is(q, "check_in") /\ request[q].vehicle # None
      BY <2>1, RequestTypes, ConstantsAssumption DEF CheckedIn, Answered, Is
    <3> QED
      BY <2>1, <3>1 DEF CheckedIn, StartLocationWatch
  <2>2. CASE CheckedOut(q)
    <3>1. ~ Is(q, "check_in")
      BY <2>2 DEF CheckedOut, Answered, Is
    <3> QED
      BY <2>2, <3>1 DEF CheckedOut
  <2> QED
    BY <2>1, <2>2
<1>4. /\ request'[q].kind = "poll"
      /\ \A p \in Slots \ {q} : request'[p] = request[p]
      /\ request' \in [Slots -> Requests \cup {None}]
  BY PollTypes, SendTypes DEF CheckedIn, CheckedOut
<1>5. TypeOK'
  BY <1>1, <1>2, <1>3, <1>4 DEF TypeOK, drawn, Crew
<1>6. calm => v = crew /\ \A p \in Slots : \A kind \in CrewKinds : Is(p, kind) => p = q
  BY <1>1 DEF Undisturbed, CrewKinds, Is
<1>7. calm' => \A p \in Slots : \A kind \in CrewKinds : ~ Is(p, kind)'
  BY <1>1, <1>4, <1>6 DEF Is, CrewKinds
<1>8. Undisturbed'
  BY <1>7 DEF Undisturbed
<1>9. WatchFollowsCheckin'
  BY <1>1, <1>3, <1>6 DEF WatchFollowsCheckin
<1> QED
  BY <1>5, <1>8, <1>9

LEMMA FailuresKeep ==
  ASSUME IInv, NEW q \in Slots, CheckinRefused(q) \/ CheckinLost(q)
  PROVE  IInv'
<1> USE DEF IInv
<1>1. UNCHANGED <<crew, locations, mine, drawn>>
  BY DEF CheckinRefused, CheckinLost
<1>2. /\ request'[q] = None
      /\ \A p \in Slots \ {q} : request'[p] = request[p]
      /\ request' \in [Slots -> Requests \cup {None}]
  BY SendTypes DEF CheckinRefused, CheckinLost
<1>3. TypeOK'
  BY <1>1, <1>2 DEF TypeOK, mine, drawn, CheckinRefused, CheckinLost
<1>4. ASSUME calm' PROVE
        /\ calm /\ Believes(crew)
        /\ \A p \in Slots : \A kind \in CrewKinds : ~ Is(p, kind)'
  <2>1. calm /\ (Asked(q, "check_in") \/ Asked(q, "check_out"))
    BY <1>4 DEF CheckinRefused, CheckinLost
  <2>2. Believes(crew) /\ \A p \in Slots : \A kind \in CrewKinds : Is(p, kind) => p = q
    BY <2>1 DEF Undisturbed, Asked, CrewKinds
  <2> QED
    BY <1>2, <2>1, <2>2 DEF Is
<1>5. WatchFollowsCheckin'
  BY <1>1, <1>4 DEF WatchFollowsCheckin, Believes, mine
<1>6. Undisturbed'
  BY <1>4 DEF Undisturbed
<1> QED
  BY <1>3, <1>5, <1>6

LEMMA InitIInv == Init => IInv
<1> SUFFICES ASSUME Init PROVE IInv
  OBVIOUS
<1> DEFINE me == [kind |-> "me", answer |-> Pending]
<1>1. PICK p \in Slots, q \in Slots :
        /\ p # q
        /\ request = [s \in Slots |-> CASE s = p -> Poll [] s = q -> me [] OTHER -> None]
  BY DEF Init
<1>2. me \in Requests /\ me.kind = "me" /\ me.answer = Pending /\ me # None
  BY ValuesAssumption DEF Requests
<1> HIDE DEF me
<1>3. /\ request[q] = me /\ request[p] = Poll
      /\ \A s \in Slots \ {p, q} : request[s] = None
  BY <1>1
<1>4. TypeOK
  BY <1>1, <1>2, PollTypes DEF Init, TypeOK, Crew
<1>5. \A s \in Slots : \A kind \in CrewKinds : Is(s, kind) => s = q /\ kind = "me"
  BY <1>2, <1>3, PollTypes DEF Is, CrewKinds
<1>6. Undisturbed
  BY <1>2, <1>3, <1>5 DEF Undisturbed, Init, Believes
<1>7. Deciding
  BY <1>2, <1>3 DEF Deciding, Is, CrewKinds
<1> QED
  BY <1>4, <1>6, <1>7 DEF IInv, WatchFollowsCheckin, Init

--------------------------------------------------------------------------------
(* Every step.                                                             *)

LEMMA NextIInv == IInv /\ [Next]_vars => IInv'
<1> SUFFICES ASSUME IInv, [Next]_vars PROVE IInv'
  OBVIOUS
<1>1. ASSUME NEW q \in Slots, Fails(q) PROVE IInv'
  BY <1>1, PollsKeep, FailuresKeep DEF Fails
<1>2. ASSUME NEW q \in Slots, Progress(q) PROVE IInv'
  BY <1>2, PollsKeep, UpdateMapKeeps, ServerKeeps, MyCheckinKeeps, CheckedKeeps DEF Progress
<1>3. ASSUME NEW q \in Slots, FetchData(q) PROVE IInv'
  BY <1>3, PollsKeep
<1>4. CASE Disturbance
  BY <1>1, <1>4, OthersKeep, PressCheckinKeeps DEF Disturbance
<1>5. CASE UNCHANGED vars
  BY <1>5 DEF IInv, TypeOK, WatchFollowsCheckin, Undisturbed, Believes, Deciding, Is,
              vars, mine, drawn
<1> QED
  BY <1>2, <1>3, <1>4, <1>5, OthersKeep DEF Next

\* Whatever arrives in whatever order, the strengthened invariant holds.
THEOREM Invariance == Spec => []IInv
BY InitIInv, NextIInv, PTL DEF Spec

\* Every reachable state of the page has its type: above all, the open popup
\* belongs to a marker on the map.
THEOREM TypeCorrect == Spec => []TypeOK
<1>1. IInv => TypeOK
  BY DEF IInv
<1> QED
  BY <1>1, Invariance, PTL

\* The page watches the vehicle it believes the user is on, one at most, and
\* without disturbance that is the vehicle the server has the user on.
THEOREM WatchIsRight == Spec => []WatchFollowsCheckin
<1>1. IInv => WatchFollowsCheckin
  BY DEF IInv
<1> QED
  BY <1>1, Invariance, PTL

\* No answer closes the popup of a vehicle or station that is still on the map.
THEOREM PopupsSurvive == Spec => OpenPopupSurvives
<1>1. ASSUME IInv, NEW q \in Slots, UpdateMap(q), NEW x \in Vehicles \cup Stations,
             popup = x, popup' # x
      PROVE  x \notin markers'
  <2> DEFINE a == request[q].answer
  <2>1. x \in Removed(a)
    BY <1>1 DEF UpdateMap
  <2>2. x \notin Vehicles /\ x \notin a.locations /\ a.broken # "stations"
    BY <1>1, <2>1, ConstantsAssumption DEF Removed, Locations
  <2> QED
    BY <1>1, <2>2 DEF UpdateMap
<1>2. ASSUME IInv, [Next]_vars, NEW x \in Vehicles \cup Stations,
             popup = x, popup' # x, request' # request
      PROVE  x \notin markers'
  <2>1. \E q \in Slots : UpdateMap(q)
    BY <1>2 DEF Next, Disturbance, Fails, Progress, vars, drawn, OthersChangeLocations,
       OthersChangeCrew, PressCheckin, AnswerPoll, AnswerError, AnswerMe, Execute, FetchData,
       PollFails, MyCheckin, OpenPopup, CheckedIn, CheckedOut, CheckinRefused, CheckinLost
  <2> QED
    BY <1>1, <1>2, <2>1
<1>3. IInv /\ [Next]_vars =>
        [\A x \in Vehicles \cup Stations :
           popup = x /\ popup' # x /\ request' # request => x \notin markers']_vars
  BY <1>2
<1> QED
  BY <1>3, Invariance, PTL DEF Spec, OpenPopupSurvives
--------------------------------------------------------------------------------
(* Nothing disturbs: popups and markers come nearer to what they should be. *)

\* A poll that is not out of date shows what there is.
LEMMA ShowsWhatThereIs ==
  ASSUME NEW q \in Slots, UpdateMap(q), Stale = {}
  PROVE  CaughtUp'
<1>1. request[q].answer = [locations |-> locations, broken |-> "none"]
  BY DEF UpdateMap, Answered, Is, Stale, UpToDate
<1> QED
  BY <1>1 DEF UpdateMap, CaughtUp, mine

\* The page or the server is done with a request, or has a poll instead that is not out
\* of date.
LEMMA Settles ==
  ASSUME TypeOK, NEW q \in Slots, UNCHANGED locations,
         NEW r \in Requests \cup {None}, Send(q, r),
         q \in Stale \/ r = None \/ (r.kind = "poll" /\ UpToDate(r.answer))
  PROVE  Stale' \subseteq Stale
<1>1. request'[q] = r /\ \A p \in Slots \ {q} : request'[p] = request[p]
  BY SendTypes
<1>2. \A a : UpToDate(a)' <=> UpToDate(a)
  BY DEF UpToDate
<1> QED
  BY <1>1, <1>2 DEF Stale, Is, UpToDate

LEMMA NextNearer ==
  ASSUME IInv, [Next]_vars, ~ Disturbance
  PROVE  Nearer \/ UNCHANGED vars
<1> USE DEF IInv
<1>1. ASSUME Stale' \subseteq Stale, Stale = {} /\ CaughtUp => CaughtUp'
      PROVE  Nearer
  BY <1>1, ShowsWhatThereIs DEF Nearer
<1>2. ASSUME UNCHANGED <<currentCheckinVehicleId, locations, offered, markers>>
      PROVE  CaughtUp => CaughtUp'
  BY <1>2 DEF CaughtUp
<1>3. [Poll EXCEPT !.answer = Pending] = Poll /\ Poll.answer = Pending /\ UpToDate(Pending)
  BY DEF Poll, UpToDate
<1>4. ASSUME NEW q \in Slots, AnswerPoll(q) \/ FetchData(q) PROVE Nearer
  <2> DEFINE a == [locations |-> locations, broken |-> "none"]
             r == [Poll EXCEPT !.answer = a]
  <2>1. a \in Answers /\ UpToDate(a)
    BY DEF TypeOK, Answers, UpToDate
  <2>2. r \in Requests /\ r.kind = "poll" /\ r.answer = a
    BY <2>1, PollTypes DEF Poll
  <2>3. Send(q, r) \/ Send(q, Poll)
    BY <1>4 DEF AnswerPoll, FetchData
  <2>4. UNCHANGED <<locations, mine, drawn>>
    BY <1>4 DEF AnswerPoll, FetchData
  <2> HIDE DEF a, r
  <2>5. Stale' \subseteq Stale
    BY <1>3, <2>1, <2>2, <2>3, <2>4, PollTypes, Settles
  <2> QED
    BY <1>1, <1>2, <2>4, <2>5 DEF mine, drawn
<1>5. ASSUME NEW q \in Slots, UpdateMap(q) PROVE Nearer
  <2>1. Send(q, None) /\ UNCHANGED locations
    BY <1>5 DEF UpdateMap
  <2> QED
    BY <1>1, <1>5, <2>1, Settles, ShowsWhatThereIs
<1>6. ASSUME NEW q \in Slots, AnswerMe(q) \/ Execute(q) \/ MyCheckin(q) \/ CheckedIn(q) \/ CheckedOut(q)
      PROVE  Nearer
  <2>1. q \in Stale /\ UNCHANGED locations
    BY <1>6 DEF AnswerMe, Execute, MyCheckin, CheckedIn, CheckedOut, Asked, Answered, Is, Stale
  <2>2. \A p \in Slots \ {q} : request'[p] = request[p]
    BY <1>6 DEF AnswerMe, Execute, MyCheckin, CheckedIn, CheckedOut, Send, TypeOK
  <2>3. Stale' \subseteq Stale
    BY <2>1, <2>2 DEF Stale, Is, UpToDate
  <2> QED
    BY <1>1, <2>1, <2>3
<1>7. ASSUME NEW x \in Vehicles \cup Locations, OpenPopup(x) PROVE Nearer
  <2>1. UNCHANGED <<currentCheckinVehicleId, locations, offered, markers, request>>
    BY <1>7 DEF OpenPopup, mine
  <2>2. Stale' = Stale
    BY <2>1 DEF Stale, Is, UpToDate
  <2> QED
    BY <1>1, <1>2, <2>1, <2>2
<1>8. ASSUME NEW q \in Slots, PollFails(q) PROVE FALSE
  BY <1>8 DEF Disturbance, Fails
<1> QED
  BY <1>4, <1>5, <1>6, <1>7, <1>8 DEF Next, Progress

\* While nothing disturbs, each step brings popups and markers nearer to what they
\* should be, for any number of requests in any order: of what is out of date nothing is
\* added, and what is right stays right.  That the steps are taken is PopupsCatchUp.
THEOREM QuietPageNearsCaughtUp == Spec => NearsCaughtUp
<1>1. IInv /\ [Next]_vars => [~ Disturbance => Nearer]_vars
  BY NextNearer
<1> QED
  BY <1>1, Invariance, PTL DEF Spec, NearsCaughtUp
================================================================================
