---------------------------- MODULE AssignmentBoard ----------------------------
(***************************************************************************)
(* What the tables of vehicles and locations promise those who read them:   *)
(* the locations there are, and for every call sign in use the location     *)
(* its vehicle is at, or that it is on the road.  There are no keys,        *)
(* requests or statements; every change is one atomic step.                 *)
(***************************************************************************)
CONSTANTS Callsigns, Locations, None

VARIABLES
  sites,  \* the locations that exist
  board   \* a card for each vehicle: its call sign, and where it is

vars == <<sites, board>>

Init == sites = {} /\ board = {}

Used(sign) == \E card \in board : card.callsign = sign
Card(sign, at) == [callsign |-> sign, at |-> at]
OnTheRoad(card) == [card EXCEPT !.at = None]

\* A new vehicle is on the road.
Commission(sign) ==
  /\ ~ Used(sign)
  /\ board' = board \cup {Card(sign, None)}
  /\ UNCHANGED sites

Retire(card) == board' = board \ {card} /\ UNCHANGED sites

\* A call sign changes and the place stays ...
Rename(card, sign) ==
  /\ ~ Used(sign)
  /\ board' = (board \ {card}) \cup {Card(sign, card.at)}
  /\ UNCHANGED sites

\* ... or the other way round.
Assign(card, at) ==
  /\ at \in sites \cup {None}
  /\ board' = (board \ {card}) \cup {Card(card.callsign, at)}
  /\ UNCHANGED sites

Open(l) == l \notin sites /\ sites' = sites \cup {l} /\ UNCHANGED board

\* A location goes and nobody stays at it.  Vehicles that have been there and have
\* been sent elsewhere meanwhile may lose their new place too, even to a second
\* request for a location that is gone already.
Close(l) ==
  /\ sites' = sites \ {l}
  /\ \E leaving \in SUBSET board :
       /\ {card \in board : card.at = l} \subseteq leaving
       /\ board' = (board \ leaving) \cup {OnTheRoad(card) : card \in leaving}

Next ==
  \/ \E sign \in Callsigns : Commission(sign)
  \/ \E card \in board :
       \/ Retire(card)
       \/ \E sign \in Callsigns : Rename(card, sign)
       \/ \E at \in Locations \cup {None} : Assign(card, at)
  \/ \E l \in Locations : Open(l) \/ Close(l)

Spec == Init /\ [][Next]_vars
================================================================================
