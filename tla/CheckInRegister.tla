---------------------------- MODULE CheckInRegister ----------------------------
(***************************************************************************)
(* What the check-in tables promise, with no requests, statements or       *)
(* locks: a fleet of vehicles and, for every user name, the one vehicle    *)
(* of the fleet that name is checked in on, if any.  Every change is one   *)
(* atomic step that touches one user or one vehicle.                       *)
(***************************************************************************)
CONSTANTS Users, Vehicles, None

VARIABLES
  fleet,   \* the vehicles that exist
  crew     \* crew[u]: the vehicle u is checked in on, or None

vars == <<fleet, crew>>

Init == fleet = Vehicles /\ crew = [u \in Users |-> None]

\* u boards v, and leaves in the same step the vehicle u was on.
Board(u, v) ==
  /\ v \in fleet
  /\ crew' = [crew EXCEPT ![u] = v]
  /\ UNCHANGED fleet

Leave(u) ==
  /\ crew' = [crew EXCEPT ![u] = None]
  /\ UNCHANGED fleet

\* v goes, and nobody stays on it.
Scrap(v) ==
  /\ fleet' = fleet \ {v}
  /\ crew' = [u \in Users |-> IF crew[u] = v THEN None ELSE crew[u]]

Commission(v) ==
  /\ v \notin fleet
  /\ fleet' = fleet \cup {v}
  /\ UNCHANGED crew

Next ==
  \/ \E u \in Users : Leave(u) \/ \E v \in Vehicles : Board(u, v)
  \/ \E v \in Vehicles : Scrap(v) \/ Commission(v)

Spec == Init /\ [][Next]_vars

================================================================================
