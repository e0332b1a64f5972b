---------------------------------- MODULE Fleet ----------------------------------
(***************************************************************************)
(* The records of vehicles and locations: every handler that creates,       *)
(* changes or deletes a row of the tables vehicle and location              *)
(* (app/routers/vehicles.py, locations.py, admin/vehicles_users.py and      *)
(* admin/locations.py), among them the assignment of vehicles to locations. *)
(*                                                                         *)
(* All changes go through the ORM in one way: the handler loads the row,    *)
(* assigns to its attributes, and the commit writes the attributes whose    *)
(* value differs from the LOADED one, whatever the row holds by then.       *)
(* Most handlers of the API then refresh the object, in a new transaction.  *)
(* As in CheckIn, row is the committed state, a request runs one statement  *)
(* at a time, and the last statement of a transaction and its commit are    *)
(* one step.                                                               *)
(***************************************************************************)
EXTENDS Naturals, FiniteSets

CONSTANTS
  Vehicles, Locations,  \* primary keys; one is used again when its row is gone
                        \* and no request knows it
  Callsigns,            \* call signs: the one column with a unique index
  Values,               \* what the other columns hold
  Default,              \* the value of a column the creating handler sets itself
  Requests,             \* the requests in progress at one time
  Handlers,             \* the handlers clients call
  None

\* Station and Incident share their table and their handlers' code; type, lat, lng
\* and description behave as status, position and name do, and updated_at is
\* written by all handlers of a vehicle but update_location.
VehicleColumns == {"callsign", "status", "position", "location"}
LocationColumns == {"name", "active"}

Updates == {"update_vehicle", "edit_vehicle", "update_status", "set_position",
            "update_location", "edit_location", "set_active", "toggle"}
Deletes == {"delete_location", "admin_delete_location"}
AllHandlers == Updates \cup Deletes \cup {"create_vehicle"}

ASSUME ConstantsAssumption ==
  /\ Handlers \subseteq AllHandlers
  /\ Vehicles \cap Locations = {}
  /\ Default \in Values
  /\ None \notin Vehicles \cup Locations \cup Callsigns \cup Values

VARIABLES
  row,      \* the row of each primary key, None when there is none
  pc,       \* the next statement of each request
  call,     \* its handler, the row it is for, and the values it sets
  copy,     \* the row as the request has loaded it
  loaded,   \* the vehicles a deletion has found at its location
  locked,   \* the vehicles it has detached and not committed
  outcome,  \* the answer of a finished request
  held      \* history: the columns that had the value of the call at some moment, as
            \* long as it has not failed

vars == <<row, pc, call, copy, loaded, locked, outcome, held>>

Ids == Vehicles \cup Locations
ColumnRange(c) == CASE c = "callsign" -> Callsigns
              [] c = "location" -> Locations \cup {None}
              [] c = "active" -> BOOLEAN
              [] OTHER -> Values
AllValues == Callsigns \cup Locations \cup {None} \cup BOOLEAN \cup Values

\* Assignments of values to the columns C.
Assignments(C) == {f \in [C -> AllValues] : \A c \in C : f[c] \in ColumnRange(c)}
VehicleRows == Assignments(VehicleColumns)
LocationRows == Assignments(LocationColumns)
RowsFor(x) == IF x \in Vehicles THEN VehicleRows ELSE LocationRows

\* The columns a handler may set.  The form of an incident may leave active out.
ColumnSets(h) ==
  CASE h = "update_vehicle" -> {{"callsign", "status"}}
    [] h = "edit_vehicle" -> {{"callsign", "status", "position"}}
    [] h = "update_status" -> {{"status"}}
    [] h = "set_position" -> {{"position"}}
    [] h = "update_location" -> {{"location"}}
    [] h = "edit_location" -> {{"name"}, {"name", "active"}}
    [] h \in {"set_active", "toggle"} -> {{"active"}}
    [] h = "create_vehicle" -> {{"callsign", "status"}}
    [] OTHER -> {{}}

Targets(h) ==
  IF h \in Deletes \cup {"edit_location", "set_active", "toggle"} THEN Locations ELSE Vehicles

Calls ==
  {c \in [handler : AllHandlers, target : Ids,
           values : UNION {Assignments(C) : C \in UNION {ColumnSets(h) : h \in AllHandlers}}] :
     c.target \in Targets(c.handler) /\ DOMAIN c.values \in ColumnSets(c.handler)}

Labels == {"idle", "load", "check_callsign", "check_location", "update", "refresh",
           "insert", "select_vehicles", "select_assigned", "detach", "delete", "done"}

\* As in CheckIn: 404, 400, the 500s of a constraint and of a row that is gone.
Outcomes == {"ok", "missing", "invalid", "conflict", "stale"}

\* None is no row, which is a function, and no answer.
ASSUME NoneAssumption ==
  /\ None \notin VehicleRows \cup LocationRows
  /\ None \notin Outcomes

Exists(x) == row[x] # None

TypeOK ==
  /\ row \in [Ids -> VehicleRows \cup LocationRows \cup {None}]
  /\ \A x \in Ids : Exists(x) => row[x] \in RowsFor(x)
  /\ pc \in [Requests -> Labels]
  /\ call \in [Requests -> Calls \cup {None}]
  /\ copy \in [Requests -> VehicleRows \cup LocationRows \cup {None}]
  /\ loaded \in [Requests -> SUBSET Vehicles]
  /\ locked \in [Requests -> SUBSET Vehicles]
  /\ outcome \in [Requests -> Outcomes \cup {None}]
  /\ held \in [Requests -> SUBSET (VehicleColumns \cup LocationColumns)]

Init ==
  /\ row = [x \in Ids |-> None]
  /\ pc = [r \in Requests |-> "idle"]
  /\ call = [r \in Requests |-> None]
  /\ copy = [r \in Requests |-> None]
  /\ loaded = [r \in Requests |-> {}]
  /\ locked = [r \in Requests |-> {}]
  /\ outcome = [r \in Requests |-> None]
  /\ held = [r \in Requests |-> {}]

At(l) == {v \in Vehicles : Exists(v) /\ row[v]["location"] = l}
Named(sign) == {v \in Vehicles : Exists(v) /\ row[v]["callsign"] = sign}
Locked(v, r) == \E o \in Requests \ {r} : v \in locked[o]
Target(r) == call[r].target
Sets(r, c) == c \in DOMAIN call[r].values

\* A new primary key: no row has it and no request knows it.
Fresh(x) ==
  /\ ~ Exists(x)
  /\ \A r \in Requests : pc[r] # "idle" => Target(r) # x
  /\ \A r \in Requests : x \notin loaded[r]

--------------------------------------------------------------------------------
(* The history variable, and how a request goes on or ends.                *)

Holding(record, c) ==
  {k \in VehicleColumns \cup LocationColumns :
     record # None /\ k \in DOMAIN c.values /\ record[k] = c.values[k]}

Failed(r) == pc[r] = "done" /\ outcome[r] # "ok"

Observe ==
  held' = [r \in Requests |->
             IF pc'[r] = "idle" \/ Failed(r)' THEN {}
             ELSE held[r] \cup Holding(row'[call'[r].target], call'[r])]

Goto(r, label) == pc' = [pc EXCEPT ![r] = label]

Continue(r, label) ==
  /\ Goto(r, label)
  /\ UNCHANGED outcome
  /\ Observe

Answer(r, o) ==
  /\ Goto(r, "done")
  /\ outcome' = [outcome EXCEPT ![r] = o]
  /\ copy' = [copy EXCEPT ![r] = None]
  /\ loaded' = [loaded EXCEPT ![r] = {}]
  /\ locked' = [locked EXCEPT ![r] = {}]
  /\ UNCHANGED call
  /\ Observe

Rollback(r, o) == UNCHANGED row /\ Answer(r, o)

Begin(r) ==
  /\ pc[r] = "idle"
  /\ UNCHANGED <<row, copy, loaded, locked>>
  /\ \E h \in Handlers : \E x \in Targets(h), C \in ColumnSets(h) : \E f \in Assignments(C) :
       /\ h = "create_vehicle" => Fresh(x)
       /\ call' = [call EXCEPT ![r] = [handler |-> h, target |-> x, values |-> f]]
       /\ Continue(r, IF h = "create_vehicle" THEN "check_callsign" ELSE "load")

--------------------------------------------------------------------------------
(* Loading and checking.                                                   *)

\* update_status refuses an unknown status, put_position and patch_position a
\* position outside Hamburg.
Invalid(r) ==
  /\ pc[r] = "load"
  /\ call[r].handler \in {"update_status", "set_position"}
  /\ Rollback(r, "invalid")

AfterLoad == [h \in AllHandlers |->
  CASE h \in {"update_vehicle", "edit_vehicle"} -> "check_callsign"
    [] h = "update_location" -> "check_location"
    [] h \in Deletes -> "select_vehicles"
    [] OTHER -> "update"]

\* toggle_incident computes what it sets from what it has loaded, a deletion uses
\* nothing of it.  The DELETE of the API answers 204 also when there is nothing to
\* delete.
Load(r) ==
  /\ pc[r] = "load"
  /\ \/ /\ Exists(Target(r))
        /\ IF call[r].handler \in Deletes
           THEN UNCHANGED copy
           ELSE copy' = [copy EXCEPT ![r] = row[Target(r)]]
        /\ call' = IF call[r].handler = "toggle"
                    THEN [call EXCEPT ![r].values["active"] = ~ row[Target(r)]["active"]]
                    ELSE call
        /\ UNCHANGED <<row, loaded, locked>>
        /\ Continue(r, AfterLoad[call[r].handler])
     \/ /\ ~ Exists(Target(r))
        /\ Rollback(r, IF call[r].handler = "delete_location" THEN "ok" ELSE "missing")

\* _assert_callsign_free.
CheckCallsign(r) ==
  /\ pc[r] = "check_callsign"
  /\ LET taken == Named(call[r].values["callsign"]) \ {Target(r)}
     IN \/ /\ taken = {}
           /\ UNCHANGED <<row, call, copy, loaded, locked>>
           /\ Continue(r, IF call[r].handler = "create_vehicle" THEN "insert" ELSE "update")
        \/ taken # {} /\ Rollback(r, "invalid")

\* db.get(Location, ...) asks the database only for a location it has not loaded
\* together with the vehicle.
CheckLocation(r) ==
  /\ pc[r] = "check_location"
  /\ LET known == {None, copy[r]["location"]} \cup {l \in Locations : Exists(l)}
     IN \/ /\ call[r].values["location"] \in known
           /\ UNCHANGED <<row, call, copy, loaded, locked>>
           /\ Continue(r, "update")
        \/ call[r].values["location"] \notin known /\ Rollback(r, "invalid")

--------------------------------------------------------------------------------
(* Writing.                                                                *)

Changed(r) == {c \in DOMAIN call[r].values : call[r].values[c] # copy[r][c]}

\* The UPDATE of a vehicle always has something to write, its updated_at, but for
\* update_location.
Writes(r) ==
  \/ Changed(r) # {}
  \/ Target(r) \in Vehicles /\ call[r].handler # "update_location"

\* The unique index and the foreign key.
Violates(r) ==
  \/ "callsign" \in Changed(r) /\ Named(call[r].values["callsign"]) \ {Target(r)} # {}
  \/ /\ "location" \in Changed(r)
     /\ call[r].values["location"] # None
     /\ ~ Exists(call[r].values["location"])

\* The handlers of the API but set_incident_active refresh; the forms do not.
\* edit_location stands for both.  What was loaded is not used again.
Refreshes(h) == h \notin {"edit_vehicle", "set_active", "toggle"}
NeedsNoRefresh(h) == h \in {"edit_vehicle", "edit_location", "set_active", "toggle",
                            "create_vehicle"}

Committed(r) ==
  \/ /\ Refreshes(call[r].handler)
     /\ copy' = [copy EXCEPT ![r] = None]
     /\ UNCHANGED <<call, loaded, locked>>
     /\ Continue(r, "refresh")
  \/ NeedsNoRefresh(call[r].handler) /\ Answer(r, "ok")

\* (variant) The whole row is written, as loaded or as set.
UpdateWholeRow(r) ==
  /\ pc[r] = "update"
  /\ ~ Locked(Target(r), r)
  /\ \/ /\ Exists(Target(r)) /\ ~ Violates(r)
        /\ row' = [row EXCEPT ![Target(r)] =
             [c \in DOMAIN row[Target(r)] |->
                IF Sets(r, c) THEN call[r].values[c] ELSE copy[r][c]]]
        /\ Committed(r)
     \/ Exists(Target(r)) /\ Violates(r) /\ Rollback(r, "conflict")
     \/ ~ Exists(Target(r)) /\ Rollback(r, "stale")

\* (variant) The commit is forgotten.
UpdateUncommitted(r) == pc[r] = "update" /\ UNCHANGED row /\ Committed(r)

\* The UPDATE of the changed columns, and the commit.
Update(r) ==
  /\ pc[r] = "update"
  /\ \/ ~ Writes(r) /\ UNCHANGED row /\ Committed(r)
     \/ /\ Writes(r)
        /\ ~ Locked(Target(r), r)
        /\ \/ /\ Exists(Target(r)) /\ ~ Violates(r)
              /\ row' = [row EXCEPT ![Target(r)] =
                   [c \in DOMAIN @ |-> IF c \in Changed(r) THEN call[r].values[c] ELSE @[c]]]
              /\ Committed(r)
           \/ Exists(Target(r)) /\ Violates(r) /\ Rollback(r, "conflict")
           \/ ~ Exists(Target(r)) /\ Rollback(r, "stale")

\* The database refuses coordinates of a location outside Hamburg, no handler does.
OutOfBounds(r) ==
  /\ pc[r] = "update"
  /\ "name" \in Changed(r)
  /\ Rollback(r, "conflict")

\* (variant) The new vehicle gets no position.
InsertWithoutPosition(r) ==
  /\ pc[r] = "insert"
  /\ row' = [row EXCEPT ![Target(r)] =
       [c \in VehicleColumns |-> IF Sets(r, c) THEN call[r].values[c] ELSE None]]
  /\ Committed(r)

\* The INSERT of a new vehicle, at DEFAULT_LAT and DEFAULT_LNG, and the commit.
Insert(r) ==
  /\ pc[r] = "insert"
  /\ LET new == [c \in VehicleColumns |->
                   CASE c = "position" -> Default
                     [] c = "location" -> None
                     [] OTHER -> call[r].values[c]]
     IN \/ /\ Named(new["callsign"]) = {}
           /\ row' = [row EXCEPT ![Target(r)] = new]
           /\ Committed(r)
        \/ Named(new["callsign"]) # {} /\ Rollback(r, "conflict")

\* db.refresh after the commit: the row may be gone by now.
Refresh(r) ==
  /\ pc[r] = "refresh"
  /\ Rollback(r, IF Exists(Target(r)) THEN "ok" ELSE "stale")

--------------------------------------------------------------------------------
(* Deleting a station or an incident.                                      *)

\* The vehicles of the location, loaded together with it ...
SelectVehicles(r) ==
  /\ pc[r] = "select_vehicles"
  /\ loaded' = [loaded EXCEPT ![r] = At(Target(r))]
  /\ UNCHANGED <<row, call, copy, locked>>
  /\ Continue(r, IF call[r].handler = "delete_location" THEN "detach" ELSE "select_assigned")

\* ... and once more by _detach_vehicles.
SelectAssigned(r) ==
  /\ pc[r] = "select_assigned"
  /\ loaded' = [loaded EXCEPT ![r] = @ \cup At(Target(r))]
  /\ UNCHANGED <<row, call, copy, locked>>
  /\ Continue(r, "detach")

\* UPDATE vehicle SET location_id = NULL WHERE id = ..., for each of them.  Several
\* go in one executemany, of which not every driver counts the rows.
Detach(r) ==
  /\ pc[r] = "detach"
  /\ \A v \in loaded[r] : ~ Locked(v, r)
  /\ LET there == {v \in loaded[r] : Exists(v)}
     IN \/ /\ there = loaded[r] \/ Cardinality(loaded[r]) > 1
           /\ locked' = [locked EXCEPT ![r] = there]
           /\ UNCHANGED <<row, call, copy, loaded>>
           /\ Continue(r, "delete")
        \/ there # loaded[r] /\ Rollback(r, "stale")

\* (variant) The vehicles found are not detached.
DeleteAttached(r) ==
  /\ pc[r] = "delete"
  /\ row' = [row EXCEPT ![Target(r)] = None]
  /\ Answer(r, "ok")

\* The DELETE of the location, its foreign key check, and the commit.
Delete(r) ==
  /\ pc[r] = "delete"
  /\ LET left == At(Target(r)) \ locked[r]
     IN \/ /\ left = {}
           /\ row' = [x \in Ids |->
                IF x = Target(r) THEN None
                ELSE IF x \in locked[r] THEN [row[x] EXCEPT !["location"] = None]
                ELSE row[x]]
           /\ Answer(r, "ok")
        \/ left # {} /\ Rollback(r, "conflict")

--------------------------------------------------------------------------------
(* Handlers that are one statement, and the end of a request.              *)

CreateLocation(l) ==
  /\ Fresh(l)
  /\ \E active \in BOOLEAN :
       row' = [row EXCEPT ![l] = [c \in LocationColumns |->
                                   IF c = "active" THEN active ELSE Default]]
  /\ UNCHANGED <<pc, call, copy, loaded, locked, outcome>>
  /\ Observe

\* delete_vehicle, whose check-ins are the matter of CheckIn.
DeleteVehicle(v) ==
  /\ Exists(v)
  /\ \A r \in Requests : v \notin locked[r]
  /\ row' = [row EXCEPT ![v] = None]
  /\ UNCHANGED <<pc, call, copy, loaded, locked, outcome>>
  /\ Observe

\* The client has its answer, or the request is lost before its commit.
End(r) ==
  /\ pc[r] # "idle"
  /\ Goto(r, "idle")
  /\ call' = [call EXCEPT ![r] = None]
  /\ copy' = [copy EXCEPT ![r] = None]
  /\ loaded' = [loaded EXCEPT ![r] = {}]
  /\ locked' = [locked EXCEPT ![r] = {}]
  /\ outcome' = [outcome EXCEPT ![r] = None]
  /\ UNCHANGED row
  /\ Observe

--------------------------------------------------------------------------------
Statement(r) ==
  \/ Invalid(r) \/ Load(r) \/ CheckCallsign(r) \/ CheckLocation(r)
  \/ Update(r) \/ OutOfBounds(r) \/ Insert(r) \/ Refresh(r)
  \/ SelectVehicles(r) \/ SelectAssigned(r) \/ Detach(r) \/ Delete(r)

Next ==
  \/ \E r \in Requests : Begin(r) \/ Statement(r) \/ End(r)
  \/ \E l \in Locations : CreateLocation(l)
  \/ \E v \in Vehicles : DeleteVehicle(v)

Spec == Init /\ [][Next]_vars

--------------------------------------------------------------------------------
(* Properties.                                                             *)

\* What the schema promises the handlers: a call sign names one vehicle, and a
\* vehicle is at no location that is gone.
FleetConsistent ==
  /\ \A v, w \in Vehicles :
       Exists(v) /\ Exists(w) /\ row[v]["callsign"] = row[w]["callsign"] => v = w
  /\ \A v \in Vehicles : Exists(v) => row[v]["location"] = None \/ Exists(row[v]["location"])

\* No request undoes what another has written to a column it does not set itself:
\* a status change survives the positions, assignments and edits that loaded the
\* vehicle before it.  Only the deletion of a location sets another column, the
\* location of vehicles it found there, to NULL.
MaySet(r, x, c) ==
  /\ pc'[r] # pc[r]
  /\ \/ Target(r) = x /\ Sets(r, c) /\ row'[x][c] = call[r].values[c]
     \/ /\ call[r].handler \in Deletes
        /\ c = "location" /\ x \in loaded[r] /\ row'[x][c] = None

OnlyNamedColumns ==
  [][\A x \in Ids : Exists(x) /\ Exists(x)' =>
       \A c \in DOMAIN row[x] : row'[x][c] # row[x][c] =>
         \E r \in Requests : pc[r] \in {"update", "delete"} /\ MaySet(r, x, c)]_vars

\* A successful answer is true: each column the call sets had that value at some
\* moment of the request, also where the handler found nothing to write; and a
\* deleted location is gone and nobody is there.
AnswersWereTrue ==
  \A r \in Requests : outcome[r] = "ok" =>
    IF call[r].handler \in Deletes
    THEN ~ Exists(Target(r)) /\ At(Target(r)) = {}
    ELSE DOMAIN call[r].values \subseteq held[r]

Sites == {l \in Locations : Exists(l)}
CardOf(v) == [callsign |-> row[v]["callsign"], at |-> row[v]["location"]]
Cards == {CardOf(v) : v \in {w \in Vehicles : Exists(w)}}
Board == INSTANCE AssignmentBoard WITH sites <- Sites, board <- Cards

\* All the handlers together, statement by statement and by primary key, keep one
\* board of call signs and places: each commit is one step of AssignmentBoard, and a
\* request that fails, or changes another column, is none.
ImplementsBoard == Board!Spec

--------------------------------------------------------------------------------
(* What comments of the code say, and the code does not do.                *)

\* admin/locations.py:29: "Vehicles at a deleted location go back to 'unterwegs'",
\* and no others.
DetachedWereThere ==
  [][\A r \in Requests :
       pc[r] = "delete" /\ pc'[r] = "done" /\ call[r].handler = "admin_delete_location" =>
       \A v \in Vehicles : Exists(v) /\ Exists(v)' /\ row'[v] # row[v] =>
         row[v]["location"] = Target(r)]_vars
================================================================================
