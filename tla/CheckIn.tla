-------------------------------- MODULE CheckIn --------------------------------
(***************************************************************************)
(* The crew check-in: the tables vehicle, app_user and vehicle_checkin of   *)
(* app/models.py, and every handler that reads or writes vehicle_checkin    *)
(* (app/routers/misc.py, vehicles.py, admin/vehicles_users.py).             *)
(*                                                                         *)
(* A handler is a request that runs statement by statement in one database  *)
(* transaction (app/db.py, READ COMMITTED): between two of its awaits any   *)
(* other request may run and commit.  The variables vehicles, accounts and  *)
(* checkins are the COMMITTED tables; deleted[r] is what the open           *)
(* transaction of r has deleted and keeps locked.  The last statement of a  *)
(* handler and its commit are one step: nothing another request could see   *)
(* happens between them.                                                   *)
(***************************************************************************)
EXTENDS FiniteSets

CONSTANTS
  Users,     \* user names
  Admins,    \* those whose role is ADMIN
  Vehicles,  \* vehicle ids, existing or not
  Requests,  \* the requests in progress at one time
  RowIds,    \* primary keys of vehicle_checkin.  All they do is tell apart the
             \* successive check-ins of one user on one vehicle; a key is used
             \* again once nothing refers to it (the sequence never repeats one)
  Handlers,  \* the handlers clients call
  None

AllHandlers ==
  {"check_in", "check_out", "patch_position", "delete_vehicle", "delete_user"}

ASSUME ConstantsAssumption ==
  /\ Admins \subseteq Users
  /\ Handlers \subseteq AllHandlers
  /\ Users \cap Vehicles = {}
  /\ None \notin Users \cup Vehicles

VARIABLES
  vehicles,  \* ids of the vehicle rows
  accounts,  \* user names of the app_user rows
  checkins,  \* rows of vehicle_checkin
  pc,        \* the next statement of each request
  call,      \* the handler, its user and its path parameter
  loaded,    \* rows of vehicle_checkin a request has read
  deleted,   \* rows a request has deleted and not committed
  outcome,   \* the answer of a finished request
  witness    \* what was true of the tables at some moment of a request

store == <<vehicles, accounts, checkins>>
vars == <<vehicles, accounts, checkins, pc, call, loaded, deleted, outcome, witness>>

Rows == [id : RowIds, vehicle_id : Vehicles, username : Users]

\* vehicle_id or user_id of the path is the target of a call.
Targets(h) == IF h = "delete_user" THEN Users ELSE Vehicles

\* require_user and require_admin: the two deletions are for admins.
Callers(h) == IF h \in {"delete_vehicle", "delete_user"} THEN Admins ELSE Users

Calls == {c \in [handler : Handlers, username : Users, target : Users \cup Vehicles] :
            c.username \in Callers(c.handler) /\ c.target \in Targets(c.handler)}

Labels == {"idle", "load_vehicle", "load_checkin", "delete_checkin",
           "insert_checkin", "commit_checkin", "load_account", "select_rows",
           "delete_rows", "drop_vehicle", "check_references", "drop_account",
           "move_vehicle", "refresh_vehicle", "done"}

\* "missing" is 404 (204 for the API's delete), "refused" 403 or the flash that
\* refuses one's own account, "invalid" 400; the others are 500s: a constraint
\* (IntegrityError), a row that is gone when it is updated (StaleDataError) or
\* refreshed, the victim of a deadlock.
Outcomes ==
  {"ok", "missing", "refused", "invalid", "conflict", "stale", "deadlock"}

ASSUME NoneAssumption == None \notin Outcomes /\ None \notin Calls

RowsOf(u) == {c \in checkins : c.username = u}
RowsOn(v) == {c \in checkins : c.vehicle_id = v}
OwnRows(r) == RowsOf(call[r].username)

TypeOK ==
  /\ vehicles \subseteq Vehicles
  /\ accounts \subseteq Users
  /\ checkins \subseteq Rows
  /\ pc \in [Requests -> Labels]
  /\ call \in [Requests -> Calls \cup {None}]
  /\ loaded \in [Requests -> SUBSET Rows]
  /\ deleted \in [Requests -> SUBSET Rows]
  /\ outcome \in [Requests -> Outcomes \cup {None}]
  /\ witness \in [Requests -> SUBSET {"on", "off", "gone", "changed"}]

Init ==
  /\ vehicles = Vehicles
  /\ accounts = Users
  /\ checkins = {}
  /\ pc = [r \in Requests |-> "idle"]
  /\ call = [r \in Requests |-> None]
  /\ loaded = [r \in Requests |-> {}]
  /\ deleted = [r \in Requests |-> {}]
  /\ outcome = [r \in Requests |-> None]
  /\ witness = [r \in Requests |-> {}]

--------------------------------------------------------------------------------
(* The lock manager of the database.                                       *)

Lockers(R) == {s \in Requests : deleted[s] \cap R # {}}
Droppers(v) == {s \in Requests : pc[s] = "check_references" /\ call[s].target = v}
Inserters(u) == {s \in Requests : pc[s] = "commit_checkin" /\ call[s].username = u}

\* The requests whose transactions must end before the next statement of r can.
\* A DELETE waits for the rows it wants; an INSERT for whoever is deleting or
\* inserting a row of the same user name (unique index); the foreign key of the
\* inserted row, and an UPDATE or DELETE of a vehicle, for whoever is deleting
\* that vehicle; and the foreign key of a deleted vehicle for whoever is deleting
\* a row that refers to it.
Blockers(r) ==
  ( CASE pc[r] \in {"delete_checkin", "delete_rows"} -> Lockers(loaded[r])
      [] pc[r] = "insert_checkin" -> Lockers(OwnRows(r)) \cup Inserters(call[r].username)
      [] pc[r] \in {"commit_checkin", "drop_vehicle", "move_vehicle"} ->
            Droppers(call[r].target)
      [] pc[r] = "check_references" -> Lockers(RowsOn(call[r].target))
      [] OTHER -> {} ) \ {r}

\* A cycle of waiting requests: everyone in C waits for someone in C, and no
\* smaller part of C has that property.
Waiting(C) == \A x \in C : Blockers(x) \cap C # {}
Deadlocked(C) == Waiting(C) /\ \A D \in (SUBSET C) \ {{}, C} : ~ Waiting(D)

--------------------------------------------------------------------------------
(* The history variable: what was true at some moment of a request.        *)

\* The rows that decide how the call ends.
Concern(c) == CASE c.handler = "delete_vehicle" -> RowsOn(c.target)
                [] c.handler = "delete_user" -> RowsOf(c.target)
                [] OTHER -> RowsOf(c.username)

Facts(c) ==
  (IF \E x \in Concern(c) : c.target \in {x.vehicle_id, x.username}
     THEN {"on"} ELSE {"off"})
  \cup (IF c.target \in vehicles \cup accounts THEN {} ELSE {"gone"})

\* Another request, not r, has changed those rows.
ChangedByAnother(r) == pc'[r] = pc[r] /\ Concern(call[r])' # Concern(call[r])

Observe ==
  witness' = [r \in Requests |->
    IF call'[r] = None THEN {}
    ELSE witness[r] \cup Facts(call[r])'
         \cup (IF call[r] # None /\ ChangedByAnother(r) THEN {"changed"} ELSE {})]

--------------------------------------------------------------------------------
(* The steps of a request.                                                 *)

Goto(r, label) == pc' = [pc EXCEPT ![r] = label]

\* (variant) The transaction is left open, and its locks with it.
AnswerKeepingLocks(r, o) ==
  /\ Goto(r, "done")
  /\ outcome' = [outcome EXCEPT ![r] = o]
  /\ loaded' = [loaded EXCEPT ![r] = {}]
  /\ UNCHANGED <<call, deleted>>
  /\ Observe

\* The request is over: its transaction has ended and its locks are gone.
Answer(r, o) ==
  /\ Goto(r, "done")
  /\ outcome' = [outcome EXCEPT ![r] = o]
  /\ loaded' = [loaded EXCEPT ![r] = {}]
  /\ deleted' = [deleted EXCEPT ![r] = {}]
  /\ UNCHANGED call
  /\ Observe

\* The session of get_db closes without a commit: nothing of the request stays.
Rollback(r, o) == UNCHANGED store /\ Answer(r, o)

\* A statement that only reads, or that changes nothing others can see.
Continue(r, label) ==
  /\ Goto(r, label)
  /\ UNCHANGED <<store, call, outcome>>
  /\ Observe

FirstLabel(c) ==
  CASE c.handler = "check_out" -> "load_checkin"
    [] c.handler = "patch_position" /\ c.username \notin Admins -> "load_checkin"
    [] c.handler = "delete_user" -> "load_account"
    [] OTHER -> "load_vehicle"

\* load_user has found the account of the session's user name.
Begin(r) ==
  /\ pc[r] = "idle"
  /\ \E c \in Calls :
       /\ c.username \in accounts
       /\ call' = [call EXCEPT ![r] = c]
       /\ Goto(r, FirstLabel(c))
  /\ UNCHANGED <<store, loaded, deleted, outcome>>
  /\ Observe

--------------------------------------------------------------------------------
(* Variants: the same statements with one mistake each.  No specification   *)
(* uses them; they show that the properties below notice the mistake.       *)

\* patch_position accepts a check-in on any vehicle.
PatchSelectAnyVehicle(r) ==
  /\ pc[r] = "load_checkin"
  /\ call[r].handler = "patch_position"
  /\ \/ OwnRows(r) # {} /\ Continue(r, "load_vehicle") /\ UNCHANGED <<loaded, deleted>>
     \/ OwnRows(r) = {} /\ Rollback(r, "refused")

\* check_out does not look at the vehicle it is asked to leave.
CheckOutSelectAnyVehicle(r) ==
  /\ pc[r] = "load_checkin"
  /\ call[r].handler = "check_out"
  /\ loaded' = [loaded EXCEPT ![r] = OwnRows(r)]
  /\ Continue(r, "delete_checkin")
  /\ UNCHANGED deleted

\* check_in without the flush: the unit of work then inserts before it deletes.
CheckInDeleteAfterInsert(r) ==
  /\ pc[r] = "delete_checkin"
  /\ call[r].handler = "check_in"
  /\ Blockers(r) = {}
  /\ Continue(r, "insert_checkin")
  /\ UNCHANGED <<loaded, deleted>>

\* vehicle_id without its foreign key.
CheckReferencesNot(r) ==
  /\ pc[r] = "check_references"
  /\ vehicles' = vehicles \ {call[r].target}
  /\ checkins' = checkins \ deleted[r]
  /\ UNCHANGED accounts
  /\ Answer(r, "ok")

\* The vehicle and the user of the new row are swapped.
FreshRowsSwapped(r) ==
  {c \in [id : RowIds, vehicle_id : Users, username : Vehicles] :
     c.vehicle_id = call[r].username /\ c.username = call[r].target}

--------------------------------------------------------------------------------
(* The statements of the handlers.                                         *)

\* vehicle = await db.get(Vehicle, vehicle_id)
AfterVehicle == [h \in AllHandlers |->
  CASE h = "check_in" -> "load_checkin"
    [] h = "patch_position" -> "move_vehicle"
    [] OTHER -> "select_rows"]

LoadVehicle(r) ==
  /\ pc[r] = "load_vehicle"
  /\ \/ /\ call[r].target \in vehicles
        /\ Continue(r, AfterVehicle[call[r].handler])
        /\ UNCHANGED <<loaded, deleted>>
     \/ call[r].target \notin vehicles /\ Rollback(r, "missing")

\* existing = await db.scalar(select(VehicleCheckin).where(username == ...))
CheckInSelect(r) ==
  /\ pc[r] = "load_checkin"
  /\ call[r].handler = "check_in"
  /\ loaded' = [loaded EXCEPT ![r] = OwnRows(r)]
  /\ Continue(r, IF OwnRows(r) = {} THEN "insert_checkin" ELSE "delete_checkin")
  /\ UNCHANGED deleted

OnTarget(r) == \E c \in OwnRows(r) : c.vehicle_id = call[r].target

CheckOutSelect(r) ==
  /\ pc[r] = "load_checkin"
  /\ call[r].handler = "check_out"
  /\ \/ /\ OnTarget(r)
        /\ loaded' = [loaded EXCEPT ![r] = OwnRows(r)]
        /\ Continue(r, "delete_checkin")
        /\ UNCHANGED deleted
     \/ ~ OnTarget(r) /\ Rollback(r, "ok")

PatchSelect(r) ==
  /\ pc[r] = "load_checkin"
  /\ call[r].handler = "patch_position"
  /\ \/ OnTarget(r) /\ Continue(r, "load_vehicle") /\ UNCHANGED <<loaded, deleted>>
     \/ ~ OnTarget(r) /\ Rollback(r, "refused")

\* _require_bounds refuses a position outside Hamburg.
PatchOutOfBounds(r) ==
  /\ pc[r] = "load_vehicle"
  /\ call[r].handler = "patch_position"
  /\ Rollback(r, "invalid")

\* await db.delete(existing); await db.flush().  The row may be gone by now:
\* the DELETE then matches nothing, which the ORM only warns about.
CheckInDelete(r) ==
  /\ pc[r] = "delete_checkin"
  /\ call[r].handler = "check_in"
  /\ Blockers(r) = {}
  /\ deleted' = [deleted EXCEPT ![r] = loaded[r] \cap checkins]
  /\ Continue(r, "insert_checkin")
  /\ UNCHANGED loaded

CheckOutCommit(r) ==
  /\ pc[r] = "delete_checkin"
  /\ call[r].handler = "check_out"
  /\ Blockers(r) = {}
  /\ checkins' = checkins \ loaded[r]
  /\ UNCHANGED <<vehicles, accounts>>
  /\ Answer(r, "ok")

\* The INSERT of db.commit() reaches the unique index on username ...
CheckInInsert(r) ==
  /\ pc[r] = "insert_checkin"
  /\ Blockers(r) = {}
  /\ \/ /\ OwnRows(r) \subseteq deleted[r]
        /\ Continue(r, "commit_checkin")
        /\ UNCHANGED <<loaded, deleted>>
     \/ ~ (OwnRows(r) \subseteq deleted[r]) /\ Rollback(r, "conflict")

FreshRows(r) ==
  {c \in Rows : /\ c.vehicle_id = call[r].target
                /\ c.username = call[r].username
                /\ c \notin checkins
                /\ \A s \in Requests : c \notin loaded[s]}

\* ... and then the foreign key on vehicle_id.
CheckInCommit(r) ==
  /\ pc[r] = "commit_checkin"
  /\ Blockers(r) = {}
  /\ \/ /\ call[r].target \in vehicles
        /\ FreshRows(r) # {}
        /\ checkins' = (checkins \ deleted[r]) \cup {CHOOSE c \in FreshRows(r) : TRUE}
        /\ UNCHANGED <<vehicles, accounts>>
        /\ Answer(r, "ok")
     \/ call[r].target \notin vehicles /\ Rollback(r, "conflict")

\* user = await db.get(AppUser, user_id), and the refusal of one's own account.
LoadAccount(r) ==
  /\ pc[r] = "load_account"
  /\ \/ call[r].target \notin accounts /\ Rollback(r, "missing")
     \/ /\ call[r].target \in accounts
        /\ call[r].target = call[r].username
        /\ Rollback(r, "refused")
     \/ /\ call[r].target \in accounts \ {call[r].username}
        /\ Continue(r, "select_rows")
        /\ UNCHANGED <<loaded, deleted>>

\* db.execute(delete(VehicleCheckin).where(...)): the snapshot of the statement
\* fixes the rows it will delete ...
SelectRows(r) ==
  /\ pc[r] = "select_rows"
  /\ loaded' = [loaded EXCEPT ![r] =
       IF call[r].handler = "delete_user" THEN RowsOf(call[r].target)
                                          ELSE RowsOn(call[r].target)]
  /\ Continue(r, "delete_rows")
  /\ UNCHANGED deleted

\* ... and it waits for their locks; those deleted meanwhile are skipped.
DeleteRows(r) ==
  /\ pc[r] = "delete_rows"
  /\ Blockers(r) = {}
  /\ deleted' = [deleted EXCEPT ![r] = loaded[r] \cap checkins]
  /\ Continue(r, IF call[r].handler = "delete_user" THEN "drop_account"
                                                    ELSE "drop_vehicle")
  /\ UNCHANGED loaded

\* The DELETE of the vehicle.  When another request has dropped it there is
\* nothing left to delete and the handler commits all the same.
DropVehicle(r) ==
  /\ pc[r] = "drop_vehicle"
  /\ Blockers(r) = {}
  /\ \/ /\ call[r].target \in vehicles
        /\ Continue(r, "check_references")
        /\ UNCHANGED <<loaded, deleted>>
     \/ /\ call[r].target \notin vehicles
        /\ checkins' = checkins \ deleted[r]
        /\ UNCHANGED <<vehicles, accounts>>
        /\ Answer(r, "ok")

\* Its foreign key check sees the check-ins committed since the bulk DELETE.
CheckReferences(r) ==
  /\ pc[r] = "check_references"
  /\ LET left == RowsOn(call[r].target) \ deleted[r]
     IN \/ /\ left = {}
           /\ vehicles' = vehicles \ {call[r].target}
           /\ checkins' = checkins \ deleted[r]
           /\ UNCHANGED accounts
           /\ Answer(r, "ok")
        \/ /\ \E c \in left : Lockers({c}) = {}
           /\ Rollback(r, "conflict")

DropAccount(r) ==
  /\ pc[r] = "drop_account"
  /\ accounts' = accounts \ {call[r].target}
  /\ checkins' = checkins \ deleted[r]
  /\ UNCHANGED vehicles
  /\ Answer(r, "ok")

\* The UPDATE of patch_position, of columns nothing here depends on; zero rows
\* are an error here.
MoveVehicle(r) ==
  /\ pc[r] = "move_vehicle"
  /\ Blockers(r) = {}
  /\ \/ /\ call[r].target \in vehicles
        /\ Continue(r, "refresh_vehicle")
        /\ UNCHANGED <<loaded, deleted>>
     \/ call[r].target \notin vehicles /\ Rollback(r, "stale")

\* db.refresh(vehicle) in a new transaction: by now the vehicle may be gone, and
\* the answer is an error although the position was written.
RefreshVehicle(r) ==
  /\ pc[r] = "refresh_vehicle"
  /\ Rollback(r, IF call[r].target \in vehicles THEN "ok" ELSE "stale")

\* The database ends one transaction of a deadlock.
Deadlock(r) ==
  /\ \E C \in SUBSET Requests : r \in C /\ Deadlocked(C)
  /\ Rollback(r, "deadlock")

\* The client has its answer; or the connection or the process went away before
\* the commit, and there is none.
End(r) ==
  /\ pc[r] # "idle"
  /\ Goto(r, "idle")
  /\ call' = [call EXCEPT ![r] = None]
  /\ loaded' = [loaded EXCEPT ![r] = {}]
  /\ deleted' = [deleted EXCEPT ![r] = {}]
  /\ outcome' = [outcome EXCEPT ![r] = None]
  /\ UNCHANGED store
  /\ Observe

\* create_vehicle inserts a row under a new id: one no request knows.
CreateVehicle(v) ==
  /\ v \notin vehicles
  /\ \A r \in Requests : call[r] # None => call[r].target # v
  /\ \A r \in Requests : \A c \in loaded[r] : c.vehicle_id # v
  /\ vehicles' = vehicles \cup {v}
  /\ UNCHANGED <<accounts, checkins, pc, call, loaded, deleted, outcome>>
  /\ Observe

\* create_user: a name that was deleted may be given again.
CreateUser(u) ==
  /\ u \notin accounts
  /\ accounts' = accounts \cup {u}
  /\ UNCHANGED <<vehicles, checkins, pc, call, loaded, deleted, outcome>>
  /\ Observe

--------------------------------------------------------------------------------
Statement(r) ==
  \/ LoadVehicle(r) \/ CheckInSelect(r) \/ CheckOutSelect(r) \/ PatchSelect(r)
  \/ PatchOutOfBounds(r)
  \/ CheckInDelete(r) \/ CheckOutCommit(r) \/ CheckInInsert(r) \/ CheckInCommit(r)
  \/ LoadAccount(r) \/ SelectRows(r) \/ DeleteRows(r) \/ DropVehicle(r)
  \/ CheckReferences(r) \/ DropAccount(r) \/ MoveVehicle(r)
  \/ RefreshVehicle(r)

Next ==
  \/ \E r \in Requests : Begin(r) \/ Statement(r) \/ Deadlock(r) \/ End(r)
  \/ \E v \in Vehicles : CreateVehicle(v)
  \/ \E u \in Users : CreateUser(u)

Spec == Init /\ [][Next]_vars

\* The server goes on with a request whose statement can run; the lock manager
\* queues the waiting, so that a lock that is free again and again is granted;
\* and it looks for deadlocks once a wait takes longer than deadlock_timeout.
Fairness ==
  \A r \in Requests : SF_vars(Statement(r)) /\ WF_vars(Deadlock(r))

FairSpec == Spec /\ Fairness

--------------------------------------------------------------------------------
(* Properties.                                                             *)

\* The committed check-ins are what the schema promises the handlers: one row
\* for a user name, and a row for no vehicle that is gone.
StoreConsistent ==
  /\ \A c, d \in checkins : c.username = d.username => c = d
  /\ \A c \in checkins : c.vehicle_id \in vehicles

\* An answer was true at some moment between the request and the answer.  A 201
\* means the user was on that vehicle; a 204 of check_out that the user was not,
\* or that another request changed the user's check-in meanwhile; a position was
\* written, or refused, to somebody who was, or was not, on the vehicle; and a
\* deletion leaves neither the vehicle nor the account behind, nor a check-in of
\* the account that nobody made meanwhile.
AnswersWereTrue ==
  \A r \in Requests : pc[r] = "done" =>
    LET c == call[r]
        saw(F) == F \cap witness[r] # {}
    IN /\ outcome[r] = "missing" => saw({"gone"})
       /\ outcome[r] = "refused" =>
            IF c.handler = "delete_user" THEN c.target = c.username ELSE saw({"off"})
       /\ outcome[r] = "ok" =>
            /\ c.handler = "check_in" => saw({"on"})
            /\ c.handler = "check_out" => saw({"off", "changed"})
            /\ c.handler = "patch_position" => c.username \in Admins \/ saw({"on"})
            /\ c.handler = "delete_vehicle" => saw({"gone"})
            /\ c.handler = "delete_user" => saw({"gone"}) /\ saw({"off", "changed"})

\* No handler fails on its own: a constraint is violated only when another
\* request changed the check-ins the handler had read, or deleted the vehicle,
\* under it; only check_in and delete_vehicle ever hold one lock and want
\* another; and check_out and delete_user always succeed.
FailuresAreRaces ==
  \A r \in Requests :
    /\ outcome[r] = "conflict" =>
         \/ call[r].handler = "check_in" /\ witness[r] \cap {"changed", "gone"} # {}
         \/ call[r].handler = "delete_vehicle" /\ "changed" \in witness[r]
    /\ outcome[r] = "stale" => call[r].handler = "patch_position" /\ "gone" \in witness[r]
    /\ outcome[r] = "deadlock" => call[r].handler \in {"check_in", "delete_vehicle"}

\* Nobody loses a check-in but by a request that says so and succeeds: their own
\* check-in, which puts them somewhere else in the same step, their own check-out
\* of that very vehicle, or an admin who deletes the vehicle or the account.
MayRemove(r, c) ==
  /\ pc[r] # "done" /\ pc'[r] = "done" /\ outcome'[r] = "ok"
  /\ \/ /\ call[r].handler = "check_in"
        /\ call[r].username = c.username
        /\ \E d \in checkins' : d.username = c.username /\ d.vehicle_id = call[r].target
     \/ /\ call[r].handler = "check_out"
        /\ call[r].username = c.username
        /\ call[r].target = c.vehicle_id
     \/ call[r].handler = "delete_vehicle" /\ call[r].target = c.vehicle_id
     \/ call[r].handler = "delete_user" /\ call[r].target = c.username

OnlyNamedRemovals ==
  [][\A c \in checkins \ checkins' : \E r \in Requests : MayRemove(r, c)]_vars

\* The whole check-in, statement by statement and with every rollback, is the
\* register of CheckInRegister: each commit is one atomic step of it, and a
\* request that fails is none.
Crew == [u \in Users |-> IF RowsOf(u) = {} THEN None
                         ELSE (CHOOSE c \in checkins : c.username = u).vehicle_id]

Register == INSTANCE CheckInRegister WITH fleet <- vehicles, crew <- Crew
ImplementsRegister == Register!Spec

\* Every request is answered, unless it is lost: waiting for a lock ends, by a
\* grant or as the victim of a deadlock.
EveryRequestAnswered == \A r \in Requests : pc[r] # "idle" ~> pc[r] \in {"idle", "done"}
================================================================================
