-------------------------------- MODULE Accounts --------------------------------
(***************************************************************************)
(* The accounts: what admins do to them on the page of users               *)
(* (app/routers/admin/vehicles_users.py), an operator does on the command   *)
(* line (app/cli.py), and a start with APP_PROFILE=dev does by itself       *)
(* (app/seed.py).                                                          *)
(*                                                                         *)
(* Each looks first and writes later, in one transaction that ends with     *)
(* that write, and the others may commit in between.  As in Fleet the ORM   *)
(* writes the attributes that were assigned, to the primary key it loaded.  *)
(* The check-ins delete_user deletes too are in CheckIn, and the sessions   *)
(* of an account in Sessions.                                              *)
(***************************************************************************)
EXTENDS FiniteSets

CONSTANTS
  Ids,       \* primary keys; one is used again when no request knows it
  Names,     \* user names
  Passwords,
  Requests,  \* requests, commands and starts in progress at one time
  None

Roles == {"ADMIN", "VIEWER"}
SeedNames == {"admin", "viewer"}
Callsigns == {"seed", "other"}  \* the vehicles of the seed, and all others

ASSUME ConstantsAssumption ==
  /\ SeedNames \subseteq Names
  /\ SeedNames \subseteq Passwords
  /\ None \notin Ids \cup Names

VARIABLES
  row,       \* the table app_user
  vehicles,  \* the call signs in the table vehicle
  pc,        \* the next statement of each request
  call,      \* its handler, the admin whose session it is, and its arguments
  copy,      \* the account as it has loaded it
  absent,    \* what a start has found missing
  outcome    \* its answer, when it has ended and until the next begins

vars == <<row, vehicles, pc, call, copy, absent, outcome>>

Accounts == [username : Names, password : Passwords, role : Roles, enabled : BOOLEAN]

\* A row, a record, is never None.
ASSUME NoneAssumption == None \notin Accounts

Clicks == {"toggle_user", "delete_user"}
Creations == {"create_user", "cli_create_user"}
Calls ==
  [handler : Clicks \cup Creations \cup {"set_password", "seed"},
   by : Ids \cup {None}, target : Ids \cup {None}, username : Names \cup {None},
   password : Passwords \cup {None}, role : Roles \cup {"other", None}]

\* Statements; a start looks for the admin, the viewer and the vehicles in turn.
LooksFor == [admin |-> "viewer", viewer |-> "vehicles", vehicles |-> "seed"]
Labels == {"idle", "load", "find", "write", "seed"} \cup DOMAIN LooksFor
Outcomes == {"ok", "missing", "own", "exists", "invalid", "conflict", "stale"}

TypeOK ==
  /\ row \in [Ids -> Accounts \cup {None}]
  /\ vehicles \subseteq Callsigns
  /\ pc \in [Requests -> Labels]
  /\ call \in [Requests -> Calls \cup {None}]
  /\ copy \in [Requests -> Accounts \cup {None}]
  /\ absent \in [Requests -> SUBSET DOMAIN LooksFor]
  /\ outcome \in [Requests -> Outcomes \cup {None}]

Init ==
  /\ row = [x \in Ids |-> None]
  /\ vehicles = {}
  /\ pc = [r \in Requests |-> "idle"]
  /\ call = [r \in Requests |-> None]
  /\ copy = [r \in Requests |-> None]
  /\ absent = [r \in Requests |-> {}]
  /\ outcome = [r \in Requests |-> None]

Exists(x) == row[x] # None
Named(n) == {x \in Ids : Exists(x) /\ row[x].username = n}
Administrators == {x \in Ids : Exists(x) /\ row[x].enabled /\ row[x].role = "ADMIN"}

\* A new primary key: no row has it and no request knows it.
Fresh(x) ==
  /\ ~ Exists(x)
  /\ \A r \in Requests : pc[r] # "idle" => x \notin {call[r].target, call[r].by}

Goto(r, label) == pc' = [pc EXCEPT ![r] = label]

\* The transaction ends.
Answer(r, o) ==
  /\ Goto(r, "idle")
  /\ outcome' = [outcome EXCEPT ![r] = o]
  /\ call' = [call EXCEPT ![r] = None]
  /\ copy' = [copy EXCEPT ![r] = None]
  /\ absent' = [absent EXCEPT ![r] = {}]

Fail(r, o) == Answer(r, o) /\ UNCHANGED <<row, vehicles>>

--------------------------------------------------------------------------------
(* Requests, commands and starts.                                          *)

\* What may be asked.  The user name of a click is that of the admin; which of
\* them creates an account makes no difference.
ClicksOf(h) ==
  UNION {[handler : {h}, by : {a}, target : Ids, username : {row[a].username},
          password : {None}, role : {None}] : a \in Administrators}

Entries(h, names, passwords, roles) ==
  [handler : {h}, by : {None}, target : {None}, username : names, password : passwords,
   role : roles]

CallsOf(h) ==
  CASE h \in Clicks -> ClicksOf(h)
    [] h \in Creations -> Entries(h, Names, Passwords, Roles \cup {"other"})
    [] h = "set_password" -> Entries(h, Names, Passwords, {None})
    [] OTHER -> Entries(h, {None}, {None}, {None})

\* A request is let in by load_user and require_admin: somebody else's is refused
\* and changes nothing.
Begin(r) ==
  /\ pc[r] = "idle"
  /\ \E h \in Clicks \cup Creations \cup {"set_password", "seed"} :
       /\ h = "create_user" => Administrators # {}
       /\ \E c \in CallsOf(h) : call' = [call EXCEPT ![r] = c]
       /\ Goto(r, CASE h \in Clicks -> "load" [] h = "seed" -> "admin" [] OTHER -> "find")
  /\ outcome' = [outcome EXCEPT ![r] = None]
  /\ UNCHANGED <<row, vehicles, copy, absent>>

OthersChangeVehicles ==
  /\ vehicles' \in SUBSET Callsigns \ {vehicles}
  /\ UNCHANGED <<row, pc, call, copy, absent, outcome>>

--------------------------------------------------------------------------------
(* Clicks.                                                                 *)

\* (variant) Admins may disable or delete themselves.
LoadUserUnchecked(r) ==
  /\ pc[r] = "load"
  /\ LET x == call[r].target
     IN \/ ~ Exists(x) /\ Fail(r, "missing")
        \/ /\ Exists(x)
           /\ Goto(r, "write")
           /\ copy' = [copy EXCEPT ![r] = row[x]]
           /\ UNCHANGED <<row, vehicles, call, absent, outcome>>

\* db.get and the check of the user name.  The admin's own row has been loaded.
LoadUser(r) ==
  /\ pc[r] = "load"
  /\ LET x == call[r].target
         own == x = call[r].by \/ (Exists(x) /\ row[x].username = call[r].username)
     IN \/ own /\ Fail(r, "own")
        \/ ~ own /\ ~ Exists(x) /\ Fail(r, "missing")
        \/ /\ ~ own /\ Exists(x)
           /\ Goto(r, "write")
           /\ copy' = [copy EXCEPT ![r] = row[x]]
           /\ UNCHANGED <<row, vehicles, call, absent, outcome>>

\* (variant) The whole row is written back.
ToggleWhole(r) ==
  /\ pc[r] = "write" /\ call[r].handler = "toggle_user"
  /\ IF Exists(call[r].target)
     THEN /\ row' = [row EXCEPT ![call[r].target] = [copy[r] EXCEPT !.enabled = ~ @]]
          /\ UNCHANGED vehicles
          /\ Answer(r, "ok")
     ELSE Fail(r, "stale")

\* (variant) The database negates what it has, the answer what was loaded.
ToggleInPlace(r) ==
  /\ pc[r] = "write" /\ call[r].handler = "toggle_user"
  /\ IF Exists(call[r].target)
     THEN /\ row' = [row EXCEPT ![call[r].target].enabled = ~ @]
          /\ UNCHANGED vehicles
          /\ Answer(r, "ok")
     ELSE Fail(r, "stale")

\* The negation of the loaded value; no row to update is an error.
Toggle(r) ==
  /\ pc[r] = "write" /\ call[r].handler = "toggle_user"
  /\ \/ /\ Exists(call[r].target)
        /\ row' = [row EXCEPT ![call[r].target].enabled = ~ copy[r].enabled]
        /\ UNCHANGED vehicles
        /\ Answer(r, "ok")
     \/ ~ Exists(call[r].target) /\ Fail(r, "stale")

\* No row to delete is none.
DeleteUser(r) ==
  /\ pc[r] = "write" /\ call[r].handler = "delete_user"
  /\ row' = [row EXCEPT ![call[r].target] = None]
  /\ UNCHANGED vehicles
  /\ Answer(r, "ok")

--------------------------------------------------------------------------------
(* Creations, commands and starts.                                         *)

\* (variant) The role is taken as it was given.
RoleAsGiven(c) == c.role

\* The page gives an unknown role the rights of a viewer, the command refuses it.
RoleOf(c) == IF c.role \in Roles THEN c.role ELSE "VIEWER"

\* Is the name taken?  set_password goes on with the row it finds.
Find(r) ==
  /\ pc[r] = "find"
  /\ LET c == call[r]
     IN \/ c.handler = "cli_create_user" /\ c.role \notin Roles /\ Fail(r, "invalid")
        \/ /\ c.handler \in Creations /\ Named(c.username) # {}
           /\ c.handler = "create_user" \/ c.role \in Roles
           /\ Fail(r, "exists")
        \/ /\ c.handler \in Creations /\ Named(c.username) = {}
           /\ c.handler = "create_user" \/ c.role \in Roles
           /\ Goto(r, "write")
           /\ UNCHANGED <<row, vehicles, call, copy, absent, outcome>>
        \/ /\ c.handler = "set_password" /\ Named(c.username) = {}
           /\ Fail(r, "missing")
        \/ /\ c.handler = "set_password"
           /\ \E x \in Named(c.username) : call' = [call EXCEPT ![r].target = x]
           /\ Goto(r, "write")
           /\ UNCHANGED <<row, vehicles, copy, absent, outcome>>

\* (variant) username without its unique index.
TakenNever(n) == FALSE

\* The unique index.
Taken(n) == Named(n) # {}

CreateUser(r) ==
  /\ pc[r] = "write" /\ call[r].handler \in Creations
  /\ LET c == call[r]
     IN \/ Taken(c.username) /\ Fail(r, "conflict")
        \/ /\ ~ Taken(c.username)
           /\ \E x \in Ids :
                /\ Fresh(x)
                /\ row' = [row EXCEPT ![x] = [username |-> c.username, password |-> c.password,
                                              role |-> RoleOf(c), enabled |-> TRUE]]
           /\ UNCHANGED vehicles
           /\ Answer(r, "ok")

SetPassword(r) ==
  /\ pc[r] = "write" /\ call[r].handler = "set_password"
  /\ \/ /\ Exists(call[r].target)
        /\ row' = [row EXCEPT ![call[r].target].password = call[r].password]
        /\ UNCHANGED vehicles
        /\ Answer(r, "ok")
     \/ ~ Exists(call[r].target) /\ Fail(r, "stale")

\* The three lookups of seed_dev_data.
Look(r) ==
  /\ pc[r] \in DOMAIN LooksFor
  /\ LET found == IF pc[r] = "vehicles" THEN vehicles # {} ELSE Named(pc[r]) # {}
     IN absent' = [absent EXCEPT ![r] = IF found THEN @ ELSE @ \cup {pc[r]}]
  /\ Goto(r, LooksFor[pc[r]])
  /\ UNCHANGED <<row, vehicles, call, copy, outcome>>

SeedAccount(n) ==
  [username |-> n, password |-> n, role |-> IF n = "admin" THEN "ADMIN" ELSE "VIEWER",
   enabled |-> TRUE]

\* All that was missing in one transaction, or the start fails.
Seed(r) ==
  /\ pc[r] = "seed"
  /\ LET new == absent[r] \cap SeedNames
         clash == (\E n \in new : Taken(n)) \/ ("vehicles" \in absent[r] /\ "seed" \in vehicles)
     IN \/ clash /\ Fail(r, "conflict")
        \/ /\ ~ clash
           /\ \E id \in [new -> Ids] :
                /\ \A n \in new : Fresh(id[n])
                /\ \A n, o \in new : id[n] = id[o] => n = o
                /\ row' = [x \in Ids |-> IF \E n \in new : id[n] = x
                                         THEN SeedAccount(CHOOSE n \in new : id[n] = x)
                                         ELSE row[x]]
           /\ vehicles' = vehicles \cup (IF "vehicles" \in absent[r] THEN {"seed"} ELSE {})
           /\ Answer(r, "ok")

--------------------------------------------------------------------------------
Step(r) ==
  \/ LoadUser(r) \/ Toggle(r) \/ DeleteUser(r)
  \/ Find(r) \/ CreateUser(r) \/ SetPassword(r)
  \/ Look(r) \/ Seed(r)

Next == (\E r \in Requests : Begin(r) \/ Step(r)) \/ OthersChangeVehicles

Spec == Init /\ [][Next]_vars

--------------------------------------------------------------------------------
(* Properties.                                                             *)

\* A user name, which is all a session and a check-in keep of an account, never
\* stands for two of them, whoever creates it at the same time.
NamesAreUnique ==
  \A x, y \in Ids : Exists(x) /\ Exists(y) /\ row[x].username = row[y].username => x = y

\* Somebody can always administer the accounts: the last enabled admin never goes
\* by a click of somebody who still is one.  (Two admins who disable each other at
\* the same time can leave nobody: then the second was disabled already.)
LastAdminStays ==
  [][Administrators # {} /\ Administrators' = {} =>
       \E r \in Requests :
         /\ pc[r] = "write" /\ pc'[r] = "idle"
         /\ call[r].handler \in Clicks /\ call[r].by \notin Administrators]_vars

\* No request changes more of an account than it is there for, whatever the others
\* have changed since it looked: a click leaves a password that has been set, a
\* password leaves the account disabled, and a start leaves all there is.
MayChange(r, x) ==
  /\ pc[r] = "write" /\ pc'[r] = "idle" /\ call[r].target = x
  /\ \/ call[r].handler = "delete_user" /\ row'[x] = None
     \/ /\ call[r].handler = "toggle_user"
        /\ row'[x] = [row[x] EXCEPT !.enabled = ~ @]
     \/ /\ call[r].handler = "set_password"
        /\ row[x].username = call[r].username
        /\ row'[x] = [row[x] EXCEPT !.password = call[r].password]

OnlyNamedChanges ==
  [][\A x \in Ids : Exists(x) /\ row'[x] # row[x] => \E r \in Requests : MayChange(r, x)]_vars

\* An answer is true when it is given: the account is there with its password, is
\* gone, or has the state that the message names, or the reason to refuse holds.
TrueAnswer(r) ==
  LET c == call[r]
      x == call[r].target
  IN /\ outcome'[r] = "ok" =>
          CASE c.handler \in Creations \cup {"set_password"} ->
                 \E y \in Ids : /\ row'[y] # None
                                /\ row'[y].username = c.username
                                /\ row'[y].password = c.password
            [] c.handler = "toggle_user" -> row'[x].enabled = ~ copy[r].enabled
            [] c.handler = "delete_user" -> row'[x] = None
            [] c.handler = "seed" -> \A n \in absent[r] \cap SeedNames : Named(n)' # {}
     /\ outcome'[r] \in {"exists", "conflict"} /\ c.handler \in Creations =>
          Named(c.username) # {}
     /\ outcome'[r] = "missing" => IF x = None THEN Named(c.username) = {} ELSE ~ Exists(x)
     /\ outcome'[r] = "own" => (Exists(x) => row[x].username = c.username)

AnswersAreTrue ==
  [][\A r \in Requests : pc[r] # "idle" /\ pc'[r] = "idle" => TrueAnswer(r)]_vars

Registered == {row[x] : x \in {y \in Ids : Exists(y)}}
Register == INSTANCE AccountRegister WITH accounts <- Registered

\* The page, the command line and the starts together, statement by statement and
\* by primary key, are the register of names of AccountRegister.
ImplementsRegister == Register!Spec
================================================================================
