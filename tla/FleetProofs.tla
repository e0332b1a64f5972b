------------------------------- MODULE FleetProofs -------------------------------
(***************************************************************************)
(* Proofs about Fleet for all vehicles, locations, requests and handlers.   *)
(*                                                                         *)
(* FleetConsistent needs more to be inductive: that a deletion detaches     *)
(* rows that are there (LocksHold), that an INSERT meets no row of its key  *)
(* (KeysReserved), and which handlers a label belongs to (Labelled).        *)
(* Step says once what a step of any request has to show, WriteRow and      *)
(* DeleteTables what a written or a removed row leaves of the tables; the   *)
(* actions follow from these.                                              *)
(*                                                                         *)
(* What the answers say needs AllTold in addition: what a request has found *)
(* set, or has written, was set at some time since it was sent.             *)
(*                                                                         *)
(* The last part maps each commit to a step of AssignmentBoard. OneCard is  *)
(* the key: a change of one vehicle is a change of one card, since no other *)
(* vehicle has its call sign.                                              *)
(***************************************************************************)
EXTENDS Fleet, TLAPS

Creating(r) == pc[r] \in {"check_callsign", "insert"} /\ call[r].handler = "create_vehicle"

\* The handlers a label belongs to.
HandlersAt(label) ==
  CASE label = "load" -> AllHandlers \ {"create_vehicle"}
    [] label = "check_callsign" -> {"create_vehicle", "update_vehicle", "edit_vehicle"}
    [] label = "check_location" -> {"update_location"}
    [] label = "update" -> Updates
    [] label = "insert" -> {"create_vehicle"}
    [] label \in {"select_vehicles", "select_assigned", "detach", "delete"} -> Deletes
    [] OTHER -> AllHandlers

Labelled ==
  \A r \in Requests : pc[r] # "idle" =>
    call[r] \in Calls /\ call[r].handler \in HandlersAt(pc[r])

\* What a deletion has detached it has found before, and its lock keeps the rows.
LocksHold ==
  \A r \in Requests : \A v \in locked[r] : pc[r] = "delete" /\ v \in loaded[r] /\ Exists(v)

\* The key of a vehicle that is being created is nobody else's.
KeysReserved ==
  \A r \in Requests : Creating(r) =>
    /\ ~ Exists(Target(r))
    /\ \A o \in Requests \ {r} : Creating(o) => Target(o) # Target(r)

IInv == TypeOK /\ Labelled /\ LocksHold /\ KeysReserved /\ FleetConsistent

Columns == VehicleColumns \cup LocationColumns
HeldOK == held' \in [Requests -> SUBSET Columns]

--------------------------------------------------------------------------------
(* Typing.                                                                 *)

LEMMA ColumnsOfCalls ==
  ASSUME NEW c \in Calls
  PROVE  /\ c.handler \in AllHandlers
         /\ c.target \in Ids
         /\ c.target \in Targets(c.handler)
         /\ DOMAIN c.values \in ColumnSets(c.handler)
         /\ DOMAIN c.values \subseteq Columns
         /\ \A k \in DOMAIN c.values : c.values[k] \in ColumnRange(k)
<1>1. c.handler \in AllHandlers /\ c.target \in Targets(c.handler)
      /\ DOMAIN c.values \in ColumnSets(c.handler) /\ c.target \in Ids
  BY DEF Calls
<1>2. \A C \in ColumnSets(c.handler) : C \subseteq Columns
  BY <1>1 DEF ColumnSets, Columns, VehicleColumns, LocationColumns, AllHandlers, Updates,
              Deletes
<1>3. PICK C : c.values \in Assignments(C) BY DEF Calls
<1> QED BY <1>1, <1>2, <1>3 DEF Assignments

LEMMA ObserveType ==
  ASSUME TypeOK, Observe
  PROVE  HeldOK
<1>1. ASSUME NEW r \in Requests
      PROVE  (IF pc'[r] = "idle" THEN {}
              ELSE held[r] \cup Holding(row'[call'[r].target], call'[r])) \in SUBSET Columns
  BY DEF TypeOK, Holding, Columns
<1> QED BY <1>1 DEF Observe, HeldOK

--------------------------------------------------------------------------------
(* Steps by what they change.                                              *)

TablesOK ==
  /\ row \in [Ids -> VehicleRows \cup LocationRows \cup {None}]
  /\ \A x \in Ids : Exists(x) => row[x] \in RowsFor(x)
  /\ FleetConsistent

\* Any step of a request: what it has to show of the tables and of its own state.
RequestsTyped ==
  /\ pc \in [Requests -> Labels]
  /\ call \in [Requests -> Calls \cup {None}]
  /\ copy \in [Requests -> VehicleRows \cup LocationRows \cup {None}]
  /\ loaded \in [Requests -> SUBSET Vehicles]
  /\ locked \in [Requests -> SUBSET Vehicles]
  /\ outcome \in [Requests -> Outcomes \cup {None}]

OnlyStepOf(r) ==
  \A o \in Requests \ {r} : /\ pc'[o] = pc[o] /\ call'[o] = call[o]
                            /\ loaded'[o] = loaded[o] /\ locked'[o] = locked[o]

LEMMA Step ==
  ASSUME IInv, HeldOK, TablesOK', RequestsTyped', NEW r \in Requests, OnlyStepOf(r),
         pc'[r] # "idle" => call'[r] \in Calls /\ call'[r].handler \in HandlersAt(pc'[r]),
         \A v \in locked'[r] : pc'[r] = "delete" /\ v \in loaded'[r] /\ Exists(v)',
         Creating(r)' => /\ row'[Target(r)'] = None
                         /\ \A o \in Requests \ {r} : Creating(o) => Target(o) # Target(r)',
         \A o \in Requests \ {r} :
           /\ \A v \in locked[o] : Exists(v)'
           /\ Creating(o) => row'[Target(o)] = None
  PROVE  IInv'
<1>1. TypeOK' BY DEF IInv, TypeOK, HeldOK, TablesOK, RequestsTyped, Exists, Columns
<1>2. Labelled' BY DEF IInv, Labelled, OnlyStepOf
<1>3. LocksHold' BY DEF IInv, LocksHold, Exists, OnlyStepOf
<1>4. KeysReserved' BY DEF IInv, KeysReserved, Exists, Creating, Target, OnlyStepOf
<1>5. FleetConsistent' BY DEF TablesOK
<1> QED BY <1>1, <1>2, <1>3, <1>4, <1>5 DEF IInv

LEMMA TablesUnchanged ==
  ASSUME IInv, UNCHANGED row
  PROVE  /\ TablesOK'
         /\ \A o \in Requests : /\ \A v \in locked[o] : Exists(v)'
                                /\ Creating(o) => row'[Target(o)] = None
<1>1. TablesOK' BY DEF IInv, TypeOK, TablesOK, FleetConsistent, Exists
<1>2. \A o \in Requests : \A v \in locked[o] : Exists(v)'
  BY DEF IInv, LocksHold, Exists
<1>3. \A o \in Requests : Creating(o) => row'[Target(o)] = None
  BY DEF IInv, KeysReserved, Exists
<1> QED BY <1>1, <1>2, <1>3

\* A new or changed row.
LEMMA WriteRow ==
  ASSUME IInv, NEW x \in Ids, NEW new \in RowsFor(x), row' = [row EXCEPT ![x] = new],
         x \in Vehicles => /\ Named(new["callsign"]) \ {x} = {}
                           /\ new["location"] = None \/ Exists(new["location"])
  PROVE  /\ TablesOK'
         /\ \A y \in Ids : Exists(y) => Exists(y)'
         /\ \A y \in Ids \ {x} : row'[y] = row[y]
<1>1. new \in VehicleRows \cup LocationRows BY DEF RowsFor
<1>2. new # None BY <1>1, NoneAssumption
<1>3. /\ row' \in [Ids -> VehicleRows \cup LocationRows \cup {None}]
      /\ row'[x] = new /\ Exists(x)'
      /\ \A y \in Ids \ {x} : row'[y] = row[y]
  BY <1>1, <1>2 DEF IInv, TypeOK, Exists
<1>4. \A y \in Ids : Exists(y) => Exists(y)' BY <1>3 DEF Exists
<1>5. \A y \in Ids : Exists(y)' => row'[y] \in RowsFor(y)
  BY <1>3 DEF IInv, TypeOK, Exists
<1>6. \A v, w \in Vehicles :
        Exists(v)' /\ Exists(w)' /\ row'[v]["callsign"] = row'[w]["callsign"] => v = w
  BY <1>3 DEF IInv, FleetConsistent, Exists, Named, Ids
<1>7. ASSUME NEW v \in Vehicles, Exists(v)'
      PROVE  (row[v]["location"] = None \/ Exists(row[v]["location"]))'
  <2>1. row'[v] \in VehicleRows BY <1>5, <1>7 DEF RowsFor, Ids
  <2>2. row'[v]["location"] \in Locations \cup {None}
    BY <2>1 DEF VehicleRows, Assignments, VehicleColumns, ColumnRange
  <2>3. row'[v]["location"] = None \/ Exists(row'[v]["location"])
    BY <1>3, <1>7 DEF IInv, FleetConsistent, Exists, Ids
  <2>4. row'[v]["location"] = None \/ row'[row'[v]["location"]] # None
    BY <1>4, <2>2, <2>3 DEF Ids, Exists
  <2> QED BY <2>4 DEF Exists
<1> QED BY <1>3, <1>4, <1>5, <1>6, <1>7 DEF TablesOK, FleetConsistent

\* A request that ends without a commit.
LEMMA RollbackStep ==
  ASSUME IInv, HeldOK, NEW r \in Requests, pc[r] # "idle", NEW o \in Outcomes, Rollback(r, o)
  PROVE  IInv'
<1> USE DEF Rollback, Answer, Goto
<1>1. call[r] \in Calls /\ call[r].handler \in HandlersAt("done")
  BY ColumnsOfCalls DEF IInv, Labelled, HandlersAt
<1>2. RequestsTyped' BY DEF IInv, TypeOK, RequestsTyped, Labels
<1>3. OnlyStepOf(r) BY DEF IInv, TypeOK, OnlyStepOf
<1>4. pc'[r] = "done" /\ call'[r] = call[r] /\ locked'[r] = {} BY DEF IInv, TypeOK
<1>5. ~ Creating(r)' BY <1>4 DEF Creating
<1>6. UNCHANGED row OBVIOUS
<1> QED BY <1>1, <1>2, <1>3, <1>4, <1>5, <1>6, TablesUnchanged, Step

\* A statement that reads: it goes on to another label.
LEMMA ReadStep ==
  ASSUME IInv, HeldOK, NEW r \in Requests, pc[r] \notin {"idle", "delete"},
         NEW label \in Labels \ {"idle", "delete", "check_callsign"}, Goto(r, label),
         NEW c \in Calls, call' = [call EXCEPT ![r] = c],
         c.handler \in HandlersAt(label),
         label = "insert" => c = call[r] /\ Creating(r),
         UNCHANGED <<row, outcome, locked>>,
         copy' \in [Requests -> VehicleRows \cup LocationRows \cup {None}],
         NEW L \in SUBSET Vehicles, loaded' = [loaded EXCEPT ![r] = L]
  PROVE  IInv'
<1> USE DEF Goto
<1>1. locked'[r] = {} BY DEF IInv, LocksHold
<1>2. RequestsTyped' BY DEF IInv, TypeOK, RequestsTyped
<1>3. OnlyStepOf(r) BY DEF IInv, TypeOK, OnlyStepOf
<1>4. pc'[r] = label /\ call'[r] = c BY DEF IInv, TypeOK
<1>5. Creating(r)' => /\ row'[Target(r)'] = None
                      /\ \A o \in Requests \ {r} : Creating(o) => Target(o) # Target(r)'
  BY <1>4 DEF Creating, IInv, KeysReserved, Target, Exists
<1> QED BY <1>1, <1>2, <1>3, <1>4, <1>5, TablesUnchanged, Step

\* The last statement of a transaction, once what it wrote is known to be right.
LEMMA CommitStep ==
  ASSUME IInv, HeldOK, NEW r \in Requests, pc[r] \in {"update", "insert"}, Committed(r),
         TablesOK', \A y \in Ids : Exists(y) => Exists(y)',
         \A o \in Requests \ {r} : Creating(o) => row'[Target(o)] = None
  PROVE  IInv'
<1> USE DEF Committed, Continue, Answer, Goto
<1>1. locked[r] = {} BY DEF IInv, LocksHold
<1>2. pc' = [pc EXCEPT ![r] = "refresh"] \/ pc' = [pc EXCEPT ![r] = "done"] OBVIOUS
<1>3. RequestsTyped' BY DEF IInv, TypeOK, RequestsTyped, Labels, Outcomes
<1>4. OnlyStepOf(r) BY DEF IInv, TypeOK, OnlyStepOf
<1>5. pc'[r] \in {"refresh", "done"} /\ call'[r] = call[r] /\ locked'[r] = {}
  BY <1>1, <1>2 DEF IInv, TypeOK
<1>6. call[r] \in Calls /\ call[r].handler \in HandlersAt("refresh")
      /\ call[r].handler \in HandlersAt("done")
  BY ColumnsOfCalls DEF IInv, Labelled, HandlersAt
<1>7. ~ Creating(r)' BY <1>5 DEF Creating
<1>8. \A o \in Requests : \A v \in locked[o] : Exists(v)'
  BY DEF IInv, TypeOK, LocksHold, Ids
<1> QED BY <1>3, <1>4, <1>5, <1>6, <1>7, <1>8, Step

--------------------------------------------------------------------------------
(* The actions.                                                            *)

LEMMA BeginStep ==
  ASSUME IInv, HeldOK, NEW r \in Requests, Begin(r)
  PROVE  IInv'
<1>1. PICK h \in Handlers : \E x \in Targets(h), C \in ColumnSets(h) :
        \E f \in Assignments(C) :
          /\ h = "create_vehicle" => Fresh(x)
          /\ call' = [call EXCEPT ![r] = [handler |-> h, target |-> x, values |-> f]]
          /\ Continue(r, IF h = "create_vehicle" THEN "check_callsign" ELSE "load")
  BY DEF Begin
<1>2. PICK x \in Targets(h), C \in ColumnSets(h) :
        \E f \in Assignments(C) :
          /\ h = "create_vehicle" => Fresh(x)
          /\ call' = [call EXCEPT ![r] = [handler |-> h, target |-> x, values |-> f]]
          /\ Continue(r, IF h = "create_vehicle" THEN "check_callsign" ELSE "load")
  BY <1>1
<1>3. PICK f \in Assignments(C) :
          /\ h = "create_vehicle" => Fresh(x)
          /\ call' = [call EXCEPT ![r] = [handler |-> h, target |-> x, values |-> f]]
          /\ Continue(r, IF h = "create_vehicle" THEN "check_callsign" ELSE "load")
  BY <1>2
<1> DEFINE c == [handler |-> h, target |-> x, values |-> f]
           label == IF h = "create_vehicle" THEN "check_callsign" ELSE "load"
<1>4. c \in Calls
  <2>1. h \in AllHandlers BY ConstantsAssumption
  <2>2. x \in Ids BY DEF Targets, Ids
  <2>3. DOMAIN f = C BY DEF Assignments
  <2>4. f \in UNION {Assignments(D) : D \in UNION {ColumnSets(k) : k \in AllHandlers}}
    BY <2>1
  <2> QED BY <2>1, <2>2, <2>3, <2>4 DEF Calls
<1>5. label \in Labels /\ c.handler \in HandlersAt(label)
  BY ConstantsAssumption DEF Labels, HandlersAt
<1>6. /\ pc[r] = "idle" /\ UNCHANGED <<row, copy, loaded, locked, outcome>>
      /\ pc' = [pc EXCEPT ![r] = label]
      /\ call' = [call EXCEPT ![r] = c]
  BY <1>3 DEF Begin, Continue, Goto
<1> HIDE DEF c, label
<1>7. RequestsTyped' BY <1>4, <1>5, <1>6 DEF IInv, TypeOK, RequestsTyped
<1>8. OnlyStepOf(r) BY <1>6 DEF IInv, TypeOK, OnlyStepOf
<1>9. pc'[r] = label /\ call'[r] = c /\ locked'[r] = {}
  BY <1>6 DEF IInv, TypeOK, LocksHold
<1>10. Creating(r)' => /\ row'[Target(r)'] = None
                       /\ \A o \in Requests \ {r} : Creating(o) => Target(o) # Target(r)'
  <2>1. SUFFICES ASSUME Creating(r)' PROVE Fresh(x) /\ Target(r)' = x /\ UNCHANGED row
    BY DEF Fresh, Creating, Exists
  <2>2. c.handler = h /\ c.target = x BY DEF c
  <2> QED BY <1>3, <1>6, <1>9, <2>1, <2>2 DEF Creating, Target
<1> QED BY <1>4, <1>5, <1>6, <1>7, <1>8, <1>9, <1>10, TablesUnchanged, Step

LEMMA EndStep ==
  ASSUME IInv, HeldOK, NEW r \in Requests, End(r)
  PROVE  IInv'
<1> USE DEF End, Goto
<1>1. RequestsTyped' BY DEF IInv, TypeOK, RequestsTyped, Labels
<1>2. OnlyStepOf(r) BY DEF IInv, TypeOK, OnlyStepOf
<1>3. pc'[r] = "idle" /\ locked'[r] = {} BY DEF IInv, TypeOK
<1>4. ~ Creating(r)' BY <1>3 DEF Creating
<1>5. UNCHANGED row OBVIOUS
<1> QED BY <1>1, <1>2, <1>3, <1>4, <1>5, TablesUnchanged, Step

LEMMA LoadStep ==
  ASSUME IInv, HeldOK, NEW r \in Requests, Load(r)
  PROVE  IInv'
<1>1. pc[r] = "load" /\ call[r] \in Calls /\ call[r].handler \in HandlersAt("load")
  BY DEF Load, IInv, Labelled
<1>2. call[r].handler \in AllHandlers \ {"create_vehicle"} /\ Target(r) \in Ids
  BY <1>1, ColumnsOfCalls DEF HandlersAt, Target
<1>3. CASE ~ Exists(Target(r))
  <2>1. \E o \in Outcomes : Rollback(r, o)
    BY <1>1, <1>3 DEF Load, Outcomes
  <2> QED BY <1>1, <2>1, RollbackStep
<1>4. CASE Exists(Target(r))
  <2> DEFINE old == row[Target(r)]
             c == IF call[r].handler = "toggle"
                  THEN [call[r] EXCEPT !.values["active"] = ~ old["active"]] ELSE call[r]
             label == AfterLoad[call[r].handler]
  <2>1. old \in RowsFor(Target(r)) BY <1>2, <1>4 DEF IInv, TypeOK
  <2>2. c \in Calls
    <3>1. CASE call[r].handler # "toggle" BY <1>1, <3>1
    <3>2. CASE call[r].handler = "toggle"
      <4>1. Target(r) \in Locations BY <1>1, <3>2, ColumnsOfCalls DEF Target, Targets
      <4>2. old \in LocationRows BY <2>1, <4>1, ConstantsAssumption DEF RowsFor
      <4>3. (~ old["active"]) \in BOOLEAN
        BY <4>2 DEF LocationRows, LocationColumns, Assignments, ColumnRange
      <4>4. DOMAIN call[r].values = {"active"}
        BY <1>1, <3>2, ColumnsOfCalls DEF ColumnSets
      <4>5. [call[r].values EXCEPT !["active"] = ~ old["active"]] \in Assignments({"active"})
        BY <1>1, <4>3, <4>4 DEF Assignments, ColumnRange, AllValues, Calls
      <4>6. {"active"} \in ColumnSets("toggle") /\ "toggle" \in AllHandlers
        BY DEF ColumnSets, AllHandlers, Updates
      <4> QED BY <1>1, <3>2, <4>4, <4>5, <4>6 DEF Calls
    <3> QED BY <3>1, <3>2
  <2>3. c.handler = call[r].handler BY <1>1 DEF Calls
  <2>4. /\ copy' \in {copy, [copy EXCEPT ![r] = old]}
        /\ call' = [call EXCEPT ![r] = c]
        /\ UNCHANGED <<row, outcome, loaded, locked>>
        /\ Goto(r, label)
    BY <1>4 DEF Load, Rollback, Continue, IInv, TypeOK
  <2>5. copy' \in [Requests -> VehicleRows \cup LocationRows \cup {None}]
    BY <2>1, <2>4 DEF IInv, TypeOK, RowsFor
  <2> HIDE DEF c
  <2>6. CASE label = "check_callsign"
    <3>1. c.handler \in {"update_vehicle", "edit_vehicle"} BY <1>2, <2>3, <2>6 DEF AfterLoad
    <3> USE DEF Goto
    <3>2. RequestsTyped' BY <2>2, <2>4, <2>5, <2>6 DEF IInv, TypeOK, RequestsTyped, Labels
    <3>3. OnlyStepOf(r) BY <2>4 DEF IInv, TypeOK, OnlyStepOf
    <3>4. pc'[r] = "check_callsign" /\ call'[r] = c /\ locked'[r] = {}
      BY <1>1, <2>4, <2>6 DEF IInv, TypeOK, LocksHold
    <3>5. ~ Creating(r)' BY <3>1, <3>4 DEF Creating
    <3>6. c.handler \in HandlersAt("check_callsign") BY <3>1 DEF HandlersAt
    <3> QED BY <2>2, <2>4, <3>2, <3>3, <3>4, <3>5, <3>6, TablesUnchanged, Step
  <2>7. CASE label # "check_callsign"
    <3>1. /\ label \in {"check_location", "select_vehicles", "update"}
          /\ c.handler \in HandlersAt(label)
      BY <1>2, <2>3, <2>7 DEF AfterLoad, HandlersAt, AllHandlers, Updates, Deletes
    <3>2. loaded' = [loaded EXCEPT ![r] = loaded[r]] /\ loaded[r] \in SUBSET Vehicles
      BY <2>4 DEF IInv, TypeOK
    <3> QED BY <1>1, <2>2, <2>4, <2>5, <3>1, <3>2, ReadStep DEF Labels
  <2> QED BY <2>6, <2>7
<1> QED BY <1>3, <1>4

\* Reading and going on, with nothing changed.
LEMMA PassStep ==
  ASSUME IInv, HeldOK, NEW r \in Requests, pc[r] \notin {"idle", "delete"},
         NEW label \in Labels \ {"idle", "delete", "check_callsign"}, Continue(r, label),
         call[r].handler \in HandlersAt(label), label = "insert" => Creating(r),
         UNCHANGED <<row, call, copy, locked>>,
         NEW L \in SUBSET Vehicles, loaded' = [loaded EXCEPT ![r] = L]
  PROVE  IInv'
<1>1. call[r] \in Calls BY DEF IInv, Labelled
<1>2. call' = [call EXCEPT ![r] = call[r]] BY DEF IInv, TypeOK
<1>3. copy' \in [Requests -> VehicleRows \cup LocationRows \cup {None}] BY DEF IInv, TypeOK
<1>4. Goto(r, label) /\ UNCHANGED outcome BY DEF Continue
<1> QED BY <1>1, <1>2, <1>3, <1>4, ReadStep

LEMMA CheckCallsignStep ==
  ASSUME IInv, HeldOK, NEW r \in Requests, CheckCallsign(r)
  PROVE  IInv'
<1> DEFINE taken == Named(call[r].values["callsign"]) \ {Target(r)}
           label == IF call[r].handler = "create_vehicle" THEN "insert" ELSE "update"
<1>1. pc[r] = "check_callsign" /\ call[r].handler \in HandlersAt("check_callsign")
  BY DEF CheckCallsign, IInv, Labelled
<1>2. CASE taken = {}
  <2>1. /\ call[r].handler \in HandlersAt(label)
        /\ label \in Labels \ {"idle", "delete", "check_callsign"}
        /\ label = "insert" => Creating(r)
    BY <1>1 DEF HandlersAt, Updates, Labels, Creating
  <2>2. Continue(r, label) /\ UNCHANGED <<row, call, copy, locked, loaded>>
    BY <1>2 DEF CheckCallsign
  <2>3. loaded' = [loaded EXCEPT ![r] = loaded[r]] /\ loaded[r] \in SUBSET Vehicles
    BY <2>2 DEF IInv, TypeOK
  <2> QED BY <1>1, <2>1, <2>2, <2>3, PassStep
<1>3. CASE taken # {}
  <2>1. Rollback(r, "invalid") BY <1>3 DEF CheckCallsign
  <2> QED BY <1>1, <2>1, RollbackStep DEF Outcomes
<1> QED BY <1>2, <1>3

LEMMA CheckLocationStep ==
  ASSUME IInv, HeldOK, NEW r \in Requests, CheckLocation(r)
  PROVE  IInv'
<1>1. pc[r] = "check_location" /\ call[r].handler \in HandlersAt("check_location")
  BY DEF CheckLocation, IInv, Labelled
<1>2. CASE Rollback(r, "invalid") BY <1>1, <1>2, RollbackStep DEF Outcomes
<1>3. CASE Continue(r, "update") /\ UNCHANGED <<row, call, copy, loaded, locked>>
  <2>1. call[r].handler \in HandlersAt("update") BY <1>1 DEF HandlersAt, Updates
  <2>2. loaded' = [loaded EXCEPT ![r] = loaded[r]] /\ loaded[r] \in SUBSET Vehicles
    BY <1>3 DEF IInv, TypeOK
  <2> QED BY <1>1, <1>3, <2>1, <2>2, PassStep DEF Labels
<1> QED BY <1>2, <1>3 DEF CheckLocation

\* The UPDATE leaves a row of the same table, and violates nothing.
LEMMA UpdateTables ==
  ASSUME IInv, NEW r \in Requests, call[r] \in Calls, Exists(Target(r)), ~ Violates(r),
         row' = [row EXCEPT ![Target(r)] =
           [c \in DOMAIN @ |-> IF c \in Changed(r) THEN call[r].values[c] ELSE @[c]]]
  PROVE  /\ TablesOK'
         /\ \A y \in Ids : Exists(y) => Exists(y)'
         /\ \A y \in Ids \ {Target(r)} : row'[y] = row[y]
<1> DEFINE x == Target(r)
           new == [c \in DOMAIN row[x] |->
                     IF c \in Changed(r) THEN call[r].values[c] ELSE row[x][c]]
<1>1. x \in Ids BY ColumnsOfCalls DEF Target
<1>2. \A c \in Changed(r) : call[r].values[c] \in ColumnRange(c)
  BY ColumnsOfCalls DEF Changed
<1>3. row[x] \in RowsFor(x) BY <1>1 DEF IInv, TypeOK
<1>4. \A c : ColumnRange(c) \subseteq AllValues BY DEF ColumnRange, AllValues
<1>5. new \in RowsFor(x)
  <2>1. PICK C : row[x] \in Assignments(C) /\ RowsFor(x) = Assignments(C)
    BY <1>3 DEF RowsFor, VehicleRows, LocationRows
  <2>2. new \in Assignments(C) BY <1>2, <1>4, <2>1 DEF Assignments
  <2> QED BY <2>1, <2>2
<1>6. row' = [row EXCEPT ![x] = new] OBVIOUS
<1>7. ASSUME x \in Vehicles
      PROVE  /\ Named(new["callsign"]) \ {x} = {}
             /\ new["location"] = None \/ Exists(new["location"])
  <2>1. {"callsign", "location"} \subseteq DOMAIN row[x]
    BY <1>3, <1>7 DEF RowsFor, VehicleRows, Assignments, VehicleColumns
  <2>2. Named(new["callsign"]) \ {x} = {}
    <3>1. CASE "callsign" \in Changed(r) BY <2>1, <3>1 DEF Violates
    <3>2. CASE "callsign" \notin Changed(r)
      <4>1. new["callsign"] = row[x]["callsign"] BY <2>1, <3>2
      <4> QED BY <1>7, <4>1 DEF IInv, FleetConsistent, Named
    <3> QED BY <3>1, <3>2
  <2>3. new["location"] = None \/ Exists(new["location"])
    <3>1. CASE "location" \in Changed(r) BY <2>1, <3>1 DEF Violates
    <3>2. CASE "location" \notin Changed(r)
      <4>1. new["location"] = row[x]["location"] BY <2>1, <3>2
      <4> QED BY <1>7, <4>1 DEF IInv, FleetConsistent
    <3> QED BY <3>1, <3>2
  <2> QED BY <2>2, <2>3
<1> HIDE DEF new
<1> QED BY <1>1, <1>5, <1>6, <1>7, WriteRow

LEMMA UpdateStep ==
  ASSUME IInv, HeldOK, NEW r \in Requests, Update(r)
  PROVE  IInv'
<1>1. pc[r] = "update" /\ call[r] \in Calls BY DEF Update, IInv, Labelled
<1>2. CASE \E o \in {"conflict", "stale"} : Rollback(r, o)
  BY <1>1, <1>2, RollbackStep DEF Outcomes
<1>3. CASE UNCHANGED row /\ Committed(r)
  <2>1. \A y \in Ids : Exists(y) => Exists(y)' BY <1>3 DEF Exists
  <2> QED BY <1>1, <1>3, <2>1, TablesUnchanged, CommitStep
<1>4. CASE /\ Exists(Target(r)) /\ ~ Violates(r)
           /\ row' = [row EXCEPT ![Target(r)] =
                [c \in DOMAIN @ |-> IF c \in Changed(r) THEN call[r].values[c] ELSE @[c]]]
           /\ Committed(r)
  <2>1. \A o \in Requests \ {r} : Creating(o) =>
          /\ Target(o) \in Ids
          /\ row[Target(o)] = None
          /\ Target(o) # Target(r)
    BY <1>4, ColumnsOfCalls DEF IInv, Labelled, KeysReserved, Creating, Target, Exists
  <2>2. \A o \in Requests \ {r} : Creating(o) => row'[Target(o)] = None
    BY <1>1, <1>4, <2>1, UpdateTables
  <2> QED BY <1>1, <1>4, <2>2, UpdateTables, CommitStep
<1> QED BY <1>2, <1>3, <1>4 DEF Update

LEMMA InsertStep ==
  ASSUME IInv, HeldOK, NEW r \in Requests, Insert(r)
  PROVE  IInv'
<1> DEFINE new == [c \in VehicleColumns |->
                     CASE c = "position" -> Default
                       [] c = "location" -> None
                       [] OTHER -> call[r].values[c]]
<1>1. /\ pc[r] = "insert" /\ call[r] \in Calls /\ call[r].handler = "create_vehicle"
      /\ Creating(r)
  BY DEF Insert, IInv, Labelled, HandlersAt, Creating
<1>2. Target(r) \in Vehicles /\ DOMAIN call[r].values = {"callsign", "status"}
      /\ \A k \in DOMAIN call[r].values : call[r].values[k] \in ColumnRange(k)
  BY <1>1, ColumnsOfCalls DEF Target, Targets, ColumnSets, Deletes
<1>3. CASE Rollback(r, "conflict") BY <1>1, <1>3, RollbackStep DEF Outcomes
<1>4. CASE /\ Named(new["callsign"]) = {}
           /\ row' = [row EXCEPT ![Target(r)] = new]
           /\ Committed(r)
  <2>1. new \in RowsFor(Target(r))
    <3>1. \A c \in VehicleColumns : new[c] \in ColumnRange(c) /\ new[c] \in AllValues
      BY <1>2, ConstantsAssumption DEF VehicleColumns, ColumnRange, AllValues
    <3> QED BY <1>2, <3>1 DEF RowsFor, VehicleRows, Assignments
  <2>2. new["location"] = None BY DEF VehicleColumns
  <2> HIDE DEF new
  <2>3. /\ TablesOK'
        /\ \A y \in Ids : Exists(y) => Exists(y)'
        /\ \A y \in Ids \ {Target(r)} : row'[y] = row[y]
    BY <1>2, <1>4, <2>1, <2>2, WriteRow DEF Ids
  <2>4. \A o \in Requests \ {r} : Creating(o) =>
          /\ Target(o) \in Ids
          /\ row[Target(o)] = None
          /\ Target(o) # Target(r)
    BY <1>1, ColumnsOfCalls DEF IInv, Labelled, KeysReserved, Creating, Target, Exists
  <2>5. \A o \in Requests \ {r} : Creating(o) => row'[Target(o)] = None
    BY <2>3, <2>4
  <2> QED BY <1>1, <1>4, <2>3, <2>5, CommitStep
<1> QED BY <1>3, <1>4 DEF Insert

LEMMA SelectStep ==
  ASSUME IInv, HeldOK, NEW r \in Requests, SelectVehicles(r) \/ SelectAssigned(r)
  PROVE  IInv'
<1> DEFINE L == IF pc[r] = "select_vehicles" THEN At(Target(r))
                ELSE loaded[r] \cup At(Target(r))
           label == IF pc[r] = "select_vehicles" /\ call[r].handler # "delete_location"
                    THEN "select_assigned" ELSE "detach"
<1>1. pc[r] \in {"select_vehicles", "select_assigned"} /\ call[r].handler \in Deletes
  BY DEF SelectVehicles, SelectAssigned, IInv, Labelled, HandlersAt
<1>2. L \in SUBSET Vehicles BY DEF IInv, TypeOK, At
<1>3. call[r].handler \in HandlersAt(label) /\ label \in Labels
  BY <1>1 DEF HandlersAt, Labels
<1>4. /\ Continue(r, label) /\ UNCHANGED <<row, call, copy, locked>>
      /\ loaded' = [loaded EXCEPT ![r] = L]
  BY DEF SelectVehicles, SelectAssigned
<1> QED BY <1>1, <1>2, <1>3, <1>4, PassStep

LEMMA DetachStep ==
  ASSUME IInv, HeldOK, NEW r \in Requests, Detach(r)
  PROVE  IInv'
<1>1. pc[r] = "detach" /\ call[r] \in Calls /\ call[r].handler \in Deletes
  BY DEF Detach, IInv, Labelled, HandlersAt
<1>2. CASE Rollback(r, "stale") BY <1>1, <1>2, RollbackStep DEF Outcomes
<1>3. CASE /\ locked' = [locked EXCEPT ![r] = {v \in loaded[r] : Exists(v)}]
           /\ Continue(r, "delete")
           /\ UNCHANGED <<row, call, copy, loaded>>
  <2> USE DEF Continue, Goto
  <2>1. RequestsTyped' BY <1>3 DEF IInv, TypeOK, RequestsTyped, Labels
  <2>2. OnlyStepOf(r) BY <1>3 DEF IInv, TypeOK, OnlyStepOf
  <2>3. /\ pc'[r] = "delete" /\ call'[r] = call[r] /\ loaded'[r] = loaded[r]
        /\ locked'[r] = {v \in loaded[r] : Exists(v)}
    BY <1>3 DEF IInv, TypeOK
  <2>4. \A v \in locked'[r] : v \in loaded'[r] /\ Exists(v)' BY <1>3, <2>3 DEF Exists
  <2>5. ~ Creating(r)' BY <2>3 DEF Creating
  <2>6. call[r].handler \in HandlersAt("delete") BY <1>1 DEF HandlersAt
  <2> QED BY <1>1, <1>3, <2>1, <2>2, <2>3, <2>4, <2>5, <2>6, TablesUnchanged, Step
<1> QED BY <1>2, <1>3 DEF Detach

\* Removing a location nobody is left at, with others sent on the road.
LEMMA DeleteTables ==
  ASSUME IInv, NEW r \in Requests, NEW l \in Locations, At(l) \ locked[r] = {},
         row' = [x \in Ids |-> IF x = l THEN None
                               ELSE IF x \in locked[r] THEN [row[x] EXCEPT !["location"] = None]
                               ELSE row[x]]
  PROVE  /\ TablesOK'
         /\ \A v \in Vehicles : Exists(v) => Exists(v)'
         /\ \A x \in Ids : row[x] = None => row'[x] = None
<1>1. \A v \in locked[r] : v \in Vehicles /\ Exists(v) /\ row[v] \in VehicleRows /\ v # l
  BY ConstantsAssumption DEF IInv, TypeOK, LocksHold, RowsFor, Ids
<1>2. \A v \in locked[r] : /\ row'[v] \in VehicleRows
                           /\ row'[v]["location"] = None
                           /\ row'[v]["callsign"] = row[v]["callsign"]
  BY <1>1 DEF VehicleRows, Assignments, VehicleColumns, ColumnRange, AllValues, Ids
<1>3. \A x \in Ids \ (locked[r] \cup {l}) : row'[x] = row[x] OBVIOUS
<1>4. row'[l] = None BY <1>1 DEF Ids
<1>5. \A v \in Vehicles : v # l BY ConstantsAssumption
<1>6. \A v \in Vehicles : Exists(v)' <=> Exists(v)
  BY <1>1, <1>2, <1>3, <1>5, NoneAssumption DEF Exists, Ids
<1>7. \A v \in Vehicles : Exists(v) =>
        /\ row'[v]["callsign"] = row[v]["callsign"]
        /\ row'[v]["location"] \in {None, row[v]["location"]}
        /\ row'[v]["location"] # l \/ l = None
  BY <1>2, <1>3, <1>5 DEF Ids, At
<1>8. TablesOK'
  <2>1. row' \in [Ids -> VehicleRows \cup LocationRows \cup {None}]
    BY <1>2 DEF IInv, TypeOK
  <2>2. \A x \in Ids : Exists(x)' => row'[x] \in RowsFor(x)
    BY <1>1, <1>2, <1>3, <1>4 DEF IInv, TypeOK, RowsFor, Exists
  <2>3. \A v, w \in Vehicles :
          Exists(v)' /\ Exists(w)' /\ row'[v]["callsign"] = row'[w]["callsign"] => v = w
    BY <1>6, <1>7 DEF IInv, FleetConsistent
  <2>4. ASSUME NEW v \in Vehicles, Exists(v)'
        PROVE  (row[v]["location"] = None \/ Exists(row[v]["location"]))'
    <3>1. row[v]["location"] = None \/ Exists(row[v]["location"])
      BY <1>6, <2>4 DEF IInv, FleetConsistent
    <3>2. row[v]["location"] \in Locations \cup {None}
      <4>1. row[v] \in VehicleRows BY <1>6, <2>4 DEF IInv, TypeOK, RowsFor, Ids
      <4> QED BY <4>1 DEF VehicleRows, Assignments, VehicleColumns, ColumnRange
    <3>3. CASE row'[v]["location"] # None
      <4>1. row'[v]["location"] = row[v]["location"] /\ row[v]["location"] \in Locations
            /\ row[v]["location"] # l /\ Exists(row[v]["location"])
        BY <1>6, <1>7, <2>4, <3>1, <3>2, <3>3, ConstantsAssumption
      <4>2. row[v]["location"] \in Ids \ (locked[r] \cup {l})
        BY <1>1, <4>1, ConstantsAssumption DEF Ids
      <4> QED BY <1>3, <4>1, <4>2 DEF Exists
    <3> QED BY <3>3
  <2> QED BY <2>1, <2>2, <2>3, <2>4 DEF TablesOK, FleetConsistent
<1>9. \A x \in Ids : row[x] = None => row'[x] = None
  BY <1>1, <1>3, <1>4 DEF Exists
<1> QED BY <1>6, <1>8, <1>9

LEMMA DeleteStep ==
  ASSUME IInv, HeldOK, NEW r \in Requests, Delete(r)
  PROVE  IInv'
<1>1. pc[r] = "delete" /\ call[r] \in Calls /\ call[r].handler \in Deletes
  BY DEF Delete, IInv, Labelled, HandlersAt
<1>2. Target(r) \in Locations BY <1>1, ColumnsOfCalls DEF Target, Targets
<1>3. CASE Rollback(r, "conflict") BY <1>1, <1>3, RollbackStep DEF Outcomes
<1>4. CASE /\ At(Target(r)) \ locked[r] = {}
           /\ row' = [x \in Ids |->
                IF x = Target(r) THEN None
                ELSE IF x \in locked[r] THEN [row[x] EXCEPT !["location"] = None]
                ELSE row[x]]
           /\ Answer(r, "ok")
  <2> USE DEF Answer, Goto
  <2>1. /\ TablesOK'
        /\ \A v \in Vehicles : Exists(v) => Exists(v)'
        /\ \A x \in Ids : row[x] = None => row'[x] = None
    BY <1>2, <1>4, DeleteTables
  <2>2. RequestsTyped' BY <1>4 DEF IInv, TypeOK, RequestsTyped, Labels, Outcomes
  <2>3. OnlyStepOf(r) BY <1>4 DEF IInv, TypeOK, OnlyStepOf
  <2>4. pc'[r] = "done" /\ call'[r] = call[r] /\ locked'[r] = {}
    BY <1>4 DEF IInv, TypeOK
  <2>5. ~ Creating(r)' BY <2>4 DEF Creating
  <2>6. call[r].handler \in HandlersAt("done") BY <1>1, ColumnsOfCalls DEF HandlersAt
  <2>7. \A o \in Requests : \A v \in locked[o] : Exists(v)'
    BY <2>1 DEF IInv, TypeOK, LocksHold
  <2>8. \A o \in Requests : Creating(o) => row'[Target(o)] = None
    BY <2>1, ColumnsOfCalls DEF IInv, Labelled, KeysReserved, Creating, Target, Exists
  <2> QED BY <1>1, <2>1, <2>2, <2>3, <2>4, <2>5, <2>6, <2>7, <2>8, Step
<1> QED BY <1>3, <1>4 DEF Delete

\* A step outside the requests.
LEMMA OutsideStep ==
  ASSUME IInv, HeldOK, TablesOK', UNCHANGED <<pc, call, copy, loaded, locked, outcome>>,
         \A o \in Requests : \A v \in locked[o] : Exists(v)',
         \A o \in Requests : Creating(o) => row'[Target(o)] = None
  PROVE  IInv'
<1>1. TypeOK' BY DEF IInv, TypeOK, HeldOK, TablesOK, Exists, Columns
<1>2. Labelled' BY DEF IInv, Labelled
<1>3. LocksHold' BY DEF IInv, LocksHold, Exists
<1>4. KeysReserved' BY DEF IInv, KeysReserved, Creating, Target, Exists
<1> QED BY <1>1, <1>2, <1>3, <1>4 DEF IInv, TablesOK

LEMMA CreateLocationStep ==
  ASSUME IInv, HeldOK, NEW l \in Locations, CreateLocation(l)
  PROVE  IInv'
<1>1. PICK active \in BOOLEAN :
        row' = [row EXCEPT ![l] = [c \in LocationColumns |->
                                     IF c = "active" THEN active ELSE Default]]
  BY DEF CreateLocation
<1> DEFINE new == [c \in LocationColumns |-> IF c = "active" THEN active ELSE Default]
<1>2. l \in Ids /\ l \notin Vehicles BY ConstantsAssumption DEF Ids
<1>3. new \in RowsFor(l)
  <2>1. \A c \in LocationColumns : new[c] \in ColumnRange(c) /\ new[c] \in AllValues
    BY ConstantsAssumption DEF LocationColumns, ColumnRange, AllValues
  <2> QED BY <1>2, <2>1 DEF RowsFor, LocationRows, Assignments
<1>4. row' = [row EXCEPT ![l] = new] BY <1>1
<1> HIDE DEF new
<1>5. /\ TablesOK'
      /\ \A y \in Ids : Exists(y) => Exists(y)'
      /\ \A y \in Ids \ {l} : row'[y] = row[y]
  BY <1>2, <1>3, <1>4, WriteRow
<1>6. \A o \in Requests : \A v \in locked[o] : Exists(v)'
  BY <1>5 DEF IInv, TypeOK, LocksHold, Ids
<1>7. \A o \in Requests : Creating(o) => Target(o) \in Ids \ {l}
  BY ColumnsOfCalls DEF CreateLocation, Fresh, IInv, Labelled, Creating, Target
<1>8. \A o \in Requests : Creating(o) => row'[Target(o)] = None
  BY <1>5, <1>7 DEF IInv, KeysReserved, Exists
<1> QED BY <1>5, <1>6, <1>8, OutsideStep DEF CreateLocation

LEMMA DeleteVehicleStep ==
  ASSUME IInv, HeldOK, NEW v \in Vehicles, DeleteVehicle(v)
  PROVE  IInv'
<1>1. v \in Ids /\ row' = [row EXCEPT ![v] = None] BY DEF DeleteVehicle, Ids
<1>2. row'[v] = None /\ \A x \in Ids \ {v} : row'[x] = row[x] BY <1>1 DEF IInv, TypeOK
<1>3. TablesOK'
  <2>1. row' \in [Ids -> VehicleRows \cup LocationRows \cup {None}]
    BY <1>1 DEF IInv, TypeOK
  <2>2. \A x \in Ids : Exists(x)' => Exists(x) /\ row'[x] = row[x] BY <1>2 DEF Exists
  <2>3. \A x \in Ids : Exists(x)' => row'[x] \in RowsFor(x) BY <2>2 DEF IInv, TypeOK
  <2>4. \A w \in Vehicles : Exists(w)' => row[w]["location"] \in Locations \cup {None}
    BY <2>2 DEF IInv, TypeOK, RowsFor, Ids, VehicleRows, Assignments, VehicleColumns,
                ColumnRange
  <2>5. \A l \in Locations : row'[l] = row[l] BY <1>2, ConstantsAssumption DEF Ids
  <2>6. FleetConsistent'
    <3>1. \A w, u \in Vehicles :
            Exists(w)' /\ Exists(u)' /\ row'[w]["callsign"] = row'[u]["callsign"] => w = u
      BY <2>2 DEF IInv, FleetConsistent, Ids
    <3>2. \A w \in Vehicles : Exists(w)' =>
            row'[w]["location"] = None \/ row'[row'[w]["location"]] # None
      BY <2>2, <2>4, <2>5 DEF IInv, FleetConsistent, Ids, Exists
    <3> QED BY <3>1, <3>2 DEF FleetConsistent, Exists
  <2> QED BY <2>1, <2>3, <2>6 DEF TablesOK
<1>4. \A o \in Requests : \A w \in locked[o] : Exists(w)'
  BY <1>2 DEF DeleteVehicle, IInv, TypeOK, LocksHold, Ids, Exists
<1>5. \A o \in Requests : Creating(o) => row'[Target(o)] = None
  BY <1>2, ColumnsOfCalls DEF IInv, Labelled, KeysReserved, Creating, Target, Exists
<1> QED BY <1>3, <1>4, <1>5, OutsideStep DEF DeleteVehicle

--------------------------------------------------------------------------------
(* The invariant.                                                          *)

LEMMA NextObserves ==
  ASSUME Next PROVE Observe
BY DEF Next, Statement, Begin, End, CreateLocation, DeleteVehicle, Invalid, Load,
       CheckCallsign, CheckLocation, Update, OutOfBounds, Insert, Refresh, SelectVehicles,
       SelectAssigned, Detach, Delete, Committed, Continue, Rollback, Answer

LEMMA StatementStep ==
  ASSUME IInv, HeldOK, NEW r \in Requests, Statement(r)
  PROVE  IInv'
<1>1. CASE Invalid(r) \/ Refresh(r) \/ OutOfBounds(r)
  <2>1. pc[r] # "idle" /\ \E o \in Outcomes : Rollback(r, o)
    BY <1>1 DEF Invalid, Refresh, OutOfBounds, Outcomes
  <2> QED BY <2>1, RollbackStep
<1> QED BY <1>1, LoadStep, CheckCallsignStep, CheckLocationStep, UpdateStep, InsertStep,
           SelectStep, DetachStep, DeleteStep DEF Statement

LEMMA InitIInv == Init => IInv
<1> SUFFICES ASSUME Init PROVE IInv OBVIOUS
<1> USE DEF Init
<1>1. \A x \in Ids : ~ Exists(x) BY DEF Exists
<1>2. TypeOK BY <1>1 DEF TypeOK, Labels
<1>3. Labelled BY DEF Labelled
<1>4. LocksHold BY DEF LocksHold
<1>5. KeysReserved BY DEF KeysReserved, Creating
<1>6. FleetConsistent BY <1>1 DEF FleetConsistent, Ids
<1> QED BY <1>2, <1>3, <1>4, <1>5, <1>6 DEF IInv

LEMMA NextIInv == IInv /\ [Next]_vars => IInv'
<1> SUFFICES ASSUME IInv, [Next]_vars PROVE IInv' OBVIOUS
<1>1. CASE Next
  <2>1. HeldOK BY <1>1, NextObserves, ObserveType DEF IInv
  <2>2. CASE \E r \in Requests : Begin(r) \/ Statement(r) \/ End(r)
    BY <2>1, <2>2, BeginStep, StatementStep, EndStep
  <2>3. CASE \E l \in Locations : CreateLocation(l) BY <2>1, <2>3, CreateLocationStep
  <2>4. CASE \E v \in Vehicles : DeleteVehicle(v) BY <2>1, <2>4, DeleteVehicleStep
  <2> QED BY <1>1, <2>2, <2>3, <2>4 DEF Next
<1>2. CASE UNCHANGED vars
  BY <1>2 DEF vars, IInv, TypeOK, Labelled, LocksHold, KeysReserved, FleetConsistent,
              Exists, Creating, Target
<1> QED BY <1>1, <1>2

\* The inductive invariant.
THEOREM Invariant == Spec => []IInv
BY InitIInv, NextIInv, PTL DEF Spec

\* Rows, requests and answers keep their types, whatever handlers run.
THEOREM TypeCorrect == Spec => []TypeOK
<1>1. IInv => TypeOK BY DEF IInv
<1> QED BY <1>1, Invariant, PTL

\* A call sign names one vehicle and no vehicle is at a location that is gone,
\* however assignments, edits, creations and deletions interleave.
THEOREM FleetStaysConsistent == Spec => []FleetConsistent
<1>1. IInv => FleetConsistent BY DEF IInv
<1> QED BY <1>1, Invariant, PTL

--------------------------------------------------------------------------------
(* Who changes what.                                                       *)

\* A row that is there before and after a step changes only in an UPDATE of its
\* own or in the commit of a deletion that has found it.
LEMMA NextNames ==
  ASSUME IInv, [Next]_vars, NEW x \in Ids, Exists(x), Exists(x)',
         NEW c \in DOMAIN row[x], row'[x][c] # row[x][c]
  PROVE  \E r \in Requests : pc[r] \in {"update", "delete"} /\ MaySet(r, x, c)
<1>1. row'[x] # row[x] OBVIOUS
<1>2. ASSUME NEW r \in Requests, Update(r)
      PROVE  pc[r] = "update" /\ MaySet(r, x, c)
  <2> DEFINE new == [k \in DOMAIN row[Target(r)] |->
                       IF k \in Changed(r) THEN call[r].values[k] ELSE row[Target(r)][k]]
  <2>1. /\ row' = [row EXCEPT ![Target(r)] = new]
        /\ Committed(r)
        /\ pc[r] = "update"
    BY <1>1, <1>2 DEF Update, Rollback
  <2>2. Target(r) = x BY <1>1, <2>1 DEF IInv, TypeOK
  <2>3. row'[x] = new BY <2>1, <2>2 DEF IInv, TypeOK
  <2>4. c \in Changed(r) /\ row'[x][c] = call[r].values[c] BY <2>2, <2>3
  <2>5. pc'[r] # pc[r]
    BY <2>1 DEF Committed, Continue, Answer, Goto, IInv, TypeOK
  <2> QED BY <2>1, <2>2, <2>4, <2>5 DEF MaySet, Sets, Changed
<1>3. ASSUME NEW r \in Requests, Delete(r)
      PROVE  pc[r] = "delete" /\ MaySet(r, x, c)
  <2>1. /\ pc[r] = "delete" /\ Answer(r, "ok")
        /\ row' = [y \in Ids |->
             IF y = Target(r) THEN None
             ELSE IF y \in locked[r] THEN [row[y] EXCEPT !["location"] = None]
             ELSE row[y]]
    BY <1>1, <1>3 DEF Delete, Rollback
  <2>2. x # Target(r) BY <2>1 DEF Exists
  <2>3. x \in locked[r] /\ row'[x] = [row[x] EXCEPT !["location"] = None]
    BY <1>1, <2>1, <2>2
  <2>4. c = "location" /\ row'[x][c] = None
    <3>1. c = "location" BY <2>3
    <3> QED BY <2>3, <3>1
  <2>5. x \in loaded[r] BY <2>3 DEF IInv, LocksHold
  <2>6. call[r].handler \in Deletes BY <2>1 DEF IInv, Labelled, HandlersAt
  <2>7. pc'[r] # pc[r] BY <2>1 DEF Answer, Goto, IInv, TypeOK
  <2> QED BY <2>1, <2>4, <2>5, <2>6, <2>7 DEF MaySet
<1>4. ASSUME NEW r \in Requests, Insert(r) PROVE FALSE
  <2>1. row' = [row EXCEPT ![Target(r)] = row'[Target(r)]] /\ Creating(r)
    <3>1. call[r].handler = "create_vehicle" BY <1>4 DEF Insert, IInv, Labelled, HandlersAt
    <3> QED BY <1>1, <1>4, <3>1 DEF Insert, Rollback, Creating, IInv, TypeOK
  <2>2. ~ Exists(Target(r)) BY <2>1 DEF IInv, KeysReserved
  <2> QED BY <1>1, <2>1, <2>2 DEF Exists, IInv, TypeOK
<1>5. ASSUME NEW l \in Locations, CreateLocation(l) PROVE FALSE
  BY <1>1, <1>5 DEF CreateLocation, Fresh, Exists, IInv, TypeOK
<1>6. ASSUME NEW v \in Vehicles, DeleteVehicle(v) PROVE FALSE
  BY <1>1, <1>6 DEF DeleteVehicle, Exists, IInv, TypeOK
<1>7. ASSUME NEW r \in Requests, Begin(r) \/ End(r) \/ Invalid(r) \/ Load(r)
               \/ CheckCallsign(r) \/ CheckLocation(r) \/ OutOfBounds(r) \/ Refresh(r)
               \/ SelectVehicles(r) \/ SelectAssigned(r) \/ Detach(r)
      PROVE  FALSE
  BY <1>1, <1>7 DEF Begin, End, Invalid, Load, CheckCallsign, CheckLocation, OutOfBounds,
                    Refresh, SelectVehicles, SelectAssigned, Detach, Rollback
<1>8. Next BY <1>1 DEF vars
<1> QED BY <1>2, <1>3, <1>4, <1>5, <1>6, <1>7, <1>8 DEF Next, Statement

\* No request undoes what another has written to a column it does not set itself.
THEOREM ColumnsAreNamed == Spec => OnlyNamedColumns
<1>1. IInv /\ [Next]_vars =>
        [\A x \in Ids : Exists(x) /\ Exists(x)' =>
           \A c \in DOMAIN row[x] : row'[x][c] # row[x][c] =>
             \E r \in Requests : pc[r] \in {"update", "delete"} /\ MaySet(r, x, c)]_vars
  BY NextNames
<1> QED BY <1>1, Invariant, PTL DEF Spec, OnlyNamedColumns
--------------------------------------------------------------------------------
(* The answers.                                                            *)

\* What a request knows: what it found set when it loaded the row was set, what it
\* has committed was set, and its answer is true.  A deletion never refreshes.
Told(r) ==
  /\ pc[r] \in {"check_callsign", "check_location", "update"}
       /\ call[r].handler # "create_vehicle" =>
       DOMAIN call[r].values \ Changed(r) \subseteq held[r]
  /\ pc[r] = "refresh" =>
       call[r].handler \notin Deletes /\ DOMAIN call[r].values \subseteq held[r]
  /\ outcome[r] = "ok" =>
       /\ pc[r] = "done"
       /\ IF call[r].handler \in Deletes
          THEN ~ Exists(Target(r))
          ELSE DOMAIN call[r].values \subseteq held[r]

AllTold == \A r \in Requests : Told(r)

LEMMA HeldGrows ==
  ASSUME TypeOK, Observe, NEW r \in Requests, pc'[r] # "idle", ~ Failed(r)'
  PROVE  held[r] \cup Holding(row'[call'[r].target], call'[r]) \subseteq held'[r]
BY DEF Observe, Failed

\* A call is for columns its row has.
LEMMA ColumnsOfRows ==
  ASSUME NEW c \in Calls, NEW record \in RowsFor(c.target)
  PROVE  DOMAIN c.values \subseteq DOMAIN record
<1>1. c.handler \in AllHandlers /\ c.target \in Targets(c.handler)
      /\ DOMAIN c.values \in ColumnSets(c.handler)
  BY ColumnsOfCalls
<1>2. CASE c.target \in Vehicles
  <2>1. DOMAIN record = VehicleColumns BY <1>2 DEF RowsFor, VehicleRows, Assignments
  <2>2. c.handler \notin Deletes \cup {"edit_location", "set_active", "toggle"}
    BY <1>1, <1>2, ConstantsAssumption DEF Targets
  <2>3. DOMAIN c.values \subseteq VehicleColumns
    BY <1>1, <2>2 DEF ColumnSets, VehicleColumns, AllHandlers, Updates
  <2> QED BY <2>1, <2>3
<1>3. CASE c.target \notin Vehicles
  <2>1. DOMAIN record = LocationColumns BY <1>3 DEF RowsFor, LocationRows, Assignments
  <2>2. c.handler \in Deletes \cup {"edit_location", "set_active", "toggle"}
    BY <1>1, <1>3 DEF Targets
  <2>3. DOMAIN c.values \subseteq LocationColumns
    BY <1>1, <2>2 DEF ColumnSets, LocationColumns, Deletes
  <2> QED BY <2>1, <2>3
<1> QED BY <1>2, <1>3

\* A location that is gone while a request is for it stays gone: its key is used
\* again only when no request knows it.
LEMMA GoneStaysGone ==
  ASSUME IInv, Next, NEW o \in Requests, pc[o] # "idle", Target(o) \in Locations,
         ~ Exists(Target(o))
  PROVE  row'[Target(o)] = None
<1> DEFINE l == Target(o)
<1>1. l \in Ids /\ l \notin Vehicles /\ row[l] = None BY ConstantsAssumption DEF Ids, Exists
<1>2. ASSUME UNCHANGED row PROVE row'[l] = None BY <1>1, <1>2
<1>3. ASSUME NEW r \in Requests, Update(r) PROVE row'[l] = None
  <2>1. CASE UNCHANGED row BY <1>2, <2>1
  <2>2. CASE ~ UNCHANGED row
    <3>1. Exists(Target(r)) /\ row' = [row EXCEPT ![Target(r)] = row'[Target(r)]]
      BY <1>3, <2>2 DEF Update, Rollback, IInv, TypeOK
    <3> QED BY <1>1, <3>1 DEF IInv, TypeOK, Exists
  <2> QED BY <2>1, <2>2
<1>4. ASSUME NEW r \in Requests, Insert(r) PROVE row'[l] = None
  <2>1. Target(r) \in Vehicles
    BY <1>4, ColumnsOfCalls DEF Insert, IInv, Labelled, HandlersAt, Target, Targets, Deletes
  <2> QED BY <1>1, <1>4, <2>1 DEF Insert, Rollback, IInv, TypeOK
<1>5. ASSUME NEW r \in Requests, Delete(r) PROVE row'[l] = None
  <2>1. l \notin locked[r] BY <1>1 DEF IInv, TypeOK
  <2> QED BY <1>1, <1>5, <2>1 DEF Delete, Rollback
<1>6. ASSUME NEW k \in Locations, CreateLocation(k) PROVE row'[l] = None
  <2>1. k # l BY <1>6 DEF CreateLocation, Fresh
  <2> QED BY <1>1, <1>6, <2>1 DEF CreateLocation, IInv, TypeOK
<1>7. ASSUME NEW v \in Vehicles, DeleteVehicle(v) PROVE row'[l] = None
  BY <1>1, <1>7 DEF DeleteVehicle, IInv, TypeOK
<1>8. ASSUME NEW r \in Requests, Begin(r) \/ End(r) \/ Invalid(r) \/ Load(r)
               \/ CheckCallsign(r) \/ CheckLocation(r) \/ OutOfBounds(r) \/ Refresh(r)
               \/ SelectVehicles(r) \/ SelectAssigned(r) \/ Detach(r)
      PROVE  row'[l] = None
  BY <1>2, <1>8 DEF Begin, End, Invalid, Load, CheckCallsign, CheckLocation, OutOfBounds,
                    Refresh, SelectVehicles, SelectAssigned, Detach, Rollback
<1> QED BY <1>3, <1>4, <1>5, <1>6, <1>7, <1>8 DEF Next, Statement

\* A step leaves the answer of a request that it is not a step of.
LEMMA ToldBystander ==
  ASSUME IInv, Next, NEW o \in Requests, Told(o), Observe,
         pc'[o] = pc[o], call'[o] = call[o], copy'[o] = copy[o], outcome'[o] = outcome[o]
  PROVE  Told(o)'
<1>1. CASE pc[o] = "idle" BY <1>1 DEF Told
<1>2. CASE Failed(o)
  <2>1. pc'[o] = "done" /\ outcome'[o] # "ok" BY <1>2 DEF Failed
  <2> QED BY <2>1 DEF Told
<1>3. CASE pc[o] # "idle" /\ ~ Failed(o)
  <2>1. held[o] \subseteq held'[o] BY <1>3, HeldGrows DEF IInv, Failed
  <2>2. Changed(o)' = Changed(o) /\ Target(o)' = Target(o) BY DEF Changed, Target
  <2>3. ASSUME outcome[o] = "ok", call[o].handler \in Deletes PROVE ~ Exists(Target(o))'
    <3>1. Target(o) \in Locations /\ ~ Exists(Target(o))
      BY <1>3, <2>3, ColumnsOfCalls DEF Told, IInv, Labelled, Target, Targets
    <3> QED BY <1>3, <2>2, <3>1, GoneStaysGone DEF Exists
  <2> QED BY <2>1, <2>2, <2>3 DEF Told
<1> QED BY <1>1, <1>2, <1>3

\* A request that ends otherwise, or is not that far, has told nothing.
LEMMA ToldNothing ==
  ASSUME NEW r \in Requests, outcome'[r] # "ok", pc'[r] # "refresh",
         pc'[r] \notin {"check_callsign", "check_location", "update"}
           \/ call'[r].handler = "create_vehicle"
  PROVE  Told(r)'
BY DEF Told

LEMMA ToldLoad ==
  ASSUME IInv, NEW r \in Requests, Told(r), Load(r)
  PROVE  Told(r)'
<1>1. pc[r] = "load" /\ call[r] \in Calls /\ call[r].handler # "create_vehicle"
      /\ outcome[r] # "ok"
  BY DEF Load, IInv, Labelled, HandlersAt, Told
<1>2. CASE ~ Exists(Target(r))
  <2>1. /\ UNCHANGED <<row, call>> /\ pc'[r] = "done"
        /\ outcome'[r] = IF call[r].handler = "delete_location" THEN "ok" ELSE "missing"
    BY <1>2 DEF Load, Rollback, Answer, Goto, IInv, TypeOK
  <2>2. ~ Exists(Target(r))' BY <1>2, <2>1 DEF Exists, Target
  <2> QED BY <2>1, <2>2 DEF Told, Deletes
<1>3. CASE Exists(Target(r)) /\ call[r].handler \in Deletes
  <2>1. pc'[r] = "select_vehicles" /\ outcome'[r] = outcome[r]
    BY <1>1, <1>3, ColumnsOfCalls
    DEF Load, Rollback, Continue, Goto, AfterLoad, AllHandlers, Updates, Deletes, IInv, TypeOK
  <2> QED BY <1>1, <2>1, ToldNothing
<1>4. CASE Exists(Target(r)) /\ call[r].handler \notin Deletes
  <2>1. /\ copy'[r] = row[Target(r)] /\ UNCHANGED <<row, outcome>>
        /\ pc'[r] = AfterLoad[call[r].handler]
        /\ Observe
        /\ call'[r].target = call[r].target
    BY <1>1, <1>4 DEF Load, Rollback, Continue, Goto, IInv, TypeOK, Calls
  <2>2. call[r].handler \in AllHandlers BY <1>1, ColumnsOfCalls
  <2>3. pc'[r] \in {"check_callsign", "check_location", "select_vehicles", "update"}
    BY <2>1, <2>2 DEF AfterLoad
  <2>4. copy'[r] # None /\ copy'[r] = row'[call'[r].target]
    BY <1>4, <2>1 DEF Exists, Target
  <2>5. Holding(copy'[r], call'[r]) \subseteq held'[r]
    BY <2>1, <2>3, <2>4, HeldGrows DEF IInv, Failed
  <2>6. DOMAIN call'[r].values = DOMAIN call[r].values
        /\ DOMAIN call[r].values \subseteq VehicleColumns \cup LocationColumns
    <3>1. DOMAIN call[r].values \subseteq VehicleColumns \cup LocationColumns
      BY <1>1, ColumnsOfCalls DEF Columns
    <3> QED BY <1>1, <1>4, <3>1 DEF Load, Rollback, IInv, TypeOK, Calls
  <2>7. DOMAIN call'[r].values \ Changed(r)' \subseteq held'[r]
    BY <2>4, <2>5, <2>6 DEF Changed, Holding
  <2> QED BY <1>1, <2>1, <2>3, <2>7 DEF Told
<1> QED BY <1>2, <1>3, <1>4

\* An UPDATE or an INSERT after which every column of the call has been seen set.
LEMMA ToldCommitted ==
  ASSUME IInv, NEW r \in Requests, Told(r), pc[r] \in {"update", "insert"}, Committed(r),
         DOMAIN call[r].values \subseteq held'[r]
  PROVE  Told(r)'
<1>1. call'[r] = call[r] /\ pc'[r] \in {"refresh", "done"}
  BY DEF Committed, Continue, Answer, Goto, IInv, TypeOK
<1>2. call[r].handler \notin Deletes
  BY DEF IInv, Labelled, HandlersAt, Updates, Deletes
<1>3. outcome[r] # "ok" BY DEF Told
<1>4. pc'[r] = "refresh" => outcome'[r] = outcome[r]
  BY DEF Committed, Continue, Answer, Goto, IInv, TypeOK
<1> QED BY <1>1, <1>2, <1>3, <1>4 DEF Told

LEMMA ToldUpdate ==
  ASSUME IInv, Observe, NEW r \in Requests, Told(r), Update(r)
  PROVE  Told(r)'
<1>1. /\ pc[r] = "update" /\ call[r] \in Calls /\ outcome[r] # "ok"
      /\ call[r].handler # "create_vehicle"
      /\ DOMAIN call[r].values \ Changed(r) \subseteq held[r]
  BY DEF Update, IInv, Labelled, HandlersAt, Updates, Told
<1>2. CASE \E o \in {"conflict", "stale"} : Rollback(r, o)
  BY <1>2, ToldNothing DEF Rollback, Answer, Goto, IInv, TypeOK
<1>3. CASE ~ Writes(r) /\ Committed(r)
  <2>1. pc'[r] # "idle" /\ ~ Failed(r)'
    BY <1>3 DEF Committed, Continue, Answer, Goto, IInv, TypeOK, Failed
  <2>2. held[r] \subseteq held'[r] BY <2>1, HeldGrows DEF IInv
  <2>3. Changed(r) = {} BY <1>3 DEF Writes
  <2> QED BY <1>1, <1>3, <2>2, <2>3, ToldCommitted
<1>4. CASE /\ Exists(Target(r)) /\ ~ Violates(r)
           /\ row' = [row EXCEPT ![Target(r)] =
                [c \in DOMAIN @ |-> IF c \in Changed(r) THEN call[r].values[c] ELSE @[c]]]
           /\ Committed(r)
  <2> DEFINE new == [c \in DOMAIN row[Target(r)] |->
                       IF c \in Changed(r) THEN call[r].values[c] ELSE row[Target(r)][c]]
  <2>1. pc'[r] # "idle" /\ ~ Failed(r)' /\ call'[r] = call[r]
    BY <1>4 DEF Committed, Continue, Answer, Goto, IInv, TypeOK, Failed
  <2>2. held[r] \cup Holding(row'[Target(r)], call[r]) \subseteq held'[r]
    BY <2>1, HeldGrows DEF IInv, Target
  <2>3. Target(r) \in Ids /\ row[Target(r)] \in RowsFor(Target(r))
    BY <1>1, <1>4, ColumnsOfCalls DEF IInv, TypeOK, Target
  <2>4. DOMAIN call[r].values \subseteq DOMAIN row[Target(r)]
    BY <1>1, <2>3, ColumnsOfRows DEF Target
  <2>5. row'[Target(r)] = new BY <1>4, <2>3 DEF IInv, TypeOK
  <2>6. \A c \in Changed(r) : row'[Target(r)][c] = call[r].values[c]
    BY <2>4, <2>5 DEF Changed
  <2>7. row'[Target(r)] # None BY <1>1, <1>4, <2>3, UpdateTables DEF Exists
  <2>8. DOMAIN call[r].values \subseteq VehicleColumns \cup LocationColumns
    BY <1>1, ColumnsOfCalls DEF Columns
  <2>9. Changed(r) \subseteq Holding(row'[Target(r)], call[r])
    BY <2>6, <2>7, <2>8 DEF Holding, Changed
  <2> QED BY <1>1, <1>4, <2>2, <2>9, ToldCommitted
<1> QED BY <1>2, <1>3, <1>4 DEF Update

LEMMA ToldInsert ==
  ASSUME IInv, Observe, NEW r \in Requests, Told(r), Insert(r)
  PROVE  Told(r)'
<1> DEFINE new == [c \in VehicleColumns |->
                     CASE c = "position" -> Default
                       [] c = "location" -> None
                       [] OTHER -> call[r].values[c]]
<1>1. /\ pc[r] = "insert" /\ call[r] \in Calls /\ call[r].handler = "create_vehicle"
      /\ DOMAIN call[r].values = {"callsign", "status"}
      /\ Target(r) \in Ids
  BY ColumnsOfCalls DEF Insert, IInv, Labelled, HandlersAt, ColumnSets, Target
<1>2. CASE Rollback(r, "conflict")
  BY <1>2, ToldNothing DEF Rollback, Answer, Goto, IInv, TypeOK
<1>3. CASE row' = [row EXCEPT ![Target(r)] = new] /\ Committed(r)
  <2>1. pc'[r] # "idle" /\ ~ Failed(r)' /\ call'[r] = call[r]
    BY <1>3 DEF Committed, Continue, Answer, Goto, IInv, TypeOK, Failed
  <2>2. Holding(row'[Target(r)], call[r]) \subseteq held'[r]
    BY <2>1, HeldGrows DEF IInv, Target
  <2>3. row'[Target(r)] = new BY <1>1, <1>3 DEF IInv, TypeOK
  <2>4. new # None
    <3>1. Target(r) \in Vehicles
      BY <1>1, ColumnsOfCalls DEF Target, Targets, Deletes
    <3>2. \A k \in DOMAIN call[r].values : call[r].values[k] \in ColumnRange(k)
      BY <1>1, ColumnsOfCalls
    <3>3. \A c \in VehicleColumns : new[c] \in ColumnRange(c) /\ new[c] \in AllValues
      BY <1>1, <3>2, ConstantsAssumption DEF VehicleColumns, ColumnRange, AllValues
    <3>4. new \in VehicleRows BY <3>3 DEF VehicleRows, Assignments
    <3> QED BY <3>4, NoneAssumption
  <2>5. {"callsign", "status"} \subseteq Holding(row'[Target(r)], call[r])
    <3>1. \A k \in {"callsign", "status"} : new[k] = call[r].values[k]
      BY DEF VehicleColumns
    <3> HIDE DEF new
    <3> QED BY <1>1, <2>3, <2>4, <3>1 DEF Holding, VehicleColumns
  <2> QED BY <1>1, <1>3, <2>2, <2>5, ToldCommitted
<1> QED BY <1>2, <1>3 DEF Insert

LEMMA ToldStatement ==
  ASSUME IInv, Observe, NEW r \in Requests, Told(r), Statement(r)
  PROVE  Told(r)'
<1> USE DEF Goto
<1>1. CASE Invalid(r) \/ OutOfBounds(r)
  BY <1>1, ToldNothing DEF Invalid, OutOfBounds, Rollback, Answer, IInv, TypeOK
<1>2. CASE CheckCallsign(r) \/ CheckLocation(r)
  <2>1. CASE \E label \in {"insert", "update"} :
               Continue(r, label) /\ UNCHANGED <<row, call, copy>>
    <3>1. outcome'[r] = outcome[r] /\ call'[r] = call[r] /\ copy'[r] = copy[r]
          /\ pc'[r] \in {"insert", "update"}
      BY <2>1 DEF Continue, IInv, TypeOK
    <3>2. held[r] \subseteq held'[r] BY <3>1, HeldGrows DEF IInv, Failed
    <3>3. Changed(r)' = Changed(r) BY <3>1 DEF Changed
    <3>4. outcome[r] # "ok" /\ pc[r] \in {"check_callsign", "check_location"}
      BY <1>2 DEF Told, CheckCallsign, CheckLocation
    <3> QED BY <3>1, <3>2, <3>3, <3>4 DEF Told
  <2>2. CASE Rollback(r, "invalid")
    BY <2>2, ToldNothing DEF Rollback, Answer, IInv, TypeOK
  <2> QED BY <1>2, <2>1, <2>2 DEF CheckCallsign, CheckLocation
<1>3. CASE Refresh(r)
  <2>1. /\ pc[r] = "refresh" /\ pc'[r] = "done" /\ call'[r] = call[r]
        /\ call[r].handler \notin Deletes
        /\ DOMAIN call[r].values \subseteq held[r]
    BY <1>3 DEF Refresh, Rollback, Answer, IInv, TypeOK, Told
  <2>2. outcome'[r] = "ok" => held[r] \subseteq held'[r] BY <2>1, HeldGrows DEF IInv, Failed
  <2> QED BY <2>1, <2>2 DEF Told
<1>4. CASE SelectVehicles(r) \/ SelectAssigned(r) \/ Detach(r)
  <2>1. CASE Rollback(r, "stale")
    BY <2>1, ToldNothing DEF Rollback, Answer, IInv, TypeOK
  <2>2. CASE \E label \in {"select_assigned", "detach", "delete"} : Continue(r, label)
    <3>1. outcome'[r] = outcome[r] /\ pc'[r] \in {"select_assigned", "detach", "delete"}
      BY <2>2 DEF Continue, IInv, TypeOK
    <3>2. outcome[r] # "ok" BY <1>4 DEF Told, SelectVehicles, SelectAssigned, Detach
    <3> QED BY <3>1, <3>2, ToldNothing
  <2> QED BY <1>4, <2>1, <2>2 DEF SelectVehicles, SelectAssigned, Detach
<1>5. CASE Delete(r)
  <2>1. CASE Rollback(r, "conflict")
    BY <2>1, ToldNothing DEF Rollback, Answer, IInv, TypeOK
  <2>2. CASE row'[Target(r)] = None /\ Answer(r, "ok")
    <3>1. call[r].handler \in Deletes BY <1>5 DEF Delete, IInv, Labelled, HandlersAt
    <3>2. pc'[r] = "done" /\ call'[r] = call[r] BY <2>2 DEF Answer, IInv, TypeOK
    <3>3. ~ Exists(Target(r))' BY <2>2, <3>2 DEF Exists, Target
    <3> QED BY <3>1, <3>2, <3>3 DEF Told
  <2>3. Target(r) \in Ids
    BY <1>5, ColumnsOfCalls DEF Delete, IInv, Labelled, Target
  <2> QED BY <1>5, <2>1, <2>2, <2>3 DEF Delete
<1> QED BY <1>1, <1>2, <1>3, <1>4, <1>5, ToldLoad, ToldUpdate, ToldInsert DEF Statement

LEMMA NextTold == IInv /\ AllTold /\ [Next]_vars => AllTold'
<1> SUFFICES ASSUME IInv, AllTold, [Next]_vars, NEW o \in Requests PROVE Told(o)'
  BY DEF AllTold
<1> USE DEF Goto
<1>1. Told(o) BY DEF AllTold
<1>2. CASE UNCHANGED vars
  BY <1>1, <1>2 DEF vars, Told, Changed, Target, Exists
<1>3. CASE Next
  <2>1. Observe BY <1>3, NextObserves
  <2>2. ASSUME NEW r \in Requests, Begin(r) \/ Statement(r) \/ End(r)
        PROVE  Told(o)'
    <3>1. CASE o # r
      <4>1. pc'[o] = pc[o] /\ call'[o] = call[o] /\ copy'[o] = copy[o]
            /\ outcome'[o] = outcome[o]
        BY <2>2, <3>1 DEF Begin, End, Statement, Invalid, Load, CheckCallsign, CheckLocation,
                  Update, OutOfBounds, Insert, Refresh, SelectVehicles, SelectAssigned,
                  Detach, Delete, Committed, Continue, Rollback, Answer, IInv, TypeOK
      <4> QED BY <1>1, <1>3, <2>1, <4>1, ToldBystander
    <3>2. CASE o = r /\ Statement(r) BY <1>1, <2>1, <3>2, ToldStatement
    <3>3. CASE o = r /\ End(r)
      BY <3>3, NoneAssumption, ToldNothing DEF End, Outcomes, IInv, TypeOK
    <3>4. CASE o = r /\ Begin(r)
      <4>1. outcome[r] # "ok" BY <1>1, <3>4 DEF Begin, Told
      <4>2. outcome'[r] = outcome[r]
            /\ \/ pc'[r] = "load"
               \/ pc'[r] = "check_callsign" /\ call'[r].handler = "create_vehicle"
        BY <3>4, ConstantsAssumption DEF Begin, Continue, IInv, TypeOK
      <4> QED BY <3>4, <4>1, <4>2, ToldNothing
    <3> QED BY <2>2, <3>1, <3>2, <3>3, <3>4
  <2>3. CASE (\E l \in Locations : CreateLocation(l)) \/ (\E v \in Vehicles : DeleteVehicle(v))
    BY <1>1, <1>3, <2>1, <2>3, ToldBystander DEF CreateLocation, DeleteVehicle
  <2> QED BY <1>3, <2>2, <2>3 DEF Next
<1> QED BY <1>2, <1>3

\* A successful answer is true, whatever runs at the same time: each column the call
\* sets had that value at some moment of the request, and a deleted location is gone
\* and nobody is there.
THEOREM AnswersAreTrue == Spec => []AnswersWereTrue
<1>1. Init => AllTold BY NoneAssumption DEF Init, AllTold, Told, Outcomes
<1>2. IInv /\ AllTold => AnswersWereTrue
  <2> SUFFICES ASSUME IInv, AllTold, NEW r \in Requests, outcome[r] = "ok"
               PROVE  IF call[r].handler \in Deletes
                      THEN ~ Exists(Target(r)) /\ At(Target(r)) = {}
                      ELSE DOMAIN call[r].values \subseteq held[r]
    BY DEF AnswersWereTrue
  <2>1. CASE call[r].handler \in Deletes
    <3>1. ~ Exists(Target(r)) /\ call[r] \in Calls
      BY <2>1 DEF AllTold, Told, IInv, Labelled
    <3>2. Target(r) \in Locations BY <2>1, <3>1, ColumnsOfCalls DEF Target, Targets
    <3>3. At(Target(r)) = {}
      BY <3>1, <3>2, ConstantsAssumption DEF At, IInv, FleetConsistent
    <3> QED BY <2>1, <3>1, <3>3
  <2>2. CASE call[r].handler \notin Deletes BY <2>2 DEF AllTold, Told
  <2> QED BY <2>1, <2>2
<1> QED BY <1>1, <1>2, NextTold, Invariant, PTL DEF Spec

--------------------------------------------------------------------------------
(* The board.                                                              *)

\* A row of a vehicle has a call sign and a place.
LEMMA CardTypes ==
  ASSUME TablesOK, NEW v \in Vehicles, Exists(v)
  PROVE  /\ row[v]["callsign"] \in Callsigns
         /\ row[v]["location"] \in Locations \cup {None}
         /\ DOMAIN row[v] = VehicleColumns
BY DEF TablesOK, RowsFor, Ids, VehicleRows, Assignments, VehicleColumns, ColumnRange

LEMMA Tables == IInv => TablesOK
BY DEF IInv, TypeOK, TablesOK

\* The board shows no more than who is there, under which call sign, and where.
LEMMA SameBoard ==
  ASSUME \A x \in Ids : Exists(x)' <=> Exists(x),
         \A v \in Vehicles : Exists(v) => /\ row'[v]["callsign"] = row[v]["callsign"]
                                          /\ row'[v]["location"] = row[v]["location"]
  PROVE  UNCHANGED Board!vars
<1>1. Sites' = Sites BY DEF Sites, Ids
<1>2. \A v \in Vehicles : Exists(v) => CardOf(v)' = CardOf(v) BY DEF CardOf
<1>3. Cards' = Cards BY <1>2 DEF Cards, Ids
<1> QED BY <1>1, <1>3 DEF Board!vars

LEMMA RowsKeepBoard ==
  ASSUME UNCHANGED row PROVE UNCHANGED Board!vars
BY SameBoard DEF Exists

\* A change of one vehicle is a change of its card, which no other vehicle has.
LEMMA OneCard ==
  ASSUME IInv, NEW x \in Vehicles, \A y \in Ids \ {x} : row'[y] = row[y]
  PROVE  /\ Sites' = Sites
         /\ Exists(x) => CardOf(x) \in Cards
         /\ Cards' = (Cards \ {c \in Cards : Exists(x) /\ c = CardOf(x)})
                       \cup {c \in {CardOf(x)'} : Exists(x)'}
<1>1. Sites' = Sites
  BY ConstantsAssumption DEF Sites, Exists, Ids
<1>2. ASSUME NEW v \in Vehicles \ {x}, Exists(v), Exists(x) PROVE CardOf(v) # CardOf(x)
  BY <1>2 DEF IInv, FleetConsistent, CardOf
<1>3. \A v \in Vehicles \ {x} : (Exists(v)' <=> Exists(v)) /\ CardOf(v)' = CardOf(v)
  BY DEF Exists, CardOf, Ids
<1>4. \A c : c \in Cards' <=> \/ Exists(x)' /\ c = CardOf(x)'
                              \/ \E v \in Vehicles \ {x} : Exists(v) /\ c = CardOf(v)
  BY <1>3 DEF Cards
<1>5. \A c : c \in Cards <=> \/ Exists(x) /\ c = CardOf(x)
                             \/ \E v \in Vehicles \ {x} : Exists(v) /\ c = CardOf(v)
  BY DEF Cards
<1>6. \A c : c \in Cards /\ ~ (Exists(x) /\ c = CardOf(x))
               <=> \E v \in Vehicles \ {x} : Exists(v) /\ c = CardOf(v)
  BY <1>2, <1>5
<1>7. Cards' = (Cards \ {c \in Cards : Exists(x) /\ c = CardOf(x)})
                 \cup {c \in {CardOf(x)'} : Exists(x)'}
  BY <1>4, <1>6
<1> QED BY <1>1, <1>5, <1>7

\* A call sign nobody but x has is free on the board, or on the card of x.
LEMMA FreeSign ==
  ASSUME NEW x \in Vehicles, NEW sign, Named(sign) \ {x} = {},
         Exists(x) => row[x]["callsign"] # sign
  PROVE  ~ Board!Used(sign)
BY DEF Board!Used, Cards, CardOf, Named

LEMMA InsertBoard ==
  ASSUME IInv, NEW r \in Requests, Insert(r)
  PROVE  [Board!Next]_(Board!vars)
<1> DEFINE new == [c \in VehicleColumns |->
                     CASE c = "position" -> Default
                       [] c = "location" -> None
                       [] OTHER -> call[r].values[c]]
           sign == call[r].values["callsign"]
<1>1. /\ pc[r] = "insert" /\ call[r] \in Calls /\ call[r].handler = "create_vehicle"
      /\ Creating(r)
  BY DEF Insert, IInv, Labelled, HandlersAt, Creating
<1>2. /\ Target(r) \in Vehicles
      /\ DOMAIN call[r].values = {"callsign", "status"}
      /\ \A k \in DOMAIN call[r].values : call[r].values[k] \in ColumnRange(k)
  BY <1>1, ColumnsOfCalls DEF Target, Targets, Deletes, ColumnSets
<1>3. PICK x \in Vehicles : x = Target(r) /\ ~ Exists(x)
  BY <1>1, <1>2 DEF IInv, KeysReserved
<1>4. CASE Rollback(r, "conflict") BY <1>4, RowsKeepBoard DEF Rollback
<1>5. CASE Named(new["callsign"]) = {} /\ row' = [row EXCEPT ![x] = new]
  <2>1. new["callsign"] = sign /\ new["location"] = None /\ sign \in Callsigns
    BY <1>2 DEF VehicleColumns, ColumnRange
  <2>2. new # None
    <3>1. \A c \in VehicleColumns : new[c] \in ColumnRange(c) /\ new[c] \in AllValues
      BY <1>2, ConstantsAssumption DEF VehicleColumns, ColumnRange, AllValues
    <3>2. new \in VehicleRows BY <3>1 DEF VehicleRows, Assignments
    <3> QED BY <3>2, NoneAssumption
  <2> HIDE DEF new, sign
  <2>3. row'[x] = new /\ \A y \in Ids \ {x} : row'[y] = row[y]
    BY <1>5 DEF IInv, TypeOK, Ids
  <2>4. CardOf(x)' = Board!Card(sign, None) /\ Exists(x)'
    BY <2>1, <2>2, <2>3 DEF CardOf, Board!Card, Exists
  <2>5. Sites' = Sites /\ Cards' = Cards \cup {Board!Card(sign, None)}
    BY <1>3, <2>3, <2>4, OneCard
  <2>6. ~ Board!Used(sign) BY <1>3, <1>5, <2>1, FreeSign
  <2> QED BY <2>1, <2>5, <2>6 DEF Board!Next, Board!Commission
<1> QED BY <1>3, <1>4, <1>5 DEF Insert

\* The UPDATE of a vehicle changes its call sign or its place, never both.
LEMMA UpdateBoard ==
  ASSUME IInv, NEW r \in Requests, Update(r)
  PROVE  [Board!Next]_(Board!vars)
<1>1. /\ pc[r] = "update" /\ call[r] \in Calls /\ call[r].handler \in Updates
  BY DEF Update, IInv, Labelled, HandlersAt
<1>2. /\ Target(r) \in Ids
      /\ ~ ("callsign" \in Changed(r) /\ "location" \in Changed(r))
      /\ \A c \in Changed(r) : call[r].values[c] \in ColumnRange(c)
  BY <1>1, ColumnsOfCalls DEF Target, Changed, ColumnSets, Updates
<1>3. PICK x \in Ids : x = Target(r) BY <1>2
<1> DEFINE new == [c \in DOMAIN row[x] |->
                     IF c \in Changed(r) THEN call[r].values[c] ELSE row[x][c]]
<1>4. CASE UNCHANGED row BY <1>4, RowsKeepBoard
<1>5. CASE Exists(x) /\ ~ Violates(r) /\ row' = [row EXCEPT ![x] = new]
  <2>1. row'[x] = new /\ \A y \in Ids \ {x} : row'[y] = row[y]
    BY <1>5 DEF IInv, TypeOK
  <2>2. TablesOK' /\ \A y \in Ids : Exists(y)' <=> Exists(y)
    BY <1>1, <1>3, <1>5, <2>1, UpdateTables DEF Exists
  <2>3. CASE x \notin Vehicles BY <2>1, <2>2, <2>3, SameBoard DEF Ids
  <2>4. CASE x \in Vehicles
    <3>1. DOMAIN row[x] = VehicleColumns /\ row[x]["location"] \in Locations \cup {None}
      BY <1>5, <2>4, Tables, CardTypes
    <3>2. \A c \in {"callsign", "location"} :
            row'[x][c] = IF c \in Changed(r) THEN call[r].values[c] ELSE row[x][c]
      BY <2>1, <3>1 DEF VehicleColumns
    <3> HIDE DEF new
    <3>3. /\ Sites' = Sites
          /\ CardOf(x) \in Cards
          /\ Cards' = (Cards \ {CardOf(x)}) \cup {CardOf(x)'}
      BY <1>5, <2>1, <2>2, <2>4, OneCard
    <3>4. CASE Changed(r) \cap {"callsign", "location"} = {}
      BY <2>1, <2>2, <3>2, <3>4, SameBoard DEF Ids
    <3>5. CASE "callsign" \in Changed(r)
      <4> DEFINE sign == call[r].values["callsign"]
      <4>1. PICK s \in Callsigns : s = sign BY <1>2, <3>5 DEF ColumnRange
      <4>2. CardOf(x)' = Board!Card(s, CardOf(x).at)
        BY <1>2, <3>2, <3>5, <4>1 DEF CardOf, Board!Card
      <4>3. CASE row[x]["callsign"] = s
        BY <1>2, <2>1, <2>2, <3>2, <3>5, <4>1, <4>3, SameBoard DEF Ids
      <4>4. CASE row[x]["callsign"] # s
        <5>1. Named(s) \ {x} = {} BY <1>3, <1>5, <3>5, <4>1 DEF Violates
        <5>2. ~ Board!Used(s) BY <2>4, <4>4, <5>1, FreeSign
        <5>3. Board!Rename(CardOf(x), s) BY <3>3, <4>2, <5>2 DEF Board!Rename
        <5> QED BY <3>3, <5>3 DEF Board!Next
      <4> QED BY <4>3, <4>4
    <3>6. CASE "location" \in Changed(r)
      <4>1. PICK at \in Locations \cup {None} : at = call[r].values["location"]
        BY <1>2, <3>6 DEF ColumnRange
      <4>2. CardOf(x)' = Board!Card(CardOf(x).callsign, at)
        BY <1>2, <3>2, <3>6, <4>1 DEF CardOf, Board!Card
      <4>3. at \in Sites \cup {None} BY <1>5, <3>6, <4>1 DEF Violates, Sites
      <4>4. Board!Assign(CardOf(x), at) BY <3>3, <4>2, <4>3 DEF Board!Assign
      <4> QED BY <3>3, <4>4 DEF Board!Next
    <3> QED BY <3>4, <3>5, <3>6
  <2> QED BY <2>3, <2>4
<1> QED BY <1>3, <1>4, <1>5 DEF Update, Rollback

LEMMA CreateLocationBoard ==
  ASSUME IInv, NEW l \in Locations, CreateLocation(l)
  PROVE  [Board!Next]_(Board!vars)
<1>1. PICK active \in BOOLEAN :
        row' = [row EXCEPT ![l] = [c \in LocationColumns |->
                                     IF c = "active" THEN active ELSE Default]]
  BY DEF CreateLocation
<1> DEFINE new == [c \in LocationColumns |-> IF c = "active" THEN active ELSE Default]
<1>2. new # None
  <2>1. \A c \in LocationColumns : new[c] \in ColumnRange(c) /\ new[c] \in AllValues
    BY ConstantsAssumption DEF LocationColumns, ColumnRange, AllValues
  <2>2. new \in LocationRows BY <2>1 DEF LocationRows, Assignments
  <2> QED BY <2>2, NoneAssumption
<1>3. row' = [row EXCEPT ![l] = new] BY <1>1
<1> HIDE DEF new
<1>4. ~ Exists(l) /\ Exists(l)' /\ \A y \in Ids \ {l} : row'[y] = row[y]
  BY <1>2, <1>3 DEF IInv, TypeOK, CreateLocation, Fresh, Exists, Ids
<1>5. l \notin Sites /\ Sites' = Sites \cup {l} BY <1>4 DEF Sites, Exists, Ids
<1>6. \A v \in Vehicles : row'[v] = row[v] BY <1>4, ConstantsAssumption DEF Ids
<1>7. Cards' = Cards BY <1>6 DEF Cards, CardOf, Exists
<1> QED BY <1>5, <1>7 DEF Board!Next, Board!Open

LEMMA DeleteVehicleBoard ==
  ASSUME IInv, NEW v \in Vehicles, DeleteVehicle(v)
  PROVE  [Board!Next]_(Board!vars)
<1>1. Exists(v) /\ ~ Exists(v)' /\ \A y \in Ids \ {v} : row'[y] = row[y]
  BY DEF DeleteVehicle, Exists, IInv, TypeOK, Ids
<1>2. Sites' = Sites /\ CardOf(v) \in Cards /\ Cards' = Cards \ {CardOf(v)}
  BY <1>1, OneCard
<1> QED BY <1>2 DEF Board!Next, Board!Retire

\* The commit of a deletion sends those it has locked on the road, and nobody else
\* is at the location.
LEMMA DeleteBoard ==
  ASSUME IInv, NEW r \in Requests, Delete(r)
  PROVE  [Board!Next]_(Board!vars)
<1>1. pc[r] = "delete" /\ call[r] \in Calls /\ call[r].handler \in Deletes
  BY DEF Delete, IInv, Labelled, HandlersAt
<1>2. PICK l \in Locations : l = Target(r)
  BY <1>1, ColumnsOfCalls DEF Target, Targets
<1>3. CASE Rollback(r, "conflict") BY <1>3, RowsKeepBoard DEF Rollback
<1>4. CASE /\ At(l) \ locked[r] = {}
           /\ row' = [x \in Ids |->
                IF x = l THEN None
                ELSE IF x \in locked[r] THEN [row[x] EXCEPT !["location"] = None]
                ELSE row[x]]
  <2> DEFINE leaving == {CardOf(v) : v \in locked[r]}
  <2>1. \A v \in locked[r] : v \in Vehicles /\ Exists(v) BY DEF IInv, TypeOK, LocksHold
  <2>2. \A v \in Vehicles : v \in Ids /\ v # l BY ConstantsAssumption DEF Ids
  <2>3. Sites' = Sites \ {l}
    <3>1. \A k \in Locations : k \in Ids /\ k \notin locked[r]
      BY <2>1, ConstantsAssumption DEF Ids
    <3>2. \A k \in Locations : Exists(k)' <=> Exists(k) /\ k # l
      BY <1>4, <3>1 DEF Exists
    <3> QED BY <3>2 DEF Sites
  <2>4. \A v \in locked[r] : row'[v] = [row[v] EXCEPT !["location"] = None]
    BY <1>4, <2>1, <2>2
  <2>5. \A v \in Vehicles \ locked[r] : row'[v] = row[v] BY <1>4, <2>2
  <2>6. \A v \in locked[r] : Exists(v)' /\ CardOf(v)' = Board!OnTheRoad(CardOf(v))
    <3> SUFFICES ASSUME NEW v \in locked[r]
                 PROVE  Exists(v)' /\ CardOf(v)' = Board!OnTheRoad(CardOf(v))
      OBVIOUS
    <3>1. DOMAIN row[v] = VehicleColumns BY <2>1, Tables, CardTypes
    <3>2. row'[v]["callsign"] = row[v]["callsign"] /\ row'[v]["location"] = None
      BY <2>4, <3>1 DEF VehicleColumns
    <3>3. Exists(v)' BY <1>2, <1>4, <2>1, DeleteTables
    <3> QED BY <3>2, <3>3 DEF CardOf, Board!OnTheRoad
  <2>7. \A v \in Vehicles \ locked[r] : (Exists(v)' <=> Exists(v)) /\ CardOf(v)' = CardOf(v)
    BY <2>5 DEF Exists, CardOf
  <2>8. leaving \in SUBSET Cards BY <2>1 DEF Cards
  <2>9. {c \in Cards : c.at = l} \subseteq leaving
    BY <1>4 DEF Cards, At, CardOf
  <2>10. Cards' = (Cards \ leaving) \cup {Board!OnTheRoad(c) : c \in leaving}
    <3>1. \A v \in Vehicles \ locked[r] : Exists(v) => CardOf(v) \notin leaving
      BY <2>1 DEF IInv, FleetConsistent, CardOf
    <3>2. Cards' = {CardOf(v)' : v \in locked[r]}
                     \cup {CardOf(v) : v \in {w \in Vehicles \ locked[r] : Exists(w)}}
      BY <2>1, <2>6, <2>7 DEF Cards
    <3>3. {CardOf(v)' : v \in locked[r]} = {Board!OnTheRoad(c) : c \in leaving}
      BY <2>6
    <3>4. {CardOf(v) : v \in {w \in Vehicles \ locked[r] : Exists(w)}} = Cards \ leaving
      BY <3>1 DEF Cards
    <3> QED BY <3>2, <3>3, <3>4
  <2> HIDE DEF leaving
  <2>11. Board!Close(l) BY <2>3, <2>8, <2>9, <2>10 DEF Board!Close
  <2> QED BY <2>11 DEF Board!Next
<1> QED BY <1>2, <1>3, <1>4 DEF Delete

LEMMA NextBoard == IInv /\ [Next]_vars => [Board!Next]_(Board!vars)
<1> SUFFICES ASSUME IInv, [Next]_vars PROVE [Board!Next]_(Board!vars) OBVIOUS
<1>1. CASE UNCHANGED vars BY <1>1, RowsKeepBoard DEF vars
<1>2. ASSUME NEW r \in Requests, Begin(r) \/ End(r) \/ Invalid(r) \/ Load(r)
               \/ CheckCallsign(r) \/ CheckLocation(r) \/ OutOfBounds(r) \/ Refresh(r)
               \/ SelectVehicles(r) \/ SelectAssigned(r) \/ Detach(r)
      PROVE  UNCHANGED Board!vars
  <2>1. UNCHANGED row
    BY <1>2 DEF Begin, End, Invalid, Load, CheckCallsign, CheckLocation, OutOfBounds,
                Refresh, SelectVehicles, SelectAssigned, Detach, Rollback
  <2> QED BY <2>1, RowsKeepBoard
<1> QED BY <1>1, <1>2, InsertBoard, UpdateBoard, DeleteBoard, CreateLocationBoard,
           DeleteVehicleBoard DEF Next, Statement

\* The handlers, statement by statement and by primary key, keep one board of call
\* signs and places: no interleaving shows a reader a vehicle at a place nobody sent
\* it to, a call sign twice, or half a deletion.
THEOREM Refinement == Spec => ImplementsBoard
<1>1. Init => Board!Init
  BY DEF Init, Board!Init, Sites, Cards, Exists, Ids
<1> QED BY <1>1, NextBoard, Invariant, PTL DEF Spec, ImplementsBoard, Board!Spec
================================================================================
