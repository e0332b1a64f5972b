----------------------------- MODULE CheckInProofs -----------------------------
(***************************************************************************)
(* Proofs about CheckIn for all users, vehicles, requests and handlers.    *)
(*                                                                         *)
(* StoreConsistent is not inductive: that the row check_in commits is the   *)
(* only one of its user follows from what its transaction found when it     *)
(* reached the unique index, kept true since then by the locks of others.   *)
(* The invariant IInv adds what each label says about its request (Labelled, *)
(* Claimed), that a deleted row has one transaction to answer for it        *)
(* (LocksExclusive), and that a request past the unique index still has the *)
(* user name to itself (NameReserved).                                     *)
(*                                                                         *)
(* What the answers say needs AllTold in addition: unless another request   *)
(* has changed the rows a request is about, what it has read is current.    *)
(***************************************************************************)
EXTENDS CheckIn, TLAPS

\* The handlers a label belongs to.
HandlersAt(label) ==
  CASE label \in {"idle", "done"} -> AllHandlers
    [] label = "load_vehicle" -> {"check_in", "patch_position", "delete_vehicle"}
    [] label = "load_checkin" -> {"check_in", "check_out", "patch_position"}
    [] label = "delete_checkin" -> {"check_in", "check_out"}
    [] label \in {"insert_checkin", "commit_checkin"} -> {"check_in"}
    [] label \in {"load_account", "drop_account"} -> {"delete_user"}
    [] label \in {"select_rows", "delete_rows"} -> {"delete_vehicle", "delete_user"}
    [] label \in {"drop_vehicle", "check_references"} -> {"delete_vehicle"}
    [] label \in {"move_vehicle", "refresh_vehicle"} -> {"patch_position"}
    [] OTHER -> {}

Labelled ==
  \A r \in Requests : pc[r] # "idle" =>
    call[r] \in Calls /\ call[r].handler \in HandlersAt(pc[r])

\* A request reads and deletes only the rows its call names.
Named(x, c) ==
  CASE x.handler = "delete_vehicle" -> c.vehicle_id = x.target
    [] x.handler = "delete_user" -> c.username = x.target
    [] OTHER -> c.username = x.username

Claimed ==
  \A r \in Requests :
    /\ loaded[r] \cup deleted[r] # {} => pc[r] \notin {"idle", "done"}
    /\ \A c \in loaded[r] \cup deleted[r] : Named(call[r], c)
    /\ pc[r] = "delete_checkin" /\ call[r].handler = "check_out" =>
         \A c \in loaded[r] : c.vehicle_id = call[r].target

LocksExclusive ==
  \A r \in Requests :
    /\ deleted[r] \subseteq checkins
    /\ \A s \in Requests \ {r} : deleted[r] \cap deleted[s] = {}

NameReserved ==
  \A r \in Requests : pc[r] = "commit_checkin" =>
    /\ OwnRows(r) \subseteq deleted[r]
    /\ \A s \in Requests \ {r} :
         pc[s] = "commit_checkin" => call[s].username # call[r].username

IInv == TypeOK /\ Labelled /\ Claimed /\ LocksExclusive /\ NameReserved /\ StoreConsistent

--------------------------------------------------------------------------------
(* Typing.                                                                 *)

LEMMA ObserveType ==
  ASSUME TypeOK, Observe
  PROVE  witness' \in [Requests -> SUBSET {"on", "off", "gone", "changed"}]
<1> DEFINE S == {"on", "off", "gone", "changed"}
<1>1. ASSUME NEW r \in Requests
      PROVE  (IF call'[r] = None THEN {}
              ELSE witness[r] \cup Facts(call[r])'
                   \cup (IF call[r] # None /\ ChangedByAnother(r) THEN {"changed"} ELSE {}))
             \in SUBSET S
  <2>1. Facts(call[r])' \subseteq S BY DEF Facts
  <2>2. witness[r] \subseteq S BY DEF TypeOK
  <2> HIDE DEF S
  <2>3. "changed" \in S BY DEF S
  <2> QED BY <2>1, <2>2, <2>3
<1> QED BY <1>1 DEF Observe

LEMMA NextObserves ==
  ASSUME Next PROVE Observe
BY DEF Next, Statement, Begin, Deadlock, End, CreateVehicle, CreateUser, LoadVehicle,
       CheckInSelect, CheckOutSelect, PatchSelect, PatchOutOfBounds, CheckInDelete,
       CheckOutCommit, CheckInInsert, CheckInCommit, LoadAccount, SelectRows,
       DeleteRows, DropVehicle, CheckReferences, DropAccount, MoveVehicle,
       RefreshVehicle, Continue,
       Rollback, Answer

WitnessOK == witness' \in [Requests -> SUBSET {"on", "off", "gone", "changed"}]

--------------------------------------------------------------------------------
(* Steps by what they change.                                              *)

\* A request that ends without a commit.
LEMMA RollbackStep ==
  ASSUME IInv, WitnessOK, NEW r \in Requests, pc[r] # "idle",
         NEW o \in Outcomes, Rollback(r, o)
  PROVE  IInv'
<1> USE DEF Rollback, Answer, Goto, store
<1>1. TypeOK' BY DEF IInv, TypeOK, WitnessOK, Labels
<1>2. Labelled'
  <2>1. \A s \in Requests : s # r => pc'[s] = pc[s] /\ call'[s] = call[s]
    BY DEF IInv, TypeOK
  <2>2. pc'[r] = "done" /\ call'[r] = call[r] /\ call[r] \in Calls
    BY DEF IInv, TypeOK, Labelled
  <2>3. HandlersAt("done") = AllHandlers BY DEF HandlersAt
  <2>4. call[r].handler \in AllHandlers BY <2>2, ConstantsAssumption DEF Calls
  <2> QED BY <2>1, <2>2, <2>3, <2>4 DEF IInv, Labelled
<1>3. Claimed' BY DEF IInv, TypeOK, Claimed, Named
<1>4. LocksExclusive' BY DEF IInv, TypeOK, LocksExclusive
<1>5. NameReserved' BY DEF IInv, TypeOK, NameReserved, OwnRows, RowsOf
<1>6. StoreConsistent' BY DEF IInv, StoreConsistent
<1> QED BY <1>1, <1>2, <1>3, <1>4, <1>5, <1>6 DEF IInv

\* A statement that reads: it may load rows its call names.
LEMMA ReadStep ==
  ASSUME IInv, WitnessOK, NEW r \in Requests, pc[r] \notin {"idle", "done"},
         NEW label \in Labels \ {"idle", "done", "commit_checkin"},
         call[r].handler \in HandlersAt(label),
         Continue(r, label), UNCHANGED deleted,
         NEW R \in SUBSET checkins,
         loaded' = [loaded EXCEPT ![r] = R] \/ UNCHANGED loaded,
         loaded' # loaded => \A c \in R : Named(call[r], c),
         label = "delete_checkin" /\ call[r].handler = "check_out" =>
           \A c \in loaded'[r] : c.vehicle_id = call[r].target
  PROVE  IInv'
<1> USE DEF Continue, Goto, store
<1>1. TypeOK' BY DEF IInv, TypeOK, WitnessOK
<1>2. Labelled' BY DEF IInv, TypeOK, Labelled
<1>3. Claimed' BY DEF IInv, TypeOK, Claimed, Named
<1>4. LocksExclusive' BY DEF IInv, TypeOK, LocksExclusive
<1>5. NameReserved' BY DEF IInv, TypeOK, NameReserved, OwnRows, RowsOf
<1>6. StoreConsistent' BY DEF IInv, StoreConsistent
<1> QED BY <1>1, <1>2, <1>3, <1>4, <1>5, <1>6 DEF IInv

\* A DELETE that has waited for the locks of others.
LEMMA DeleteStep ==
  ASSUME IInv, WitnessOK, NEW r \in Requests,
         pc[r] \in {"delete_checkin", "delete_rows"}, Blockers(r) = {},
         deleted' = [deleted EXCEPT ![r] = loaded[r] \cap checkins],
         NEW label \in Labels \ {"idle", "done", "commit_checkin", "delete_checkin"},
         call[r].handler \in HandlersAt(label),
         Continue(r, label), UNCHANGED loaded
  PROVE  IInv'
<1> USE DEF Continue, Goto, store
<1>0. \A s \in Requests \ {r} : deleted[s] \cap loaded[r] = {}
  BY DEF Blockers, Lockers
<1>1. TypeOK' BY DEF IInv, TypeOK, WitnessOK
<1>2. Labelled' BY DEF IInv, TypeOK, Labelled
<1>3. Claimed' BY DEF IInv, TypeOK, Claimed, Named
<1>4. LocksExclusive' BY <1>0 DEF IInv, TypeOK, LocksExclusive
<1>5. NameReserved' BY DEF IInv, TypeOK, NameReserved, OwnRows, RowsOf
<1>6. StoreConsistent' BY DEF IInv, StoreConsistent
<1> QED BY <1>1, <1>2, <1>3, <1>4, <1>5, <1>6 DEF IInv

\* A commit that only removes rows, which no other request has locked, and none
\* of a vehicle's rows is left when the vehicle goes.
LEMMA RemoveStep ==
  ASSUME IInv, WitnessOK, NEW r \in Requests, pc[r] \notin {"idle", "done"},
         NEW R \in SUBSET Rows,
         \A s \in Requests \ {r} : deleted[s] \cap R = {},
         checkins' = checkins \ R,
         Answer(r, "ok"),
         vehicles' \subseteq vehicles,
         \A c \in checkins \ R : c.vehicle_id \in vehicles',
         accounts' \subseteq accounts
  PROVE  IInv'
<1> USE DEF Answer, Goto
<1>1. TypeOK' BY DEF IInv, TypeOK, WitnessOK, Labels, Outcomes
<1>2. Labelled'
  <2>1. \A s \in Requests : s # r => pc'[s] = pc[s] /\ call'[s] = call[s]
    BY DEF IInv, TypeOK
  <2>2. pc'[r] = "done" /\ call'[r] = call[r] /\ call[r] \in Calls
    BY DEF IInv, TypeOK, Labelled
  <2>3. HandlersAt("done") = AllHandlers BY DEF HandlersAt
  <2>4. call[r].handler \in AllHandlers BY <2>2, ConstantsAssumption DEF Calls
  <2> QED BY <2>1, <2>2, <2>3, <2>4 DEF IInv, Labelled
<1>3. Claimed' BY DEF IInv, TypeOK, Claimed, Named
<1>4. LocksExclusive' BY DEF IInv, TypeOK, LocksExclusive
<1>5. NameReserved' BY DEF IInv, TypeOK, NameReserved, OwnRows, RowsOf
<1>6. StoreConsistent' BY DEF IInv, StoreConsistent
<1> QED BY <1>1, <1>2, <1>3, <1>4, <1>5, <1>6 DEF IInv

\* The unique index lets the row of r in: nobody else is inserting that name.
LEMMA InsertStep ==
  ASSUME IInv, WitnessOK, NEW r \in Requests, CheckInInsert(r)
  PROVE  IInv'
<1>1. CASE ~ (OwnRows(r) \subseteq deleted[r])
  BY <1>1, RollbackStep DEF CheckInInsert, Outcomes, Continue
<1>2. CASE OwnRows(r) \subseteq deleted[r]
  <2> USE <1>2 DEF CheckInInsert, Continue, Goto, store, Rollback, Answer
  <2>0. \A s \in Requests \ {r} :
          pc[s] = "commit_checkin" => call[s].username # call[r].username
    BY DEF Blockers, Inserters
  <2>a. Continue(r, "commit_checkin") /\ UNCHANGED <<loaded, deleted>>
        /\ pc[r] = "insert_checkin"
    OBVIOUS
  <2> USE <2>a
  <2>1. TypeOK' BY DEF IInv, TypeOK, WitnessOK, Labels
  <2>2. Labelled' BY DEF IInv, TypeOK, Labelled, HandlersAt
  <2>3. Claimed' BY DEF IInv, TypeOK, Claimed, Named
  <2>4. LocksExclusive' BY DEF IInv, TypeOK, LocksExclusive
  <2>5. NameReserved' BY <2>0 DEF IInv, TypeOK, NameReserved, OwnRows, RowsOf
  <2>6. StoreConsistent' BY DEF IInv, StoreConsistent
  <2> QED BY <2>1, <2>2, <2>3, <2>4, <2>5, <2>6 DEF IInv
<1> QED BY <1>1, <1>2

\* The commit of a check-in puts the one new row in.
LEMMA CommitStep ==
  ASSUME IInv, WitnessOK, NEW r \in Requests, CheckInCommit(r)
  PROVE  IInv'
<1>1. CASE call[r].target \notin vehicles
  BY <1>1, RollbackStep DEF CheckInCommit, Outcomes
<1>2. CASE call[r].target \in vehicles
  <2> DEFINE c0 == CHOOSE c \in FreshRows(r) : TRUE
  <2>1. /\ pc[r] = "commit_checkin"
        /\ FreshRows(r) # {}
        /\ checkins' = (checkins \ deleted[r]) \cup {c0}
        /\ Answer(r, "ok")
        /\ UNCHANGED <<vehicles, accounts>>
    BY <1>2 DEF CheckInCommit, Rollback, store
  <2>2. /\ c0 \in Rows /\ c0 \notin checkins
        /\ c0.vehicle_id = call[r].target /\ c0.username = call[r].username
    BY <2>1 DEF FreshRows
  <2> HIDE DEF c0
  <2> USE <1>2, <2>1, <2>2 DEF Answer, Goto
  <2>3. \A c \in checkins \ deleted[r] : c.username # c0.username
    BY DEF IInv, NameReserved, OwnRows, RowsOf
  <2>4. TypeOK' BY DEF IInv, TypeOK, WitnessOK, Labels, Outcomes
  <2>5. Labelled'
    <3>1. \A s \in Requests : s # r => pc'[s] = pc[s] /\ call'[s] = call[s]
      BY DEF IInv, TypeOK
    <3>2. pc'[r] = "done" /\ call'[r] = call[r] /\ call[r] \in Calls
      BY DEF IInv, TypeOK, Labelled
    <3>3. HandlersAt("done") = AllHandlers BY DEF HandlersAt
    <3>4. call[r].handler \in AllHandlers BY <3>2, ConstantsAssumption DEF Calls
    <3> QED BY <3>1, <3>2, <3>3, <3>4 DEF IInv, Labelled
  <2>6. Claimed' BY DEF IInv, TypeOK, Claimed, Named
  <2>7. LocksExclusive' BY DEF IInv, TypeOK, LocksExclusive
  <2>8. NameReserved'
    BY DEF IInv, TypeOK, NameReserved, OwnRows, RowsOf, LocksExclusive
  <2>9. StoreConsistent' BY <2>3 DEF IInv, StoreConsistent
  <2> QED BY <2>4, <2>5, <2>6, <2>7, <2>8, <2>9 DEF IInv
<1> QED BY <1>1, <1>2

LEMMA BeginStep ==
  ASSUME IInv, WitnessOK, NEW r \in Requests, Begin(r)
  PROVE  IInv'
<1>1. PICK c \in Calls : /\ call' = [call EXCEPT ![r] = c]
                         /\ Goto(r, FirstLabel(c))
                         /\ pc[r] = "idle"
                         /\ UNCHANGED <<store, loaded, deleted, outcome>>
  BY DEF Begin
<1>2. c.handler \in AllHandlers BY <1>1, ConstantsAssumption DEF Calls
<1>3. FirstLabel(c) \in {"load_vehicle", "load_checkin", "load_account"}
      /\ c.handler \in HandlersAt(FirstLabel(c))
  BY <1>2 DEF FirstLabel, HandlersAt, AllHandlers
<1>4. loaded[r] = {} /\ deleted[r] = {} BY <1>1 DEF IInv, Claimed
<1> USE <1>1, <1>3, <1>4 DEF Goto, store
<1>5. TypeOK' BY DEF IInv, TypeOK, WitnessOK, Labels
<1>6. Labelled' BY DEF IInv, TypeOK, Labelled
<1>7. Claimed' BY DEF IInv, TypeOK, Claimed, Named
<1>8. LocksExclusive' BY DEF IInv, TypeOK, LocksExclusive
<1>9. NameReserved' BY DEF IInv, TypeOK, NameReserved, OwnRows, RowsOf
<1>10. StoreConsistent' BY DEF IInv, StoreConsistent
<1> QED BY <1>5, <1>6, <1>7, <1>8, <1>9, <1>10 DEF IInv

LEMMA EndStep ==
  ASSUME IInv, WitnessOK, NEW r \in Requests, End(r)
  PROVE  IInv'
<1> USE DEF End, Goto, store
<1>1. TypeOK' BY DEF IInv, TypeOK, WitnessOK, Labels
<1>2. Labelled' BY DEF IInv, TypeOK, Labelled
<1>3. Claimed' BY DEF IInv, TypeOK, Claimed, Named
<1>4. LocksExclusive' BY DEF IInv, TypeOK, LocksExclusive
<1>5. NameReserved' BY DEF IInv, TypeOK, NameReserved, OwnRows, RowsOf
<1>6. StoreConsistent' BY DEF IInv, StoreConsistent
<1> QED BY <1>1, <1>2, <1>3, <1>4, <1>5, <1>6 DEF IInv

LEMMA CreateStep ==
  ASSUME IInv, WitnessOK,
         (\E v \in Vehicles : CreateVehicle(v)) \/ (\E u \in Users : CreateUser(u))
  PROVE  IInv'
<1> USE DEF CreateVehicle, CreateUser
<1>1. TypeOK' BY DEF IInv, TypeOK, WitnessOK
<1>2. Labelled' BY DEF IInv, TypeOK, Labelled
<1>3. Claimed' BY DEF IInv, TypeOK, Claimed, Named
<1>4. LocksExclusive' BY DEF IInv, TypeOK, LocksExclusive
<1>5. NameReserved' BY DEF IInv, TypeOK, NameReserved, OwnRows, RowsOf
<1>6. StoreConsistent' BY DEF IInv, StoreConsistent
<1> QED BY <1>1, <1>2, <1>3, <1>4, <1>5, <1>6 DEF IInv

--------------------------------------------------------------------------------
(* The invariant.                                                          *)

LEMMA StatementStep ==
  ASSUME IInv, WitnessOK, NEW r \in Requests, Statement(r)
  PROVE  IInv'
<1>0. /\ pc[r] # "idle" => call[r] \in Calls /\ call[r].handler \in HandlersAt(pc[r])
      /\ deleted[r] \subseteq checkins
      /\ checkins \subseteq Rows
      /\ \A c \in loaded[r] \cup deleted[r] : Named(call[r], c)
      /\ \A c \in checkins : c.vehicle_id \in vehicles
  BY DEF IInv, TypeOK, Labelled, LocksExclusive, Claimed, StoreConsistent
<1>1. CASE LoadVehicle(r)
  <2>1. CASE call[r].target \notin vehicles
    BY <1>1, <2>1, RollbackStep DEF LoadVehicle, Outcomes
  <2>2. CASE call[r].target \in vehicles
    <3>1. /\ pc[r] = "load_vehicle"
          /\ Continue(r, AfterVehicle[call[r].handler])
          /\ UNCHANGED <<loaded, deleted>>
      BY <1>1, <2>2 DEF LoadVehicle
    <3>2. call[r].handler \in {"check_in", "patch_position", "delete_vehicle"}
      BY <1>0, <3>1 DEF HandlersAt
    <3>3. /\ AfterVehicle[call[r].handler] \in Labels \ {"idle", "done", "commit_checkin"}
          /\ AfterVehicle[call[r].handler] # "delete_checkin"
          /\ call[r].handler \in HandlersAt(AfterVehicle[call[r].handler])
      BY <3>2 DEF AfterVehicle, Labels, HandlersAt, AllHandlers
    <3> QED BY <3>1, <3>3, ReadStep, Zenon
  <2> QED BY <2>1, <2>2
<1>2. CASE CheckInSelect(r)
  <2>1. OwnRows(r) \in SUBSET checkins /\ \A c \in OwnRows(r) : Named(call[r], c)
    BY <1>2 DEF OwnRows, RowsOf, Named, CheckInSelect
  <2> QED BY <1>2, <2>1, ReadStep DEF CheckInSelect, Labels, HandlersAt
<1>3. CASE CheckOutSelect(r)
  <2>1. CASE ~ OnTarget(r)
    BY <1>3, <2>1, RollbackStep DEF CheckOutSelect, Outcomes
  <2>2. CASE OnTarget(r)
    <3>1. OwnRows(r) \in SUBSET checkins /\ \A c \in OwnRows(r) : Named(call[r], c)
      BY <1>3 DEF OwnRows, RowsOf, Named, CheckOutSelect
    <3>2. \A c \in OwnRows(r) : c.vehicle_id = call[r].target
      BY <2>2 DEF OnTarget, OwnRows, RowsOf, IInv, StoreConsistent
    <3>3. loaded' = [loaded EXCEPT ![r] = OwnRows(r)] => loaded'[r] = OwnRows(r)
      BY DEF IInv, TypeOK
    <3> QED BY <1>3, <2>2, <3>1, <3>2, <3>3, ReadStep
            DEF CheckOutSelect, Labels, HandlersAt
  <2> QED BY <2>1, <2>2
<1>4. CASE PatchSelect(r)
  <2>1. CASE ~ OnTarget(r)
    BY <1>4, <2>1, RollbackStep DEF PatchSelect, Outcomes
  <2>2. CASE OnTarget(r)
    BY <1>4, <2>2, ReadStep DEF PatchSelect, Labels, HandlersAt
  <2> QED BY <2>1, <2>2
<1>5. CASE PatchOutOfBounds(r)
  BY <1>5, RollbackStep DEF PatchOutOfBounds, Outcomes
<1>6. CASE CheckInDelete(r)
  BY <1>6, DeleteStep DEF CheckInDelete, Labels, HandlersAt
<1>7. CASE CheckOutCommit(r)
  <2>1. \A s \in Requests \ {r} : deleted[s] \cap loaded[r] = {}
    BY <1>7 DEF CheckOutCommit, Blockers, Lockers
  <2>2. loaded[r] \in SUBSET Rows BY DEF IInv, TypeOK
  <2> QED BY <1>0, <1>7, <2>1, <2>2, RemoveStep DEF CheckOutCommit
<1>8. CASE CheckInInsert(r) BY <1>8, InsertStep
<1>9. CASE CheckInCommit(r) BY <1>9, CommitStep
<1>10. CASE LoadAccount(r)
  <2>1. CASE call[r].target \in accounts \ {call[r].username}
    <3>1. /\ pc[r] = "load_account"
          /\ Continue(r, "select_rows")
          /\ UNCHANGED <<loaded, deleted>>
      BY <1>10, <2>1 DEF LoadAccount
    <3>2. call[r].handler \in HandlersAt("select_rows") BY <1>0, <3>1 DEF HandlersAt
    <3> QED BY <3>1, <3>2, ReadStep DEF Labels
  <2>2. CASE call[r].target \notin accounts \ {call[r].username}
    BY <1>10, <2>2, RollbackStep DEF LoadAccount, Outcomes
  <2> QED BY <2>1, <2>2
<1>11. CASE SelectRows(r)
  <2> DEFINE R == IF call[r].handler = "delete_user" THEN RowsOf(call[r].target)
                                                     ELSE RowsOn(call[r].target)
  <2>1. call[r].handler \in {"delete_vehicle", "delete_user"}
    BY <1>0, <1>11 DEF SelectRows, HandlersAt
  <2>2. R \in SUBSET checkins /\ \A c \in R : Named(call[r], c)
    BY <2>1 DEF RowsOf, RowsOn, Named
  <2>3. call[r].handler \in HandlersAt("delete_rows") BY <2>1 DEF HandlersAt
  <2>4. /\ pc[r] = "select_rows"
        /\ loaded' = [loaded EXCEPT ![r] = R]
        /\ Continue(r, "delete_rows")
        /\ UNCHANGED deleted
    BY <1>11 DEF SelectRows
  <2>5. "delete_rows" \in Labels \ {"idle", "done", "commit_checkin"} BY DEF Labels
  <2>6. pc[r] \notin {"idle", "done"} BY <2>4
  <2> HIDE DEF R
  <2> QED BY <2>2, <2>3, <2>4, <2>5, <2>6, ReadStep
<1>12. CASE DeleteRows(r)
  <2>1. call[r].handler \in {"delete_vehicle", "delete_user"}
    BY <1>0, <1>12 DEF DeleteRows, HandlersAt
  <2> QED BY <1>12, <2>1, DeleteStep DEF DeleteRows, Labels, HandlersAt
<1>13. CASE DropVehicle(r)
  <2>1. CASE call[r].target \in vehicles
    BY <1>0, <1>13, <2>1, ReadStep DEF DropVehicle, Labels, HandlersAt
  <2>2. CASE call[r].target \notin vehicles
    BY <1>0, <1>13, <2>2, RemoveStep DEF DropVehicle, IInv, TypeOK, LocksExclusive
  <2> QED BY <2>1, <2>2
<1>14. CASE CheckReferences(r)
  <2>1. CASE Rollback(r, "conflict")
    BY <1>14, <2>1, RollbackStep DEF CheckReferences, Outcomes
  <2>2. CASE RowsOn(call[r].target) \ deleted[r] = {} /\ ~ Rollback(r, "conflict")
    <3>1. \A c \in checkins \ deleted[r] : c.vehicle_id # call[r].target
      BY <2>2 DEF RowsOn
    <3> QED BY <1>0, <1>14, <2>2, <3>1, RemoveStep
            DEF CheckReferences, IInv, TypeOK, LocksExclusive
  <2> QED BY <1>14, <2>1, <2>2 DEF CheckReferences
<1>15. CASE DropAccount(r)
  BY <1>0, <1>15, RemoveStep DEF DropAccount, IInv, TypeOK, LocksExclusive
<1>16. CASE MoveVehicle(r)
  <2>1. CASE call[r].target \notin vehicles
    BY <1>16, <2>1, RollbackStep DEF MoveVehicle, Outcomes
  <2>2. CASE call[r].target \in vehicles
    <3>1. /\ pc[r] = "move_vehicle"
          /\ Continue(r, "refresh_vehicle")
          /\ UNCHANGED <<loaded, deleted>>
      BY <1>16, <2>2 DEF MoveVehicle
    <3>2. call[r].handler \in HandlersAt("refresh_vehicle")
      BY <1>0, <3>1 DEF HandlersAt
    <3>3. "refresh_vehicle" \in Labels \ {"idle", "done", "commit_checkin"}
      BY DEF Labels
    <3> QED BY <3>1, <3>2, <3>3, ReadStep
  <2> QED BY <2>1, <2>2
<1>17. CASE RefreshVehicle(r) BY <1>17, RollbackStep DEF RefreshVehicle, Outcomes
<1> QED
  BY <1>1, <1>2, <1>3, <1>4, <1>5, <1>6, <1>7, <1>8, <1>9, <1>10, <1>11, <1>12,
     <1>13, <1>14, <1>15, <1>16, <1>17 DEF Statement

LEMMA DeadlockStep ==
  ASSUME IInv, WitnessOK, NEW r \in Requests, Deadlock(r)
  PROVE  IInv'
<1>1. pc[r] # "idle"
  <2>1. PICK C \in SUBSET Requests : r \in C /\ Deadlocked(C) BY DEF Deadlock
  <2>2. Blockers(r) # {} BY <2>1 DEF Deadlocked, Waiting
  <2> QED BY <2>2 DEF Blockers
<1> QED BY <1>1, RollbackStep DEF Deadlock, Outcomes

LEMMA InitIInv == Init => IInv
BY DEF Init, IInv, TypeOK, Labelled, Claimed, LocksExclusive, NameReserved,
       StoreConsistent, Labels, Named

LEMMA NextIInv == IInv /\ [Next]_vars => IInv'
<1> SUFFICES ASSUME IInv, [Next]_vars PROVE IInv' OBVIOUS
<1>1. CASE Next
  <2>0. WitnessOK BY <1>1, NextObserves, ObserveType DEF WitnessOK, IInv
  <2>1. ASSUME NEW r \in Requests,
               Begin(r) \/ Statement(r) \/ Deadlock(r) \/ End(r)
        PROVE  IInv'
    BY <2>0, <2>1, BeginStep, StatementStep, DeadlockStep, EndStep
  <2> QED BY <1>1, <2>0, <2>1, CreateStep DEF Next
<1>2. CASE UNCHANGED vars
  BY <1>2 DEF vars, IInv, TypeOK, Labelled, Claimed, Named, LocksExclusive,
              NameReserved, OwnRows, RowsOf, StoreConsistent
<1> QED BY <1>1, <1>2

\* The invariant holds in every reachable state.
THEOREM Invariant == Spec => []IInv
<1> QED BY InitIInv, NextIInv, PTL DEF Spec

\* The tables, requests, locks and answers always have their types.
THEOREM TypeCorrect == Spec => []TypeOK
<1>1. IInv => TypeOK BY DEF IInv
<1> QED BY <1>1, Invariant, PTL

\* Whatever requests run at once and whichever of them fail, are lost or fall
\* victim to a deadlock, no user is checked in twice and no check-in refers to a
\* vehicle that is gone.
THEOREM StoreStaysConsistent == Spec => []StoreConsistent
<1>1. IInv => StoreConsistent BY DEF IInv
<1> QED BY <1>1, Invariant, PTL

--------------------------------------------------------------------------------
(* The refinement.                                                         *)

OneRowEach(C) == C \subseteq Rows /\ \A c, d \in C : c.username = d.username => c = d

CrewOf(C) == [u \in Users |-> IF {c \in C : c.username = u} = {} THEN None
                              ELSE (CHOOSE c \in C : c.username = u).vehicle_id]

\* With one row for a user, the choice in Crew is no choice.
LEMMA CrewOfRow ==
  ASSUME NEW C, OneRowEach(C), NEW u \in Users
  PROVE  /\ \A c \in C : c.username = u => CrewOf(C)[u] = c.vehicle_id
         /\ (\A c \in C : c.username # u) => CrewOf(C)[u] = None
<1>1. ASSUME NEW c \in C, c.username = u
      PROVE  CrewOf(C)[u] = c.vehicle_id
  <2> DEFINE d == CHOOSE x \in C : x.username = u
  <2>1. d \in C /\ d.username = u BY <1>1
  <2>2. d = c BY <1>1, <2>1 DEF OneRowEach
  <2> QED BY <1>1, <2>2 DEF CrewOf
<1>2. (\A c \in C : c.username # u) => CrewOf(C)[u] = None BY DEF CrewOf
<1> QED BY <1>1, <1>2

\* Two tables with the same row for u have the same post for u.
LEMMA CrewOfSame ==
  ASSUME NEW C, OneRowEach(C), NEW D, OneRowEach(D), NEW u \in Users,
         \A c : c.username = u => (c \in C <=> c \in D)
  PROVE  CrewOf(C)[u] = CrewOf(D)[u]
<1>1. CASE \E c \in C : c.username = u
  BY <1>1, CrewOfRow
<1>2. CASE \A c \in C : c.username # u
  <2>1. \A c \in D : c.username # u BY <1>2
  <2> QED BY <1>2, <2>1, CrewOfRow
<1> QED BY <1>1, <1>2

\* Taking the row of one user away, if there is one, is Leave or nothing.
LEMMA RemoveIsLeave ==
  ASSUME IInv, IInv', NEW u \in Users, NEW R,
         \A c \in R : c.username = u,
         checkins' = checkins \ R, vehicles' = vehicles
  PROVE  [Register!Next]_(Register!vars)
<1> DEFINE C == checkins
           D == checkins'
<1>1. OneRowEach(C) /\ OneRowEach(D)
  BY DEF IInv, TypeOK, StoreConsistent, OneRowEach
<1>2. Crew = CrewOf(C) /\ Crew' = CrewOf(D) BY DEF Crew, CrewOf, RowsOf
<1>3. CASE R \cap C = {}
  <2>1. D = C BY <1>3
  <2> QED BY <1>2, <2>1 DEF Register!vars
<1>4. CASE R \cap C # {}
  <2>1. \A c \in D : c.username # u BY <1>1, <1>4 DEF OneRowEach
  <2>2. CrewOf(D)[u] = None
    <3> HIDE DEF C, D
    <3> QED BY <1>1, <2>1, CrewOfRow
  <2>3. ASSUME NEW w \in Users \ {u} PROVE CrewOf(D)[w] = CrewOf(C)[w]
    <3>1. \A c : c.username = w => (c \in D <=> c \in C) OBVIOUS
    <3> HIDE DEF C, D
    <3> QED BY <1>1, <3>1, CrewOfSame
  <2>4. CrewOf(D) = [CrewOf(C) EXCEPT ![u] = None] BY <2>2, <2>3 DEF CrewOf
  <2> QED BY <1>2, <2>4 DEF Register!Next, Register!Leave
<1> QED BY <1>3, <1>4

LEMMA CommitIsBoard ==
  ASSUME IInv, IInv', NEW r \in Requests, CheckInCommit(r), call[r].target \in vehicles
  PROVE  [Register!Next]_(Register!vars)
<1> DEFINE C == checkins
           D == checkins'
           u == call[r].username
           v == call[r].target
           c0 == CHOOSE c \in FreshRows(r) : TRUE
<1>1. /\ pc[r] = "commit_checkin"
      /\ FreshRows(r) # {}
      /\ D = (C \ deleted[r]) \cup {c0}
      /\ vehicles' = vehicles
  BY DEF CheckInCommit, Rollback, store
<1>2. c0.vehicle_id = v /\ c0.username = u BY <1>1 DEF FreshRows
<1>3. u \in Users /\ v \in Vehicles /\ call[r].handler = "check_in"
  BY <1>1 DEF IInv, TypeOK, Labelled, Calls, HandlersAt, Targets
<1>4. OneRowEach(C) /\ OneRowEach(D)
  BY DEF IInv, TypeOK, StoreConsistent, OneRowEach
<1>5. Crew = CrewOf(C) /\ Crew' = CrewOf(D) BY DEF Crew, CrewOf, RowsOf
<1>6. \A c \in deleted[r] : c.username = u BY <1>3 DEF IInv, Claimed, Named
<1>7. CrewOf(D)[u] = v
  <2>1. c0 \in D BY <1>1
  <2> HIDE DEF D, c0, u, v
  <2> QED BY <1>2, <1>3, <1>4, <2>1, CrewOfRow
<1>8. ASSUME NEW w \in Users \ {u} PROVE CrewOf(D)[w] = CrewOf(C)[w]
  <2>1. \A c : c.username = w => (c \in D <=> c \in C)
    <3> HIDE DEF C, D, c0, u
    <3> QED BY <1>1, <1>2, <1>6
  <2> HIDE DEF C, D, u
  <2> QED BY <1>4, <2>1, CrewOfSame
<1>9. CrewOf(D) = [CrewOf(C) EXCEPT ![u] = v]
  <2> HIDE DEF C, D, u, v
  <2>1. /\ CrewOf(D) = [w \in Users |-> CrewOf(D)[w]]
        /\ CrewOf(C) = [w \in Users |-> CrewOf(C)[w]]
    BY DEF CrewOf
  <2> QED BY <1>7, <1>8, <2>1
<1> QED BY <1>1, <1>3, <1>5, <1>9 DEF Register!Next, Register!Board

LEMMA ReferencesIsScrap ==
  ASSUME IInv, IInv', NEW r \in Requests, CheckReferences(r),
         checkins' = checkins \ deleted[r], vehicles' = vehicles \ {call[r].target},
         RowsOn(call[r].target) \subseteq deleted[r]
  PROVE  [Register!Next]_(Register!vars)
<1> DEFINE C == checkins
           D == checkins'
           v == call[r].target
<1>1. pc[r] = "check_references" BY DEF CheckReferences
<1>2. v \in Vehicles /\ call[r].handler = "delete_vehicle"
  BY <1>1 DEF IInv, Labelled, Calls, HandlersAt, Targets
<1>3. OneRowEach(C) /\ OneRowEach(D)
  BY DEF IInv, TypeOK, StoreConsistent, OneRowEach
<1>4. Crew = CrewOf(C) /\ Crew' = CrewOf(D) BY DEF Crew, CrewOf, RowsOf
<1>5. \A c \in deleted[r] : c \in C /\ c.vehicle_id = v
  BY <1>2 DEF IInv, Claimed, Named, LocksExclusive
<1>6. \A c \in C : c \in D <=> c.vehicle_id # v BY <1>5 DEF RowsOn
<1>7. ASSUME NEW w \in Users
      PROVE  CrewOf(D)[w] = IF CrewOf(C)[w] = v THEN None ELSE CrewOf(C)[w]
  <2>1. CASE \E c \in C : c.username = w
    <3>1. PICK c \in C : c.username = w BY <2>1
    <3>2. CrewOf(C)[w] = c.vehicle_id BY <1>3, <3>1, CrewOfRow
    <3>3. CASE c.vehicle_id = v
      <4>1. \A d \in D : d.username # w BY <1>3, <1>6, <3>1, <3>3 DEF OneRowEach
      <4>2. CrewOf(D)[w] = None
        <5> HIDE DEF D
        <5> QED BY <1>3, <4>1, CrewOfRow
      <4> QED BY <3>2, <3>3, <4>2
    <3>4. CASE c.vehicle_id # v
      <4>1. c \in D BY <1>6, <3>1, <3>4
      <4>2. CrewOf(D)[w] = c.vehicle_id
        <5> HIDE DEF D
        <5> QED BY <1>3, <3>1, <4>1, CrewOfRow
      <4> QED BY <3>2, <3>4, <4>2
    <3> QED BY <3>3, <3>4
  <2>2. CASE \A c \in C : c.username # w
    <3>1. \A d \in D : d.username # w BY <2>2
    <3>2. CrewOf(C)[w] = None BY <1>3, <2>2, CrewOfRow
    <3>3. CrewOf(D)[w] = None
      <4> HIDE DEF D
      <4> QED BY <1>3, <3>1, CrewOfRow
    <3> QED BY <3>2, <3>3
  <2> QED BY <2>1, <2>2
<1>8. CrewOf(D) = [w \in Users |-> IF CrewOf(C)[w] = v THEN None ELSE CrewOf(C)[w]]
  <2> HIDE DEF C, v
  <2>1. CrewOf(D) = [w \in Users |-> CrewOf(D)[w]] BY DEF CrewOf
  <2> HIDE DEF D
  <2> QED BY <1>7, <2>1
<1> QED BY <1>2, <1>4, <1>8 DEF Register!Next, Register!Scrap

LEMMA NextSimulates ==
  ASSUME IInv, IInv', [Next]_vars
  PROVE  [Register!Next]_(Register!vars)
<1>1. CASE vehicles' = vehicles /\ checkins' = checkins
  BY <1>1 DEF Register!vars, Crew, RowsOf
<1>2. ASSUME NEW r \in Requests, CheckOutCommit(r)
      PROVE  [Register!Next]_(Register!vars)
  <2>1. call[r].username \in Users
    BY <1>2 DEF CheckOutCommit, IInv, Labelled, Calls
  <2>2. \A c \in loaded[r] : c.username = call[r].username
    BY <1>2 DEF CheckOutCommit, IInv, Claimed, Named
  <2> QED BY <1>2, <2>1, <2>2, RemoveIsLeave DEF CheckOutCommit
<1>3. ASSUME NEW r \in Requests, CheckInCommit(r), call[r].target \in vehicles
      PROVE  [Register!Next]_(Register!vars)
  BY <1>3, CommitIsBoard
<1>4. ASSUME NEW r \in Requests, DropVehicle(r), call[r].target \notin vehicles
      PROVE  vehicles' = vehicles /\ checkins' = checkins
  <2>1. /\ pc[r] = "drop_vehicle"
        /\ vehicles' = vehicles
        /\ checkins' = checkins \ deleted[r]
    BY <1>4 DEF DropVehicle
  <2>2. call[r].handler = "delete_vehicle"
    BY <2>1 DEF IInv, Labelled, HandlersAt
  <2>3. \A c \in deleted[r] : c.vehicle_id \notin vehicles
    BY <1>4, <2>2 DEF IInv, Claimed, Named
  <2>4. deleted[r] = {} BY <2>3 DEF IInv, LocksExclusive, StoreConsistent
  <2> QED BY <2>1, <2>4
<1>5. ASSUME NEW r \in Requests, CheckReferences(r), ~ Rollback(r, "conflict")
      PROVE  [Register!Next]_(Register!vars)
  BY <1>5, ReferencesIsScrap DEF CheckReferences
<1>6. ASSUME NEW r \in Requests, DropAccount(r)
      PROVE  [Register!Next]_(Register!vars)
  <2>1. call[r].handler = "delete_user" /\ call[r].target \in Users
    BY <1>6 DEF DropAccount, IInv, Labelled, HandlersAt, Calls, Targets
  <2>2. \A c \in deleted[r] : c.username = call[r].target
    BY <2>1 DEF IInv, Claimed, Named
  <2> QED BY <1>6, <2>1, <2>2, RemoveIsLeave DEF DropAccount
<1>7. ASSUME NEW v \in Vehicles, CreateVehicle(v)
      PROVE  [Register!Next]_(Register!vars)
  BY <1>7 DEF CreateVehicle, Register!Next, Register!Commission, Crew, RowsOf
<1>8. ASSUME NEW r \in Requests, Statement(r)
      PROVE  [Register!Next]_(Register!vars)
  BY <1>1, <1>2, <1>3, <1>4, <1>5, <1>6, <1>8
     DEF Statement, LoadVehicle, CheckInSelect, CheckOutSelect, PatchSelect,
         PatchOutOfBounds, CheckInDelete, CheckInInsert, CheckInCommit, LoadAccount,
         SelectRows, DeleteRows, DropVehicle, MoveVehicle, RefreshVehicle, Continue, Rollback, store,
         CheckReferences
<1>9. ASSUME NEW r \in Requests, Begin(r) \/ Deadlock(r) \/ End(r)
      PROVE  [Register!Next]_(Register!vars)
  BY <1>1, <1>9 DEF Begin, Deadlock, End, Rollback, store
<1>10. ASSUME NEW u \in Users, CreateUser(u)
       PROVE  [Register!Next]_(Register!vars)
  BY <1>1, <1>10 DEF CreateUser
<1>11. CASE UNCHANGED vars BY <1>1, <1>11 DEF vars
<1> QED BY <1>7, <1>8, <1>9, <1>10, <1>11 DEF Next

\* The check-in tables, changed statement by statement by requests that overlap
\* and fail, are at every moment a state of the register, and every commit is one
\* of its atomic steps: a new check-in replaces the old without a moment in
\* between, and a vehicle goes together with its whole crew.
THEOREM Refinement == Spec => ImplementsRegister
<1>1. Init => Register!Init
  BY DEF Init, Register!Init, Crew, RowsOf
<1>2. Spec => [][Register!Next]_(Register!vars)
  BY Invariant, NextSimulates, PTL DEF Spec
<1> QED BY <1>1, <1>2, PTL DEF Spec, ImplementsRegister, Register!Spec

--------------------------------------------------------------------------------
(* Who may remove a check-in.                                              *)

LEMMA NextRemoves ==
  ASSUME IInv, [Next]_vars, NEW c \in checkins, c \notin checkins'
  PROVE  \E r \in Requests : MayRemove(r, c)
<1>1. ASSUME NEW r \in Requests, CheckOutCommit(r)
      PROVE  MayRemove(r, c)
  <2>1. c \in loaded[r] /\ pc[r] = "delete_checkin" /\ call[r].handler = "check_out"
    BY <1>1 DEF CheckOutCommit
  <2>2. c.username = call[r].username /\ c.vehicle_id = call[r].target
    BY <2>1 DEF IInv, Claimed, Named
  <2> QED BY <1>1, <2>1, <2>2
          DEF CheckOutCommit, Answer, Goto, MayRemove, IInv, TypeOK
<1>2. ASSUME NEW r \in Requests, CheckInCommit(r)
      PROVE  MayRemove(r, c)
  <2> DEFINE d == CHOOSE x \in FreshRows(r) : TRUE
  <2>1. /\ pc[r] = "commit_checkin" /\ FreshRows(r) # {}
        /\ checkins' = (checkins \ deleted[r]) \cup {d}
        /\ Answer(r, "ok")
    BY <1>2 DEF CheckInCommit, Rollback, store
  <2>2. d.vehicle_id = call[r].target /\ d.username = call[r].username
    BY <2>1 DEF FreshRows
  <2>3. d \in checkins' /\ c \in deleted[r] BY <2>1
  <2> HIDE DEF d
  <2>4. call[r].handler = "check_in" BY <2>1 DEF IInv, Labelled, HandlersAt
  <2>5. c.username = call[r].username BY <2>3, <2>4 DEF IInv, Claimed, Named
  <2> QED BY <2>1, <2>2, <2>3, <2>4, <2>5 DEF Answer, Goto, MayRemove, IInv, TypeOK
<1>3. ASSUME NEW r \in Requests, DropVehicle(r) \/ CheckReferences(r)
      PROVE  MayRemove(r, c)
  <2>1. /\ pc[r] \in {"drop_vehicle", "check_references"}
        /\ Answer(r, "ok") /\ c \in deleted[r]
    BY <1>3 DEF DropVehicle, CheckReferences, Continue, Rollback, store
  <2>2. call[r].handler = "delete_vehicle" BY <2>1 DEF IInv, Labelled, HandlersAt
  <2>3. c.vehicle_id = call[r].target BY <2>1, <2>2 DEF IInv, Claimed, Named
  <2> QED BY <2>1, <2>2, <2>3 DEF Answer, Goto, MayRemove, IInv, TypeOK
<1>4. ASSUME NEW r \in Requests, DropAccount(r)
      PROVE  MayRemove(r, c)
  <2>1. pc[r] = "drop_account" /\ Answer(r, "ok") /\ c \in deleted[r]
    BY <1>4 DEF DropAccount
  <2>2. call[r].handler = "delete_user" BY <2>1 DEF IInv, Labelled, HandlersAt
  <2>3. c.username = call[r].target BY <2>1, <2>2 DEF IInv, Claimed, Named
  <2> QED BY <2>1, <2>2, <2>3 DEF Answer, Goto, MayRemove, IInv, TypeOK
<1>5. ASSUME NEW r \in Requests, Statement(r)
      PROVE  MayRemove(r, c)
  BY <1>1, <1>2, <1>3, <1>4, <1>5
     DEF Statement, LoadVehicle, CheckInSelect, CheckOutSelect, PatchSelect,
         PatchOutOfBounds, CheckInDelete, CheckInInsert, LoadAccount, SelectRows,
         DeleteRows, MoveVehicle, RefreshVehicle, Continue, Rollback, store
<1>6. ASSUME checkins' = checkins PROVE FALSE BY <1>6
<1> QED BY <1>5, <1>6
        DEF Next, vars, Begin, Deadlock, End, CreateVehicle, CreateUser,
            Rollback, store

\* For all requests at once: a committed check-in disappears only in the commit
\* of a request that named it.
THEOREM RemovalsAreNamed == Spec => OnlyNamedRemovals
<1>1. IInv /\ [Next]_vars =>
        [\A c \in checkins \ checkins' : \E r \in Requests : MayRemove(r, c)]_vars
  BY NextRemoves
<1> QED BY <1>1, Invariant, PTL DEF Spec, OnlyNamedRemovals

--------------------------------------------------------------------------------
(* The answers.                                                            *)

\* The labels at which a request may have deleted rows and not committed.
DeletedBy == {"insert_checkin", "commit_checkin", "drop_vehicle", "check_references",
              "drop_account"}

\* What a request has read, or deleted, is all that concerns it.
Current(r) ==
  /\ pc[r] \in {"delete_checkin", "delete_rows"} => loaded[r] = Concern(call[r])
  /\ pc[r] \in DeletedBy => Concern(call[r]) \subseteq deleted[r]

\* What AnswersWereTrue and FailuresAreRaces say of the answer o to the call c, by
\* what was seen.
Justified(c, o, seen) ==
  /\ o = "missing" => "gone" \in seen
  /\ o = "refused" =>
       IF c.handler = "delete_user" THEN c.target = c.username ELSE "off" \in seen
  /\ o = "ok" =>
       /\ c.handler = "check_in" => "on" \in seen
       /\ c.handler = "check_out" => seen \cap {"off", "changed"} # {}
       /\ c.handler = "patch_position" => c.username \in Admins \/ "on" \in seen
       /\ c.handler = "delete_vehicle" => "gone" \in seen
       /\ c.handler = "delete_user" => "gone" \in seen /\ seen \cap {"off", "changed"} # {}
  /\ o = "conflict" =>
       \/ c.handler = "check_in" /\ seen \cap {"changed", "gone"} # {}
       \/ c.handler = "delete_vehicle" /\ "changed" \in seen
  /\ o = "stale" => c.handler = "patch_position" /\ "gone" \in seen
  /\ o = "deadlock" => c.handler \in {"check_in", "delete_vehicle"}

\* A request has seen the tables as they are; unless another request has changed its
\* rows, what it has read is current; a position is not moved before its user was
\* seen on the vehicle; and its answer is justified.
Told(r) ==
  /\ call[r] # None => Facts(call[r]) \subseteq witness[r]
  /\ "changed" \in witness[r] \/ Current(r)
  /\ deleted[r] # {} => pc[r] \in DeletedBy
  /\ pc[r] \in {"load_vehicle", "move_vehicle", "refresh_vehicle"}
       /\ call[r].handler = "patch_position" /\ call[r].username \notin Admins =>
       "on" \in witness[r]
  /\ outcome[r] # None => pc[r] = "done" /\ Justified(call[r], outcome[r], witness[r])

AllTold == \A r \in Requests : Told(r)

LEMMA WitnessGrows ==
  ASSUME IInv, Observe, NEW r \in Requests, call'[r] # None
  PROVE  /\ witness[r] \cup Facts(call[r])' \subseteq witness'[r]
         /\ call[r] # None /\ ChangedByAnother(r) => "changed" \in witness'[r]
BY DEF Observe

\* Users and vehicles are told apart, so the target of a call says which column it is.
LEMMA CallTypes ==
  ASSUME NEW c \in Calls
  PROVE  /\ c # None
         /\ c.handler \in AllHandlers
         /\ c.username \in Users
         /\ c.handler = "delete_user" => c.target \in Users /\ c.target \notin Vehicles
         /\ c.handler # "delete_user" => c.target \in Vehicles /\ c.target \notin Users
BY ConstantsAssumption, NoneAssumption DEF Calls, Targets

\* A step leaves the answer of a request that it is not a step of.
LEMMA ToldBystander ==
  ASSUME IInv, Observe, NEW o \in Requests, Told(o),
         pc'[o] = pc[o], call'[o] = call[o], loaded'[o] = loaded[o],
         deleted'[o] = deleted[o], outcome'[o] = outcome[o]
  PROVE  Told(o)'
<1>1. call'[o] # None => Facts(call[o])' \subseteq witness'[o] BY WitnessGrows
<1>2. CASE pc[o] = "idle"
  <2>1. Current(o)' BY <1>2 DEF Current, DeletedBy
  <2> QED BY <1>1, <1>2, <2>1 DEF Told
<1>3. CASE pc[o] # "idle"
  <2>1. call[o] \in Calls /\ call[o] # None BY <1>3, CallTypes DEF IInv, Labelled
  <2>2. witness[o] \subseteq witness'[o] BY <2>1, WitnessGrows
  <2>3. "changed" \in witness'[o] \/ Current(o)'
    <3>1. CASE Concern(call[o])' # Concern(call[o])
      BY <2>1, <3>1, WitnessGrows DEF ChangedByAnother
    <3>2. CASE Concern(call[o])' = Concern(call[o]) BY <2>2, <3>2 DEF Told, Current
    <3> QED BY <3>1, <3>2
  <2>4. outcome[o] # None => Justified(call[o], outcome[o], witness'[o])
    BY <2>2 DEF Told, Justified
  <2> QED BY <1>1, <2>2, <2>3, <2>4 DEF Told
<1> QED BY <1>2, <1>3

\* A request that ends with an answer that is justified.
LEMMA ToldAnswer ==
  ASSUME IInv, NEW r \in Requests, pc[r] # "idle", NEW o \in Outcomes, Answer(r, o),
         Justified(call[r], o, witness[r] \cup Facts(call[r])')
  PROVE  Told(r)'
<1>1. /\ pc'[r] = "done" /\ call'[r] = call[r] /\ call[r] # None
      /\ outcome'[r] = o /\ deleted'[r] = {} /\ Observe
  BY CallTypes DEF Answer, Goto, IInv, TypeOK, Labelled
<1>2. witness[r] \cup Facts(call[r])' \subseteq witness'[r] BY <1>1, WitnessGrows
<1>3. Justified(call[r], o, witness'[r]) BY <1>2 DEF Justified
<1>4. Current(r)' BY <1>1 DEF Current, DeletedBy
<1> QED BY <1>1, <1>2, <1>3, <1>4 DEF Told

LEMMA ToldRollback ==
  ASSUME IInv, NEW r \in Requests, Told(r), pc[r] # "idle", NEW o \in Outcomes,
         Rollback(r, o), Justified(call[r], o, witness[r])
  PROVE  Told(r)'
<1>1. Justified(call[r], o, witness[r] \cup Facts(call[r])') BY DEF Justified
<1> QED BY <1>1, ToldAnswer DEF Rollback

\* A request that goes on: what it has loaded or deleted is current as far as its
\* rows were before.
LEMMA ToldContinue ==
  ASSUME IInv, NEW r \in Requests, Told(r), pc[r] \notin {"idle", "done"},
         NEW label \in Labels \ {"idle", "done"}, Continue(r, label),
         "changed" \in witness[r] \/
           /\ label \in {"delete_checkin", "delete_rows"} =>
                loaded'[r] = Concern(call[r])
           /\ label \in DeletedBy => Concern(call[r]) \subseteq deleted'[r],
         deleted'[r] # {} => label \in DeletedBy,
         label \in {"load_vehicle", "move_vehicle", "refresh_vehicle"}
           /\ call[r].handler = "patch_position" /\ call[r].username \notin Admins =>
           "on" \in witness[r]
  PROVE  Told(r)'
<1>1. /\ pc'[r] = label /\ call'[r] = call[r] /\ call[r] # None
      /\ outcome'[r] = None /\ Observe /\ UNCHANGED store
  BY CallTypes DEF Continue, Goto, IInv, TypeOK, Labelled, Told
<1>2. witness[r] \cup Facts(call[r])' \subseteq witness'[r] BY <1>1, WitnessGrows
<1>3. Concern(call[r])' = Concern(call[r])
  BY <1>1 DEF Concern, RowsOn, RowsOf, store
<1>4. "changed" \in witness'[r] \/ Current(r)' BY <1>1, <1>2, <1>3 DEF Current
<1> QED BY <1>1, <1>2, <1>4 DEF Told

\* What a request finds in the tables it has seen.
LEMMA Seen ==
  ASSUME IInv, NEW r \in Requests, Told(r), pc[r] # "idle"
  PROVE  /\ call[r].target \notin vehicles \cup accounts => "gone" \in witness[r]
         /\ call[r].handler \in {"check_in", "check_out", "patch_position"} =>
              (IF OnTarget(r) THEN "on" ELSE "off") \in witness[r]
<1>1. call[r] \in Calls /\ Facts(call[r]) \subseteq witness[r]
  BY CallTypes DEF IInv, Labelled, Told
<1>2. call[r].handler \in {"check_in", "check_out", "patch_position"} =>
        /\ Concern(call[r]) = OwnRows(r)
        /\ OnTarget(r) <=>
             \E x \in Concern(call[r]) : call[r].target \in {x.vehicle_id, x.username}
  <2> SUFFICES ASSUME call[r].handler \in {"check_in", "check_out", "patch_position"}
               PROVE  /\ Concern(call[r]) = OwnRows(r)
                      /\ OnTarget(r) <=> \E x \in Concern(call[r]) :
                                           call[r].target \in {x.vehicle_id, x.username}
    OBVIOUS
  <2>1. Concern(call[r]) = OwnRows(r) BY DEF Concern, OwnRows
  <2>2. \A x \in OwnRows(r) : x.username # call[r].target
    BY <1>1, CallTypes DEF OwnRows, RowsOf
  <2> QED BY <2>1, <2>2 DEF OnTarget
<1> QED BY <1>1, <1>2 DEF Facts

\* The rows that concern a deletion.
LEMMA ConcernOf ==
  ASSUME NEW r \in Requests
  PROVE  /\ call[r].handler = "delete_vehicle" => Concern(call[r]) = RowsOn(call[r].target)
         /\ call[r].handler = "delete_user" => Concern(call[r]) = RowsOf(call[r].target)
         /\ call[r].handler \in {"check_in", "check_out", "patch_position"} =>
              Concern(call[r]) = OwnRows(r)
         /\ Concern(call[r]) \subseteq checkins
BY DEF Concern, OwnRows, RowsOf, RowsOn

LEMMA ToldSelects ==
  ASSUME IInv, NEW r \in Requests, Told(r),
         LoadVehicle(r) \/ CheckInSelect(r) \/ CheckOutSelect(r) \/ PatchSelect(r)
           \/ PatchOutOfBounds(r) \/ LoadAccount(r) \/ SelectRows(r)
  PROVE  Told(r)'
<1>0. /\ pc[r] \notin {"idle", "done"} \cup DeletedBy /\ deleted[r] = {}
      /\ call[r] \in Calls /\ call[r].handler \in HandlersAt(pc[r])
  BY DEF LoadVehicle, CheckInSelect, CheckOutSelect, PatchSelect, PatchOutOfBounds,
         LoadAccount, SelectRows, Told, IInv, Labelled, DeletedBy
<1>1. CASE LoadVehicle(r)
  <2>1. pc[r] = "load_vehicle"
        /\ call[r].handler \in {"check_in", "patch_position", "delete_vehicle"}
    BY <1>0, <1>1 DEF LoadVehicle, HandlersAt
  <2>2. CASE call[r].target \notin vehicles
    <3>1. "gone" \in witness[r]
      BY <1>0, <2>1, <2>2, Seen, CallTypes DEF IInv, TypeOK
    <3>2. Rollback(r, "missing") BY <1>1, <2>2 DEF LoadVehicle
    <3>3. Justified(call[r], "missing", witness[r]) BY <3>1 DEF Justified
    <3> QED BY <1>0, <3>2, <3>3, ToldRollback DEF Outcomes
  <2>3. CASE call[r].target \in vehicles
    <3> DEFINE label == AfterVehicle[call[r].handler]
    <3>1. /\ label \in {"load_checkin", "move_vehicle", "select_rows"}
          /\ label = "move_vehicle" => call[r].handler = "patch_position"
      BY <2>1 DEF AfterVehicle, AllHandlers
    <3>2. Continue(r, label) /\ UNCHANGED deleted BY <1>1, <2>3 DEF LoadVehicle
    <3>3. label = "move_vehicle" /\ call[r].username \notin Admins => "on" \in witness[r]
      BY <2>1, <3>1 DEF Told
    <3> HIDE DEF label
    <3>4. label \in Labels \ {"idle", "done"}
          /\ label \notin DeletedBy \cup {"delete_checkin", "delete_rows", "load_vehicle",
                                          "refresh_vehicle"}
      BY <3>1 DEF Labels, DeletedBy
    <3> QED BY <1>0, <3>2, <3>3, <3>4, ToldContinue
  <2> QED BY <2>2, <2>3
<1>2. CASE CheckInSelect(r)
  <2> DEFINE label == IF OwnRows(r) = {} THEN "insert_checkin" ELSE "delete_checkin"
  <2>1. /\ call[r].handler = "check_in" /\ Continue(r, label) /\ UNCHANGED deleted
        /\ loaded'[r] = OwnRows(r)
    BY <1>2 DEF CheckInSelect, IInv, TypeOK
  <2>2. Concern(call[r]) = OwnRows(r) BY <2>1, ConcernOf
  <2>3. /\ label \in {"delete_checkin", "insert_checkin"}
        /\ label = "insert_checkin" => OwnRows(r) = {}
    OBVIOUS
  <2> HIDE DEF label
  <2>4. label \in Labels \ {"idle", "done"} BY <2>3 DEF Labels
  <2> QED BY <1>0, <2>1, <2>2, <2>3, <2>4, ToldContinue DEF DeletedBy
<1>3. CASE CheckOutSelect(r)
  <2>1. call[r].handler = "check_out" BY <1>3 DEF CheckOutSelect
  <2>2. CASE ~ OnTarget(r)
    <3>1. "off" \in witness[r] BY <1>0, <2>1, <2>2, Seen
    <3>2. Justified(call[r], "ok", witness[r]) BY <2>1, <3>1 DEF Justified
    <3> QED BY <1>0, <1>3, <2>2, <3>2, ToldRollback DEF CheckOutSelect, Outcomes
  <2>3. CASE OnTarget(r)
    <3>1. Continue(r, "delete_checkin") /\ UNCHANGED deleted /\ loaded'[r] = OwnRows(r)
      BY <1>3, <2>3 DEF CheckOutSelect, IInv, TypeOK
    <3>2. Concern(call[r]) = OwnRows(r) BY <2>1, ConcernOf
    <3> QED BY <1>0, <3>1, <3>2, ToldContinue DEF Labels, DeletedBy
  <2> QED BY <2>2, <2>3
<1>4. CASE PatchSelect(r)
  <2>1. call[r].handler = "patch_position" BY <1>4 DEF PatchSelect
  <2>2. CASE ~ OnTarget(r)
    <3>1. "off" \in witness[r] BY <1>0, <2>1, <2>2, Seen
    <3>2. Justified(call[r], "refused", witness[r]) BY <2>1, <3>1 DEF Justified
    <3> QED BY <1>0, <1>4, <2>2, <3>2, ToldRollback DEF PatchSelect, Outcomes
  <2>3. CASE OnTarget(r)
    <3>1. "on" \in witness[r] BY <1>0, <2>1, <2>3, Seen
    <3>2. Continue(r, "load_vehicle") /\ UNCHANGED deleted
      BY <1>4, <2>3 DEF PatchSelect
    <3> QED BY <1>0, <3>1, <3>2, ToldContinue DEF Labels, DeletedBy
  <2> QED BY <2>2, <2>3
<1>5. CASE PatchOutOfBounds(r)
  <2>1. Justified(call[r], "invalid", witness[r]) BY DEF Justified
  <2> QED BY <1>0, <1>5, <2>1, ToldRollback DEF PatchOutOfBounds, Outcomes
<1>6. CASE LoadAccount(r)
  <2>1. call[r].handler = "delete_user" BY <1>0, <1>6 DEF LoadAccount, HandlersAt
  <2>2. CASE Rollback(r, "missing") /\ call[r].target \notin accounts
    <3>1. "gone" \in witness[r]
      BY <1>0, <2>1, <2>2, Seen, CallTypes DEF IInv, TypeOK
    <3>2. Justified(call[r], "missing", witness[r]) BY <3>1 DEF Justified
    <3> QED BY <1>0, <2>2, <3>2, ToldRollback DEF Outcomes
  <2>3. CASE Rollback(r, "refused") /\ call[r].target = call[r].username
    <3>1. Justified(call[r], "refused", witness[r]) BY <2>1, <2>3 DEF Justified
    <3> QED BY <1>0, <2>3, <3>1, ToldRollback DEF Outcomes
  <2>4. CASE Continue(r, "select_rows") /\ UNCHANGED deleted
    BY <1>0, <2>4, ToldContinue DEF Labels, DeletedBy
  <2> QED BY <1>6, <2>2, <2>3, <2>4 DEF LoadAccount
<1>7. CASE SelectRows(r)
  <2>1. call[r].handler \in {"delete_vehicle", "delete_user"}
    BY <1>0, <1>7 DEF SelectRows, HandlersAt
  <2>2. Continue(r, "delete_rows") /\ UNCHANGED deleted /\ loaded'[r] = Concern(call[r])
    BY <1>7, <2>1, ConcernOf DEF SelectRows, IInv, TypeOK
  <2> QED BY <1>0, <2>2, ToldContinue DEF Labels, DeletedBy
<1> QED BY <1>1, <1>2, <1>3, <1>4, <1>5, <1>6, <1>7

LEMMA ToldCheckIn ==
  ASSUME IInv, NEW r \in Requests, Told(r),
         CheckInDelete(r) \/ CheckInInsert(r) \/ CheckInCommit(r)
  PROVE  Told(r)'
<1>0. /\ pc[r] \in {"delete_checkin", "insert_checkin", "commit_checkin"}
      /\ call[r] \in Calls /\ call[r].handler = "check_in"
      /\ Concern(call[r]) = OwnRows(r)
  BY ConcernOf DEF CheckInDelete, CheckInInsert, CheckInCommit, IInv, Labelled, HandlersAt
<1>1. CASE CheckInDelete(r)
  <2>1. /\ Continue(r, "insert_checkin") /\ pc[r] = "delete_checkin"
        /\ deleted'[r] = loaded[r] \cap checkins
    BY <1>1 DEF CheckInDelete, IInv, TypeOK
  <2>2. "changed" \in witness[r] \/ Concern(call[r]) \subseteq deleted'[r]
    BY <2>1, ConcernOf DEF Told, Current
  <2> QED BY <2>1, <2>2, ToldContinue DEF Labels, DeletedBy
<1>2. CASE CheckInInsert(r)
  <2>1. pc[r] = "insert_checkin" BY <1>2 DEF CheckInInsert
  <2>2. CASE Continue(r, "commit_checkin") /\ UNCHANGED deleted
    BY <2>1, <2>2, ToldContinue DEF Labels, DeletedBy, Told, Current
  <2>3. CASE Rollback(r, "conflict") /\ ~ (OwnRows(r) \subseteq deleted[r])
    <3>1. "changed" \in witness[r] BY <1>0, <2>1, <2>3 DEF Told, Current, DeletedBy
    <3>2. Justified(call[r], "conflict", witness[r]) BY <1>0, <3>1 DEF Justified
    <3> QED BY <2>1, <2>3, <3>2, ToldRollback DEF Outcomes
  <2> QED BY <1>2, <2>2, <2>3 DEF CheckInInsert
<1>3. CASE CheckInCommit(r)
  <2>1. pc[r] = "commit_checkin" BY <1>3 DEF CheckInCommit
  <2>2. CASE Rollback(r, "conflict") /\ call[r].target \notin vehicles
    <3>1. "gone" \in witness[r]
      BY <1>0, <2>1, <2>2, Seen, CallTypes DEF IInv, TypeOK
    <3>2. Justified(call[r], "conflict", witness[r]) BY <1>0, <3>1 DEF Justified
    <3> QED BY <2>1, <2>2, <3>2, ToldRollback DEF Outcomes
  <2>3. CASE /\ FreshRows(r) # {}
             /\ checkins' = (checkins \ deleted[r]) \cup {CHOOSE c \in FreshRows(r) : TRUE}
             /\ Answer(r, "ok")
    <3>1. PICK c \in FreshRows(r) : c \in checkins' BY <2>3
    <3>2. c.vehicle_id = call[r].target /\ c.username = call[r].username
      BY <3>1 DEF FreshRows
    <3>3. call'[r] = call[r] BY <2>3 DEF Answer
    <3>4. "on" \in Facts(call[r])' BY <1>0, <3>1, <3>2, <3>3 DEF Facts, Concern, RowsOf
    <3>5. Justified(call[r], "ok", witness[r] \cup Facts(call[r])')
      BY <1>0, <3>4 DEF Justified
    <3> QED BY <2>1, <2>3, <3>5, ToldAnswer DEF Outcomes
  <2> QED BY <1>3, <2>2, <2>3 DEF CheckInCommit
<1> QED BY <1>1, <1>2, <1>3

LEMMA ToldDeletes ==
  ASSUME IInv, NEW r \in Requests, Told(r),
         CheckOutCommit(r) \/ DeleteRows(r) \/ DropVehicle(r) \/ CheckReferences(r)
           \/ DropAccount(r)
  PROVE  Told(r)'
<1>0. /\ pc[r] \notin {"idle", "done"}
      /\ call[r] \in Calls /\ call[r].handler \in HandlersAt(pc[r])
  BY DEF CheckOutCommit, DeleteRows, DropVehicle, CheckReferences, DropAccount, IInv, Labelled
<1>1. CASE CheckOutCommit(r)
  <2>1. /\ pc[r] = "delete_checkin" /\ call[r].handler = "check_out"
        /\ checkins' = checkins \ loaded[r] /\ Answer(r, "ok") /\ call'[r] = call[r]
    BY <1>1 DEF CheckOutCommit, Answer
  <2>2. "changed" \in witness[r] \/ loaded[r] = OwnRows(r)
    BY <2>1, ConcernOf DEF Told, Current
  <2>3. CASE loaded[r] = OwnRows(r)
    <3>1. Concern(call[r])' = {} BY <2>1, <2>3 DEF Concern, OwnRows, RowsOf
    <3>2. "off" \in Facts(call[r])' BY <3>1 DEF Facts
    <3>3. Justified(call[r], "ok", witness[r] \cup Facts(call[r])')
      BY <2>1, <3>2 DEF Justified
    <3> QED BY <2>1, <3>3, ToldAnswer DEF Outcomes
  <2>4. CASE "changed" \in witness[r]
    <3>1. Justified(call[r], "ok", witness[r] \cup Facts(call[r])')
      BY <2>1, <2>4 DEF Justified
    <3> QED BY <2>1, <3>1, ToldAnswer DEF Outcomes
  <2> QED BY <2>2, <2>3, <2>4
<1>2. CASE DeleteRows(r)
  <2> DEFINE label == IF call[r].handler = "delete_user" THEN "drop_account"
                                                         ELSE "drop_vehicle"
  <2>1. /\ pc[r] = "delete_rows" /\ Continue(r, label)
        /\ deleted'[r] = loaded[r] \cap checkins
    BY <1>2 DEF DeleteRows, IInv, TypeOK
  <2>2. "changed" \in witness[r] \/ Concern(call[r]) \subseteq deleted'[r]
    BY <2>1, ConcernOf DEF Told, Current
  <2>3. label \in {"drop_account", "drop_vehicle"} OBVIOUS
  <2> HIDE DEF label
  <2>4. /\ label \in DeletedBy /\ label \in Labels \ {"idle", "done"}
        /\ label \notin {"delete_checkin", "delete_rows", "load_vehicle", "move_vehicle",
                         "refresh_vehicle"}
    BY <2>3 DEF DeletedBy, Labels
  <2> QED BY <1>0, <2>1, <2>2, <2>4, ToldContinue
<1>3. CASE DropVehicle(r)
  <2>1. pc[r] = "drop_vehicle" /\ call[r].handler = "delete_vehicle"
    BY <1>0, <1>3 DEF DropVehicle, HandlersAt
  <2>2. CASE Continue(r, "check_references") /\ UNCHANGED deleted
    BY <1>0, <2>1, <2>2, ToldContinue DEF Labels, DeletedBy, Told, Current
  <2>3. CASE Answer(r, "ok") /\ call[r].target \notin vehicles
    <3>1. "gone" \in witness[r]
      BY <1>0, <2>1, <2>3, Seen, CallTypes DEF IInv, TypeOK
    <3>2. Justified(call[r], "ok", witness[r] \cup Facts(call[r])')
      BY <2>1, <3>1 DEF Justified
    <3> QED BY <1>0, <2>3, <3>2, ToldAnswer DEF Outcomes
  <2> QED BY <1>3, <2>2, <2>3 DEF DropVehicle
<1>4. CASE CheckReferences(r)
  <2>1. /\ pc[r] = "check_references" /\ call[r].handler = "delete_vehicle"
        /\ call[r].target \in Vehicles /\ call[r].target \notin Users
    BY <1>0, <1>4, CallTypes DEF CheckReferences, HandlersAt
  <2>2. CASE /\ vehicles' = vehicles \ {call[r].target}
             /\ UNCHANGED accounts /\ Answer(r, "ok")
    <3>1. call'[r] = call[r] BY <2>2 DEF Answer
    <3>2. call[r].target \notin vehicles' \cup accounts'
      BY <2>1, <2>2 DEF IInv, TypeOK
    <3>3. "gone" \in Facts(call[r])' BY <3>1, <3>2 DEF Facts
    <3>4. Justified(call[r], "ok", witness[r] \cup Facts(call[r])')
      BY <2>1, <3>3 DEF Justified
    <3> QED BY <1>0, <2>2, <3>4, ToldAnswer DEF Outcomes
  <2>3. CASE Rollback(r, "conflict") /\ RowsOn(call[r].target) \ deleted[r] # {}
    <3>1. "changed" \in witness[r]
      BY <2>1, <2>3, ConcernOf DEF Told, Current, DeletedBy
    <3>2. Justified(call[r], "conflict", witness[r]) BY <2>1, <3>1 DEF Justified
    <3> QED BY <1>0, <2>3, <3>2, ToldRollback DEF Outcomes
  <2> QED BY <1>4, <2>2, <2>3 DEF CheckReferences
<1>5. CASE DropAccount(r)
  <2>1. /\ pc[r] = "drop_account" /\ call[r].handler = "delete_user"
        /\ call[r].target \in Users /\ call[r].target \notin Vehicles
        /\ accounts' = accounts \ {call[r].target} /\ UNCHANGED vehicles
        /\ checkins' = checkins \ deleted[r] /\ Answer(r, "ok") /\ call'[r] = call[r]
    BY <1>0, <1>5, CallTypes DEF DropAccount, HandlersAt, Answer
  <2>2. call[r].target \notin vehicles' \cup accounts' BY <2>1 DEF IInv, TypeOK
  <2>3. "gone" \in Facts(call[r])' BY <2>1, <2>2 DEF Facts
  <2>4. "changed" \in witness[r] \/ "off" \in Facts(call[r])'
    <3>1. CASE RowsOf(call[r].target) \subseteq deleted[r]
      <4>1. Concern(call[r])' = {} BY <2>1, <3>1 DEF Concern, RowsOf
      <4> QED BY <4>1 DEF Facts
    <3> QED BY <2>1, <3>1, ConcernOf DEF Told, Current, DeletedBy
  <2>5. Justified(call[r], "ok", witness[r] \cup Facts(call[r])')
    BY <2>1, <2>3, <2>4 DEF Justified
  <2> QED BY <1>0, <2>1, <2>5, ToldAnswer DEF Outcomes
<1> QED BY <1>1, <1>2, <1>3, <1>4, <1>5

LEMMA ToldMoves ==
  ASSUME IInv, NEW r \in Requests, Told(r), MoveVehicle(r) \/ RefreshVehicle(r)
  PROVE  Told(r)'
<1>1. /\ pc[r] \in {"move_vehicle", "refresh_vehicle"}
      /\ call[r] \in Calls /\ call[r].handler = "patch_position"
  BY DEF MoveVehicle, RefreshVehicle, IInv, Labelled, HandlersAt
<1>2. CASE Continue(r, "refresh_vehicle") /\ UNCHANGED deleted
  BY <1>1, <1>2, ToldContinue DEF Labels, DeletedBy, Told
<1>3. CASE Rollback(r, "stale") /\ call[r].target \notin vehicles
  <2>1. "gone" \in witness[r] BY <1>1, <1>3, Seen, CallTypes DEF IInv, TypeOK
  <2>2. Justified(call[r], "stale", witness[r]) BY <1>1, <2>1 DEF Justified
  <2> QED BY <1>1, <1>3, <2>2, ToldRollback DEF Outcomes
<1>4. CASE Rollback(r, "ok")
  <2>1. call[r].username \in Admins \/ "on" \in witness[r] BY <1>1 DEF Told
  <2>2. Justified(call[r], "ok", witness[r]) BY <1>1, <2>1 DEF Justified
  <2> QED BY <1>1, <1>4, <2>2, ToldRollback DEF Outcomes
<1> QED BY <1>2, <1>3, <1>4 DEF MoveVehicle, RefreshVehicle

\* Who waits while another waits for it holds a lock: it is a check_in or a
\* delete_vehicle.
LEMMA ToldDeadlock ==
  ASSUME IInv, NEW r \in Requests, Told(r), Deadlock(r)
  PROVE  Told(r)'
<1>1. PICK C \in SUBSET Requests : r \in C /\ Deadlocked(C) BY DEF Deadlock
<1>2. Blockers(r) # {} BY <1>1 DEF Deadlocked, Waiting
<1>3. /\ pc[r] \in {"delete_checkin", "delete_rows", "insert_checkin", "commit_checkin",
                    "drop_vehicle", "move_vehicle", "check_references"}
      /\ call[r] \in Calls /\ call[r].handler \in HandlersAt(pc[r])
  BY <1>2 DEF Blockers, IInv, Labelled
<1>4. PICK x \in C : r \in Blockers(x)
  <2>1. SUFFICES ASSUME \A x \in C : r \notin Blockers(x) PROVE FALSE OBVIOUS
  <2>2. \A x \in C : Blockers(x) \cap (C \ {r}) # {} BY <1>1, <2>1 DEF Deadlocked, Waiting
  <2>3. C \ {r} # {} BY <1>1, <2>2
  <2>4. Waiting(C \ {r}) BY <2>2 DEF Waiting
  <2>5. C \ {r} \in (SUBSET C) \ {{}, C} BY <1>1, <2>3, Zenon
  <2> QED BY <1>1, <2>4, <2>5 DEF Deadlocked
<1>5. deleted[r] # {} \/ pc[r] \in {"check_references", "commit_checkin"}
  BY <1>4 DEF Blockers, Lockers, Droppers, Inserters
<1>6. pc[r] \in {"insert_checkin", "commit_checkin", "drop_vehicle", "check_references"}
  BY <1>3, <1>5 DEF Told, DeletedBy
<1>7. call[r].handler \in {"check_in", "delete_vehicle"} BY <1>3, <1>6 DEF HandlersAt
<1>8. Justified(call[r], "deadlock", witness[r]) BY <1>7 DEF Justified
<1> QED BY <1>3, <1>8, ToldRollback DEF Deadlock, Outcomes

LEMMA NextTold == IInv /\ AllTold /\ [Next]_vars => AllTold'
<1> SUFFICES ASSUME IInv, AllTold, [Next]_vars, NEW o \in Requests PROVE Told(o)'
  BY DEF AllTold
<1> USE DEF Goto
<1>1. Told(o) BY DEF AllTold
<1>2. CASE UNCHANGED vars
  BY <1>1, <1>2 DEF vars, Told, Current, Facts, Concern, RowsOf, RowsOn
<1>3. CASE Next
  <2>1. Observe BY <1>3, NextObserves
  <2>2. ASSUME NEW r \in Requests, Begin(r) \/ Statement(r) \/ Deadlock(r) \/ End(r)
        PROVE  Told(o)'
    <3>1. CASE o # r
      <4>1. /\ pc'[o] = pc[o] /\ call'[o] = call[o] /\ loaded'[o] = loaded[o]
            /\ deleted'[o] = deleted[o] /\ outcome'[o] = outcome[o]
        BY <2>2, <3>1 DEF Begin, Statement, Deadlock, End, LoadVehicle, CheckInSelect,
                  CheckOutSelect, PatchSelect, PatchOutOfBounds, CheckInDelete,
                  CheckOutCommit, CheckInInsert, CheckInCommit, LoadAccount, SelectRows,
                  DeleteRows, DropVehicle, CheckReferences, DropAccount, MoveVehicle,
                  RefreshVehicle, Continue, Rollback, Answer, IInv, TypeOK
      <4> QED BY <1>1, <2>1, <4>1, ToldBystander
    <3>2. CASE o = r /\ Statement(r)
      BY <1>1, <3>2, ToldSelects, ToldCheckIn, ToldDeletes, ToldMoves DEF Statement
    <3>3. CASE o = r /\ Deadlock(r) BY <1>1, <3>3, ToldDeadlock
    <3>4. CASE o = r /\ End(r)
      <4>1. pc'[r] = "idle" /\ call'[r] = None /\ deleted'[r] = {} /\ outcome'[r] = None
        BY <3>4 DEF End, IInv, TypeOK
      <4>2. Current(r)' BY <4>1 DEF Current, DeletedBy
      <4> QED BY <3>4, <4>1, <4>2 DEF Told
    <3>5. CASE o = r /\ Begin(r)
      <4>1. PICK c \in Calls : pc' = [pc EXCEPT ![r] = FirstLabel(c)]
                               /\ call' = [call EXCEPT ![r] = c]
        BY <3>5 DEF Begin
      <4>2. pc'[r] = FirstLabel(c) /\ call'[r] = c /\ outcome'[r] = None /\ deleted'[r] = {}
        BY <1>1, <3>5, <4>1 DEF Begin, Told, DeletedBy, IInv, TypeOK
      <4>3. /\ pc'[r] \in {"load_checkin", "load_account", "load_vehicle"}
            /\ c.handler = "patch_position" /\ c.username \notin Admins =>
                 pc'[r] = "load_checkin"
        BY <4>2 DEF FirstLabel
      <4>4. Facts(call[r])' \subseteq witness'[r] BY <2>1, <4>2, CallTypes, WitnessGrows
      <4>5. Current(r)' BY <4>3 DEF Current, DeletedBy
      <4> QED BY <3>5, <4>2, <4>3, <4>4, <4>5 DEF Told
    <3> QED BY <2>2, <3>1, <3>2, <3>3, <3>4, <3>5
  <2>3. CASE (\E v \in Vehicles : CreateVehicle(v)) \/ (\E u \in Users : CreateUser(u))
    BY <1>1, <2>1, <2>3, ToldBystander DEF CreateVehicle, CreateUser
  <2> QED BY <1>3, <2>2, <2>3 DEF Next
<1> QED BY <1>2, <1>3

LEMMA InitTold == Init => AllTold
BY DEF Init, AllTold, Told, Current, DeletedBy

LEMMA ToldIsJustified ==
  ASSUME AllTold PROVE AnswersWereTrue /\ FailuresAreRaces
<1>1. \A r \in Requests : outcome[r] \in Outcomes =>
        Justified(call[r], outcome[r], witness[r])
  BY NoneAssumption DEF AllTold, Told
<1>2. AnswersWereTrue BY <1>1 DEF AnswersWereTrue, Justified, Outcomes
<1>3. FailuresAreRaces BY <1>1 DEF FailuresAreRaces, Justified, Outcomes
<1> QED BY <1>2, <1>3

\* An answer was true at some moment between the request and the answer, however
\* check-ins, check-outs, positions and deletions interleave.
THEOREM AnswersAreTrue == Spec => []AnswersWereTrue
BY InitTold, NextTold, ToldIsJustified, Invariant, PTL DEF Spec

\* A constraint, a stale row or a deadlock ends a request only when another request
\* has changed what it works on.
THEOREM OnlyRacesFail == Spec => []FailuresAreRaces
BY InitTold, NextTold, ToldIsJustified, Invariant, PTL DEF Spec
================================================================================
