----------------------------- MODULE AccountsProofs -----------------------------
(***************************************************************************)
(* Proofs about Accounts, for any sets of keys, names and passwords and any *)
(* number of requests.                                                     *)
(*                                                                         *)
(* A request acts on what it looked up earlier.  What makes that safe is in *)
(* Prepared, what each request knows at each of its statements, and in      *)
(* StillNamed: a primary key it holds on to, if its row is there, is the    *)
(* account it was then, since names do not change and keys a request knows  *)
(* are not used again (KeysKeepNames).                                     *)
(*                                                                         *)
(* The last part maps each commit to a step of AccountRegister: one row     *)
(* changes, and its name is what tells it from the others.                 *)
(***************************************************************************)
EXTENDS Accounts, TLAPS

Prepared(r) ==
  /\ pc[r] # "idle" => call[r] \in Calls
  /\ pc[r] = "load" =>
       /\ call[r].handler \in Clicks /\ call[r].by \in Ids
       /\ call[r].target \in Ids /\ call[r].username \in Names
  /\ pc[r] = "find" =>
       /\ call[r].handler \in Creations \cup {"set_password"} /\ call[r].target = None
       /\ call[r].username \in Names /\ call[r].password \in Passwords
  /\ pc[r] = "write" =>
       \/ /\ call[r].handler \in Clicks /\ call[r].by \in Ids
          /\ call[r].target \in Ids /\ call[r].target # call[r].by /\ copy[r] \in Accounts
       \/ /\ call[r].handler \in Creations
          /\ call[r].username \in Names /\ call[r].password \in Passwords
       \/ /\ call[r].handler = "set_password" /\ call[r].target \in Ids
          /\ call[r].username \in Names /\ call[r].password \in Passwords
  /\ pc[r] \in DOMAIN LooksFor \cup {"seed"} => call[r].handler = "seed"

Rows == [Ids -> Accounts \cup {None}]

Holds(x, n) == Exists(x) => row[x].username = n

StillNamed(r) ==
  /\ pc[r] = "load" => Holds(call[r].by, call[r].username)
  /\ pc[r] = "write" /\ call[r].handler = "set_password" =>
       Holds(call[r].target, call[r].username)

IInv == TypeOK /\ NamesAreUnique /\ \A r \in Requests : Prepared(r) /\ StillNamed(r)

--------------------------------------------------------------------------------
(* Facts about rows and labels.                                            *)

\* The lookups of a start and what follows each.
LEMMA Lookups ==
  /\ DOMAIN LooksFor = {"admin", "viewer", "vehicles"}
  /\ \A label \in DOMAIN LooksFor : LooksFor[label] \in {"viewer", "vehicles", "seed"}
BY DEF LooksFor

\* A row that is there is an account.
LEMMA RowIsAccount ==
  ASSUME TypeOK, NEW x \in Ids, Exists(x)
  PROVE  row[x] \in Accounts
BY DEF TypeOK, Exists

\* What a change of the table may do to a key: remove the row, keep its name and
\* its type, or fill a key that nobody knows.
KeepsName(x) ==
  \/ row'[x] = None
  \/ Exists(x) /\ row'[x] \in Accounts /\ row'[x].username = row[x].username
  \/ Fresh(x) /\ row'[x] \in Accounts

\* Toggle, in full.
LEMMA ToggleStep ==
  ASSUME IInv, NEW r \in Requests, Toggle(r), Exists(call[r].target)
  PROVE  LET x == call[r].target
         IN /\ row' \in Rows /\ row'[x] \in Accounts
            /\ row'[x] = [row[x] EXCEPT !.enabled = ~ copy[r].enabled]
            /\ \A y \in Ids \ {x} : row'[y] = row[y]
<1> DEFINE x == call[r].target
<1>1. x \in Ids /\ copy[r] \in Accounts
  BY DEF IInv, Prepared, Toggle, Clicks, Creations
<1>2. row \in [Ids -> Accounts \cup {None}] /\ row[x] \in Accounts
  BY <1>1, RowIsAccount DEF IInv, TypeOK
<1>3. row' = [row EXCEPT ![x].enabled = ~ copy[r].enabled]
  BY DEF Toggle, Fail
<1>4. row'[x] = [row[x] EXCEPT !.enabled = ~ copy[r].enabled]
  BY <1>1, <1>2, <1>3
<1>5. [row[x] EXCEPT !.enabled = ~ copy[r].enabled] \in Accounts
  BY <1>1, <1>2 DEF Accounts
<1> QED
  BY <1>1, <1>2, <1>3, <1>4, <1>5 DEF Rows

\* SetPassword, in full.
LEMMA SetPasswordStep ==
  ASSUME IInv, NEW r \in Requests, SetPassword(r), Exists(call[r].target)
  PROVE  LET x == call[r].target
         IN /\ row' \in Rows /\ row'[x] \in Accounts
            /\ row'[x] = [row[x] EXCEPT !.password = call[r].password]
            /\ \A y \in Ids \ {x} : row'[y] = row[y]
<1> DEFINE x == call[r].target
<1>1. x \in Ids /\ call[r].password \in Passwords
  BY DEF IInv, Prepared, SetPassword, Clicks, Creations
<1>2. row \in [Ids -> Accounts \cup {None}] /\ row[x] \in Accounts
  BY <1>1, RowIsAccount DEF IInv, TypeOK
<1>3. row' = [row EXCEPT ![x].password = call[r].password]
  BY DEF SetPassword, Fail
<1>4. row'[x] = [row[x] EXCEPT !.password = call[r].password]
  BY <1>1, <1>2, <1>3
<1>5. [row[x] EXCEPT !.password = call[r].password] \in Accounts
  BY <1>1, <1>2 DEF Accounts
<1> QED
  BY <1>1, <1>2, <1>3, <1>4, <1>5 DEF Rows

\* DeleteUser, in full.
LEMMA DeleteStep ==
  ASSUME IInv, NEW r \in Requests, DeleteUser(r)
  PROVE  LET x == call[r].target
         IN /\ row' \in Rows /\ x \in Ids /\ row'[x] = None
            /\ \A y \in Ids \ {x} : row'[y] = row[y]
<1>1. call[r].target \in Ids
  BY DEF IInv, Prepared, DeleteUser, Clicks, Creations
<1> QED
  BY <1>1 DEF DeleteUser, IInv, TypeOK, Rows

\* CreateUser, when it succeeds, in full.
LEMMA CreateStep ==
  ASSUME IInv, NEW r \in Requests, CreateUser(r)
  PROVE  \/ row' = row
         \/ \E x \in Ids :
              /\ row' \in Rows
              /\ Fresh(x) /\ Named(call[r].username) = {}
              /\ row'[x] \in Accounts
              /\ row'[x].username = call[r].username
              /\ row'[x].password = call[r].password
              /\ row'[x].enabled = TRUE
              /\ \A y \in Ids \ {x} : row'[y] = row[y]
<1> DEFINE c == call[r]
           new == [username |-> c.username, password |-> c.password,
                   role |-> RoleOf(c), enabled |-> TRUE]
<1>1. c.username \in Names /\ c.password \in Passwords /\ c \in Calls
  BY DEF IInv, Prepared, CreateUser, Clicks, Creations
<1>2. new \in Accounts
  BY <1>1 DEF Accounts, RoleOf, Roles
<1>3. CASE Taken(c.username)
  BY <1>3 DEF CreateUser, Fail
<1>4. CASE ~ Taken(c.username)
  <2>1. PICK x \in Ids : Fresh(x) /\ row' = [row EXCEPT ![x] = new]
    BY <1>4 DEF CreateUser
  <2>2. row'[x] = new /\ row' \in Rows /\ \A y \in Ids \ {x} : row'[y] = row[y]
    BY <1>2, <2>1 DEF IInv, TypeOK, Rows
  <2> QED
    BY <1>2, <1>4, <2>1, <2>2 DEF Taken
<1> QED
  BY <1>3, <1>4

\* The names a start has found absent are at keys of their own now.
SeededAt(r, id) ==
  /\ row' \in Rows
  /\ \A n \in absent[r] \cap SeedNames :
       /\ Fresh(id[n]) /\ Named(n) = {}
       /\ row'[id[n]] = SeedAccount(n)
       /\ row'[id[n]] \in Accounts /\ row'[id[n]].username = n
  /\ \A x \in Ids : (\A n \in absent[r] \cap SeedNames : id[n] # x) => row'[x] = row[x]

\* Seed, in full.
LEMMA SeedStep ==
  ASSUME IInv, NEW r \in Requests, Seed(r)
  PROVE  \/ row' = row /\ vehicles' = vehicles /\ outcome'[r] = "conflict"
         \/ \E id \in [absent[r] \cap SeedNames -> Ids] : SeededAt(r, id)
<1> DEFINE new == absent[r] \cap SeedNames
           clash == (\E n \in new : Taken(n)) \/ ("vehicles" \in absent[r] /\ "seed" \in vehicles)
<1>1. CASE clash
  BY <1>1 DEF Seed, Fail, Answer, IInv, TypeOK
<1>2. CASE ~ clash
  <2>1. PICK id \in [new -> Ids] :
          /\ \A n \in new : Fresh(id[n])
          /\ \A n, o \in new : id[n] = id[o] => n = o
          /\ row' = [x \in Ids |-> IF \E n \in new : id[n] = x
                                   THEN SeedAccount(CHOOSE n \in new : id[n] = x)
                                   ELSE row[x]]
    BY <1>2 DEF Seed
  <2>2. \A n \in new : Named(n) = {}
    BY <1>2 DEF Taken
  <2>3. ASSUME NEW n \in new
        PROVE  /\ row'[id[n]] = SeedAccount(n)
               /\ row'[id[n]] \in Accounts /\ row'[id[n]].username = n
    <3>1. (CHOOSE o \in new : id[o] = id[n]) = n
      BY <2>1
    <3>2. row'[id[n]] = SeedAccount(n)
      BY <2>1, <3>1
    <3>3. SeedAccount(n) \in Accounts
      BY ConstantsAssumption DEF SeedAccount, Accounts, Roles, SeedNames
    <3> QED
      BY <3>2, <3>3 DEF SeedAccount
  <2>4. \A x \in Ids : (\A n \in new : id[n] # x) => row'[x] = row[x]
    BY <2>1
  <2>5. row' \in Rows
    <3>1. ASSUME NEW x \in Ids PROVE row'[x] \in Accounts \cup {None}
      BY <2>3, <2>4 DEF IInv, TypeOK
    <3>2. DOMAIN row' = Ids /\ row' = [x \in Ids |-> row'[x]]
      BY <2>1
    <3> QED
      BY <3>1, <3>2 DEF Rows
  <2>6. \A n \in new : Fresh(id[n])
    BY <2>1
  <2>7. SeededAt(r, id)
    BY <2>2, <2>3, <2>4, <2>5, <2>6 DEF SeededAt
  <2> QED
    BY <2>1, <2>7
<1> QED
  BY <1>1, <1>2

--------------------------------------------------------------------------------
(* What every step does to the rows, and to the other requests.            *)

\* A step of a request changes what belongs to that request only.
LEMMA OthersKeepTheirs ==
  ASSUME IInv, NEW r \in Requests, Begin(r) \/ Step(r), NEW q \in Requests, q # r
  PROVE  pc'[q] = pc[q] /\ call'[q] = call[q] /\ copy'[q] = copy[q]
<1>1. CASE Begin(r)
  BY <1>1 DEF Begin, Goto, IInv, TypeOK
<1>2. CASE Step(r)
  BY <1>2 DEF Step, LoadUser, Toggle, DeleteUser, Find, CreateUser, SetPassword, Look, Seed,
              Fail, Answer, Goto, IInv, TypeOK
<1> QED
  BY <1>1, <1>2

\* One request at a time goes on.
LEMMA OneAtATime ==
  ASSUME IInv, Next, NEW r \in Requests, NEW q \in Requests, pc'[r] # pc[r], pc'[q] # pc[q]
  PROVE  r = q
<1>1. ~ OthersChangeVehicles
  BY DEF OthersChangeVehicles
<1> QED
  BY <1>1, OthersKeepTheirs DEF Next

\* No step gives a key to somebody else while a request knows it.
LEMMA KeysKeepNames ==
  ASSUME IInv, Next, NEW x \in Ids
  PROVE  KeepsName(x)
<1>0. row'[x] = row[x] => KeepsName(x)
  BY DEF KeepsName, IInv, TypeOK, Exists
<1>1. ASSUME NEW r \in Requests, Begin(r) PROVE KeepsName(x)
  BY <1>0, <1>1 DEF Begin
<1>2. ASSUME NEW r \in Requests, LoadUser(r) \/ Find(r) \/ Look(r) PROVE KeepsName(x)
  BY <1>0, <1>2 DEF LoadUser, Find, Look, Fail
<1>3. ASSUME NEW r \in Requests, Toggle(r) PROVE KeepsName(x)
  <2>1. CASE ~ Exists(call[r].target)
    BY <1>0, <1>3, <2>1 DEF Toggle, Fail
  <2>2. CASE Exists(call[r].target)
    <3>1. row[x] \in Accounts => [row[x] EXCEPT !.enabled = ~ copy[r].enabled].username = row[x].username
      BY DEF Accounts
    <3> QED
      BY <1>0, <1>3, <2>2, <3>1, ToggleStep, RowIsAccount DEF KeepsName, IInv
  <2> QED
    BY <2>1, <2>2
<1>4. ASSUME NEW r \in Requests, SetPassword(r) PROVE KeepsName(x)
  <2>1. CASE ~ Exists(call[r].target)
    BY <1>0, <1>4, <2>1 DEF SetPassword, Fail
  <2>2. CASE Exists(call[r].target)
    <3>1. row[x] \in Accounts => [row[x] EXCEPT !.password = call[r].password].username = row[x].username
      BY DEF Accounts
    <3> QED
      BY <1>0, <1>4, <2>2, <3>1, SetPasswordStep, RowIsAccount DEF KeepsName, IInv
  <2> QED
    BY <2>1, <2>2
<1>5. ASSUME NEW r \in Requests, DeleteUser(r) PROVE KeepsName(x)
  BY <1>0, <1>5, DeleteStep DEF KeepsName
<1>6. ASSUME NEW r \in Requests, CreateUser(r) PROVE KeepsName(x)
  BY <1>0, <1>6, CreateStep DEF KeepsName
<1>7. ASSUME NEW r \in Requests, Seed(r) PROVE KeepsName(x)
  <2>1. CASE row' = row
    BY <1>0, <2>1
  <2>2. CASE row' # row
    <3>1. PICK id \in [absent[r] \cap SeedNames -> Ids] : SeededAt(r, id)
      BY <1>7, <2>2, SeedStep
    <3> QED
      BY <1>0, <3>1 DEF SeededAt, KeepsName
  <2> QED
    BY <2>1, <2>2
<1>8. CASE OthersChangeVehicles
  BY <1>0, <1>8 DEF OthersChangeVehicles
<1> QED
  BY <1>1, <1>2, <1>3, <1>4, <1>5, <1>6, <1>7, <1>8 DEF Next, Step

--------------------------------------------------------------------------------
(* The parts of the invariant.                                             *)

LEMMA RowsPreserved ==
  ASSUME IInv, Next
  PROVE  row' \in Rows
<1>0. row \in Rows
  BY DEF IInv, TypeOK, Rows
<1>1. ASSUME NEW r \in Requests, Begin(r) \/ LoadUser(r) \/ Find(r) \/ Look(r) PROVE row' = row
  BY <1>1 DEF Begin, LoadUser, Find, Look, Fail
<1>2. ASSUME NEW r \in Requests, Toggle(r) PROVE row' \in Rows
  <2>1. Exists(call[r].target) \/ row' = row
    BY <1>2 DEF Toggle, Fail
  <2> QED
    BY <1>0, <1>2, <2>1, ToggleStep
<1>3. ASSUME NEW r \in Requests, SetPassword(r) PROVE row' \in Rows
  <2>1. Exists(call[r].target) \/ row' = row
    BY <1>3 DEF SetPassword, Fail
  <2> QED
    BY <1>0, <1>3, <2>1, SetPasswordStep
<1>4. ASSUME NEW r \in Requests, DeleteUser(r) \/ CreateUser(r) \/ Seed(r) PROVE row' \in Rows
  BY <1>0, <1>4, DeleteStep, CreateStep, SeedStep DEF SeededAt
<1>5. CASE OthersChangeVehicles
  BY <1>0, <1>5 DEF OthersChangeVehicles
<1> QED
  BY <1>0, <1>1, <1>2, <1>3, <1>4, <1>5 DEF Next, Step

\* What may be asked is a call, with the arguments its handler needs.
LEMMA CallsAreTyped ==
  ASSUME IInv, NEW h \in Clicks \cup Creations \cup {"set_password", "seed"}, NEW c \in CallsOf(h)
  PROVE  /\ c \in Calls /\ c.handler = h
         /\ h \in Clicks => /\ c.by \in Ids /\ c.target \in Ids /\ c.username \in Names
                            /\ Holds(c.by, c.username)
         /\ h \in Creations \cup {"set_password"} =>
              c.target = None /\ c.username \in Names /\ c.password \in Passwords
<1>1. CASE h \in Clicks
  <2> DEFINE asked(a) == [handler : {h}, by : {a}, target : Ids, username : {row[a].username},
                          password : {None}, role : {None}]
  <2>0. c \in ClicksOf(h)
    BY <1>1 DEF CallsOf, Clicks, Creations
  <2>1. PICK a \in Administrators : c \in asked(a)
    BY <2>0 DEF ClicksOf
  <2>2. a \in Ids /\ row[a] \in Accounts
    BY RowIsAccount DEF Administrators, IInv
  <2>3. row[a].username \in Names
    BY <2>2 DEF Accounts
  <2> QED
    BY <1>1, <2>1, <2>2, <2>3 DEF Calls, Holds, Clicks, Creations
<1>2. CASE h \in Creations
  BY <1>2 DEF CallsOf, Entries, Calls, Clicks, Creations
<1>3. CASE h = "set_password"
  BY <1>3 DEF CallsOf, Entries, Calls, Clicks, Creations
<1>4. CASE h = "seed"
  BY <1>4 DEF CallsOf, Entries, Calls, Clicks, Creations
<1> QED
  BY <1>1, <1>2, <1>3, <1>4

\* TypeOK, one variable at a time.
LEMMA TypingPreserved ==
  ASSUME IInv, Next
  PROVE  TypeOK'
<1> USE DEF IInv, TypeOK
<1>1. vehicles' \subseteq Callsigns
  BY DEF Next, Begin, Step, LoadUser, Toggle, DeleteUser, Find, CreateUser, SetPassword, Look,
         Seed, Fail, OthersChangeVehicles, Callsigns
<1>2. pc' \in [Requests -> Labels]
  <2>1. ASSUME NEW r \in Requests, NEW label \in Labels, Goto(r, label)
        PROVE  pc' \in [Requests -> Labels]
    BY <2>1 DEF Goto
  <2>2. ASSUME NEW r \in Requests, Begin(r) PROVE pc' \in [Requests -> Labels]
    <3>1. Goto(r, "load") \/ Goto(r, "admin") \/ Goto(r, "find")
      BY <2>2 DEF Begin, Clicks, Creations
    <3> QED
      BY <2>1, <3>1 DEF Labels, LooksFor
  <2>3. ASSUME NEW r \in Requests, Look(r) PROVE pc' \in [Requests -> Labels]
    BY <2>1, <2>3, Lookups DEF Look, Labels
  <2>4. ASSUME NEW r \in Requests, LoadUser(r) \/ Toggle(r) \/ DeleteUser(r) \/ SetPassword(r)
        PROVE  pc' \in [Requests -> Labels]
    BY <2>1, <2>4 DEF LoadUser, Toggle, DeleteUser, SetPassword, Fail, Answer, Labels
  <2>5. ASSUME NEW r \in Requests, Find(r) \/ CreateUser(r) \/ Seed(r)
        PROVE  pc' \in [Requests -> Labels]
    BY <2>1, <2>5 DEF Find, CreateUser, Seed, Fail, Answer, Labels
  <2> QED
    BY <2>2, <2>3, <2>4, <2>5 DEF Next, Step, OthersChangeVehicles
<1>3. call' \in [Requests -> Calls \cup {None}]
  <2>1. ASSUME NEW r \in Requests, Begin(r) PROVE call' \in [Requests -> Calls \cup {None}]
    BY <2>1, CallsAreTyped DEF Begin
  <2>2. ASSUME NEW r \in Requests, Find(r) PROVE call' \in [Requests -> Calls \cup {None}]
    <3>1. CASE pc'[r] = "write" /\ call[r].handler = "set_password"
      <4>1. PICK x \in Ids : call' = [call EXCEPT ![r].target = x]
        BY <2>2, <3>1 DEF Find, Named, Fail, Answer, Goto, Creations
      <4>2. call[r] \in Calls
        BY <2>2 DEF Find, Prepared
      <4>3. [call[r] EXCEPT !.target = x] \in Calls
        BY <4>2 DEF Calls
      <4> QED
        BY <4>1, <4>3
    <3>2. CASE ~ (pc'[r] = "write" /\ call[r].handler = "set_password")
      BY <2>2, <3>2 DEF Find, Fail, Answer, Goto
    <3> QED
      BY <3>1, <3>2
  <2>3. ASSUME NEW r \in Requests, Step(r), ~ Find(r) PROVE call' \in [Requests -> Calls \cup {None}]
    BY <2>3 DEF Step, LoadUser, Toggle, DeleteUser, CreateUser, SetPassword, Look, Seed,
                Fail, Answer
  <2> QED
    BY <2>1, <2>2, <2>3 DEF Next, OthersChangeVehicles
<1>4. copy' \in [Requests -> Accounts \cup {None}]
  <2>1. ASSUME NEW r \in Requests, LoadUser(r) PROVE copy' \in [Requests -> Accounts \cup {None}]
    BY <2>1, RowIsAccount DEF LoadUser, Fail, Answer, Prepared
  <2>2. ASSUME NEW r \in Requests, Begin(r) \/ Step(r), ~ LoadUser(r)
        PROVE  copy' \in [Requests -> Accounts \cup {None}]
    BY <2>2 DEF Begin, Step, Toggle, DeleteUser, Find, CreateUser, SetPassword, Look, Seed,
                Fail, Answer
  <2> QED
    BY <2>1, <2>2 DEF Next, OthersChangeVehicles
<1>5. absent' \in [Requests -> SUBSET DOMAIN LooksFor]
  <2>1. ASSUME NEW r \in Requests, Begin(r) \/ Step(r)
        PROVE  absent' \in [Requests -> SUBSET DOMAIN LooksFor]
    BY <2>1 DEF Begin, Step, LoadUser, Toggle, DeleteUser, Find, CreateUser, SetPassword, Look,
                Seed, Fail, Answer
  <2> QED
    BY <2>1 DEF Next, OthersChangeVehicles
<1>6. outcome' \in [Requests -> Outcomes \cup {None}]
  <2>1. ASSUME NEW r \in Requests, Begin(r) \/ Step(r)
        PROVE  outcome' \in [Requests -> Outcomes \cup {None}]
    BY <2>1 DEF Begin, Step, LoadUser, Toggle, DeleteUser, Find, CreateUser, SetPassword, Look,
                Seed, Fail, Answer, Outcomes
  <2> QED
    BY <2>1 DEF Next, OthersChangeVehicles
<1> QED
  BY <1>1, <1>2, <1>3, <1>4, <1>5, <1>6, RowsPreserved DEF Rows

\* What a request knows after its own step.
LEMMA PreparedPreserved ==
  ASSUME IInv, Next, NEW q \in Requests
  PROVE  Prepared(q)'
<1> USE DEF IInv, TypeOK
<1>1. CASE OthersChangeVehicles
  BY <1>1 DEF OthersChangeVehicles, Prepared
<1>2. ASSUME NEW r \in Requests, r # q, Begin(r) \/ Step(r) PROVE Prepared(q)'
  <2>1. pc'[q] = pc[q] /\ call'[q] = call[q] /\ copy'[q] = copy[q]
    BY <1>2, OthersKeepTheirs
  <2> QED
    BY <2>1 DEF Prepared
<1>3. CASE Begin(q)
  <2>0. PICK h \in Clicks \cup Creations \cup {"set_password", "seed"} :
          /\ \E c \in CallsOf(h) : call' = [call EXCEPT ![q] = c]
          /\ Goto(q, CASE h \in Clicks -> "load" [] h = "seed" -> "admin" [] OTHER -> "find")
    BY <1>3 DEF Begin
  <2>1. PICK c \in CallsOf(h) :
          /\ call'[q] = c
          /\ pc'[q] = CASE h \in Clicks -> "load" [] h = "seed" -> "admin" [] OTHER -> "find"
    BY <2>0 DEF Goto
  <2>2. CASE h \in Clicks
    BY <2>1, <2>2, CallsAreTyped, Lookups DEF Prepared
  <2>3. CASE h = "seed"
    BY <2>1, <2>3, CallsAreTyped, Lookups DEF Prepared, Clicks
  <2>4. CASE h \in Creations \cup {"set_password"}
    BY <2>1, <2>4, CallsAreTyped, Lookups DEF Prepared, Clicks, Creations
  <2> QED
    BY <2>2, <2>3, <2>4
<1>4. CASE Find(q) /\ pc'[q] = "write"
  <2>1. CASE call[q].handler = "set_password"
    <3>1. PICK x \in Ids : call'[q] = [call[q] EXCEPT !.target = x]
      BY <1>4, <2>1 DEF Find, Named, Fail, Answer, Goto, Creations
    <3>2. call[q] \in Calls
      BY <1>4 DEF Find, Prepared
    <3> QED
      BY <1>4, <2>1, <3>1, <3>2, Lookups DEF Find, Prepared, Calls
  <2>2. CASE call[q].handler # "set_password"
    BY <1>4, <2>2, Lookups DEF Find, Prepared, Fail, Answer, Goto
  <2> QED
    BY <2>1, <2>2
<1>5. CASE LoadUser(q)
  BY <1>5, RowIsAccount, Lookups DEF LoadUser, Prepared, Fail, Answer, Goto
<1>6. CASE Look(q)
  BY <1>6, Lookups DEF Look, Prepared, Goto
<1>7. CASE Toggle(q) \/ DeleteUser(q) \/ CreateUser(q) \/ SetPassword(q) \/ Seed(q)
           \/ (Find(q) /\ pc'[q] # "write")
  BY <1>7, Lookups DEF Toggle, DeleteUser, CreateUser, SetPassword, Seed, Find, Prepared,
                       Fail, Answer, Goto
<1> QED
  BY <1>1, <1>2, <1>3, <1>4, <1>5, <1>6, <1>7 DEF Next, Step

\* A key that a request has looked up stays what it was.
LEMMA StillNamedPreserved ==
  ASSUME IInv, Next, NEW q \in Requests
  PROVE  StillNamed(q)'
<1> USE DEF IInv, TypeOK
<1>1. ASSUME pc'[q] = pc[q], call'[q] = call[q]
      PROVE  StillNamed(q)'
  <2>1. CASE pc[q] = "load"
    <3>1. Holds(call[q].by, call[q].username) /\ call[q].by \in Ids /\ call[q].username \in Names
      BY <2>1 DEF StillNamed, Prepared
    <3>2. Holds(call[q].by, call[q].username)'
      <4> DEFINE x == call[q].by
                 n == call[q].username
      <4>1. Holds(x, n) => row'[x] = None \/ row'[x].username = n
        BY <3>1, <2>1, KeysKeepNames DEF KeepsName, Holds, Exists, Fresh
      <4> QED
        BY <1>1, <3>1, <4>1 DEF Holds, Exists
    <3> QED
      BY <1>1, <2>1, <3>2 DEF StillNamed
  <2>2. CASE pc[q] = "write" /\ call[q].handler = "set_password"
    <3>1. /\ Holds(call[q].target, call[q].username)
          /\ call[q].target \in Ids /\ call[q].username \in Names
      BY <2>2 DEF StillNamed, Prepared, Clicks, Creations
    <3>2. Holds(call[q].target, call[q].username)'
      <4> DEFINE x == call[q].target
                 n == call[q].username
      <4>1. Holds(x, n) => row'[x] = None \/ row'[x].username = n
        BY <3>1, <2>2, KeysKeepNames DEF KeepsName, Holds, Exists, Fresh
      <4> QED
        BY <1>1, <3>1, <4>1 DEF Holds, Exists
    <3> QED
      BY <1>1, <2>2, <3>2 DEF StillNamed
  <2> QED
    BY <1>1, <2>1, <2>2 DEF StillNamed
<1>2. ASSUME NEW r \in Requests, r # q, Begin(r) \/ Step(r) PROVE StillNamed(q)'
  BY <1>1, <1>2, OthersKeepTheirs
<1>3. CASE OthersChangeVehicles
  BY <1>1, <1>3 DEF OthersChangeVehicles
<1>4. CASE Begin(q)
  <2>0. PICK h \in Clicks \cup Creations \cup {"set_password", "seed"} :
          /\ \E c \in CallsOf(h) : call' = [call EXCEPT ![q] = c]
          /\ Goto(q, CASE h \in Clicks -> "load" [] h = "seed" -> "admin" [] OTHER -> "find")
    BY <1>4 DEF Begin
  <2>1. PICK c \in CallsOf(h) :
          /\ call'[q] = c
          /\ pc'[q] = CASE h \in Clicks -> "load" [] h = "seed" -> "admin" [] OTHER -> "find"
    BY <2>0 DEF Goto
  <2>2. row' = row
    BY <1>4 DEF Begin
  <2>3. h \in Clicks => Holds(c.by, c.username)
    BY CallsAreTyped
  <2> QED
    BY <2>1, <2>2, <2>3 DEF StillNamed, Holds, Exists
<1>5. CASE Find(q) /\ pc'[q] = "write" /\ call[q].handler = "set_password"
  <2>1. PICK x \in Named(call[q].username) :
          call'[q] = [call[q] EXCEPT !.target = x] /\ row' = row
    BY <1>5 DEF Find, Fail, Answer, Goto, Creations
  <2>2. call[q] \in Calls
    BY <1>5 DEF Find, Prepared
  <2>3. call'[q].target = x /\ call'[q].username = call[q].username
    BY <2>1, <2>2 DEF Calls
  <2> QED
    BY <1>5, <2>1, <2>3 DEF StillNamed, Holds, Exists, Named
<1>6. CASE Step(q) /\ ~ (Find(q) /\ pc'[q] = "write" /\ call[q].handler = "set_password")
  <2>1. pc'[q] # "load" /\ ~ (pc'[q] = "write" /\ call'[q].handler = "set_password")
    BY <1>6, Lookups DEF Step, LoadUser, Toggle, DeleteUser, Find, CreateUser, SetPassword, Look,
      Seed, Fail, Answer, Goto, Prepared, Clicks, Creations
  <2> QED
    BY <2>1 DEF StillNamed
<1> QED
  BY <1>2, <1>3, <1>4, <1>5, <1>6 DEF Next

\* Only an INSERT can give a name a second time, and the unique index refuses that.
LEMMA NamesPreserved ==
  ASSUME IInv, Next
  PROVE  NamesAreUnique'
<1> USE DEF IInv
<1>1. ASSUME \A x \in Ids : row'[x] = None
                            \/ (Exists(x) /\ row'[x] # None /\ row'[x].username = row[x].username)
      PROVE  NamesAreUnique'
  BY <1>1 DEF NamesAreUnique, Exists
<1>2. ASSUME NEW r \in Requests, CreateUser(r) PROVE NamesAreUnique'
  <2>1. CASE row' = row
    BY <2>1 DEF NamesAreUnique, Exists
  <2>2. CASE row' # row
    <3>1. PICK x \in Ids :
            /\ Named(call[r].username) = {} /\ row'[x].username = call[r].username
            /\ \A y \in Ids \ {x} : row'[y] = row[y]
      BY <1>2, <2>2, CreateStep
    <3> QED
      BY <3>1 DEF NamesAreUnique, Exists, Named
  <2> QED
    BY <2>1, <2>2
<1>3. ASSUME NEW r \in Requests, Seed(r) PROVE NamesAreUnique'
  <2> DEFINE new == absent[r] \cap SeedNames
  <2>1. CASE row' = row
    BY <2>1 DEF NamesAreUnique, Exists
  <2>2. CASE row' # row
    <3>0. PICK id \in [absent[r] \cap SeedNames -> Ids] : SeededAt(r, id)
      BY <1>3, <2>2, SeedStep
    <3>1. /\ \A n \in new : Named(n) = {} /\ row'[id[n]].username = n
          /\ \A x \in Ids : (\A n \in new : id[n] # x) => row'[x] = row[x]
      BY <3>0 DEF SeededAt
    <3> HIDE DEF new
    <3>2. ASSUME NEW x \in Ids, NEW y \in Ids, Exists(x)', Exists(y)',
                 row'[x].username = row'[y].username
          PROVE  x = y
      <4>1. CASE (\A n \in new : id[n] # x) /\ (\A n \in new : id[n] # y)
        BY <3>1, <3>2, <4>1 DEF NamesAreUnique, Exists
      <4>2. CASE (\A n \in new : id[n] # x) /\ \E n \in new : id[n] = y
        BY <3>1, <3>2, <4>2 DEF Exists, Named
      <4>3. CASE (\A n \in new : id[n] # y) /\ \E n \in new : id[n] = x
        BY <3>1, <3>2, <4>3 DEF Exists, Named
      <4>4. CASE (\E n \in new : id[n] = x) /\ (\E n \in new : id[n] = y)
        BY <3>1, <3>2, <4>4
      <4> QED
        BY <4>1, <4>2, <4>3, <4>4
    <3> QED
      BY <3>2 DEF NamesAreUnique
  <2> QED
    BY <2>1, <2>2
<1>4. ASSUME \A r \in Requests : ~ CreateUser(r) /\ ~ Seed(r) PROVE NamesAreUnique'
  <2>1. ASSUME NEW x \in Ids PROVE ~ (Fresh(x) /\ row'[x] \in Accounts)
    <3>1. ASSUME NEW r \in Requests, Begin(r) \/ LoadUser(r) \/ Find(r) \/ Look(r) PROVE row' = row
      BY <3>1 DEF Begin, LoadUser, Find, Look, Fail
    <3>2. ASSUME NEW r \in Requests, Toggle(r), row'[x] # row[x] PROVE Exists(x)
      BY <3>2, ToggleStep DEF Toggle, Fail
    <3>3. ASSUME NEW r \in Requests, SetPassword(r), row'[x] # row[x] PROVE Exists(x)
      BY <3>3, SetPasswordStep DEF SetPassword, Fail
    <3>4. ASSUME NEW r \in Requests, DeleteUser(r) PROVE row'[x] \in {None, row[x]}
      BY <3>4, DeleteStep
    <3>5. CASE OthersChangeVehicles
      BY <3>5, NoneAssumption DEF OthersChangeVehicles, Fresh, Exists
    <3> QED
      BY <1>4, <3>1, <3>2, <3>3, <3>4, <3>5, NoneAssumption DEF Next, Step, Fresh, Exists
  <2>2. ASSUME NEW x \in Ids
        PROVE  row'[x] = None
               \/ (Exists(x) /\ row'[x] # None /\ row'[x].username = row[x].username)
    BY <2>1, KeysKeepNames, NoneAssumption DEF KeepsName
  <2> QED
    BY <1>1, <2>2
<1> QED
  BY <1>2, <1>3, <1>4

LEMMA InvariantPreserved ==
  ASSUME IInv, [Next]_vars
  PROVE  IInv'
<1>1. CASE Next
  BY <1>1, TypingPreserved, NamesPreserved, PreparedPreserved, StillNamedPreserved DEF IInv
<1>2. CASE UNCHANGED vars
  BY <1>2 DEF IInv, TypeOK, NamesAreUnique, Prepared, StillNamed, Holds, Exists, vars
<1> QED
  BY <1>1, <1>2

\* The tables, the requests and what they hold keep their types.
THEOREM Invariance == Spec => []IInv
<1>1. Init => IInv
  BY Lookups DEF Init, IInv, TypeOK, NamesAreUnique, Prepared, StillNamed, Exists, Labels
<1>2. IInv /\ [Next]_vars => IInv'
  BY InvariantPreserved
<1> QED
  BY <1>1, <1>2, PTL DEF Spec

\* TypeOK of Accounts, on which the other proofs rest.
THEOREM TypeCorrect == Spec => []TypeOK
<1>1. IInv => TypeOK
  BY DEF IInv
<1> QED
  BY <1>1, Invariance, PTL

\* A user name never stands for two accounts, whoever creates it at the same time.
THEOREM NamesStayUnique == Spec => []NamesAreUnique
<1>1. IInv => NamesAreUnique
  BY DEF IInv
<1> QED
  BY <1>1, Invariance, PTL

--------------------------------------------------------------------------------
(* What a step may change.                                                 *)

\* The steps that change a row that is there are the three that name it.
LEMMA ChangesAreNamed ==
  ASSUME IInv, Next, NEW x \in Ids, Exists(x), row'[x] # row[x]
  PROVE  \E r \in Requests : MayChange(r, x)
<1> USE DEF IInv
<1>0. row[x] \in Accounts
  BY RowIsAccount
<1>1. ASSUME NEW r \in Requests, Begin(r) \/ LoadUser(r) \/ Find(r) \/ Look(r) PROVE FALSE
  BY <1>1 DEF Begin, LoadUser, Find, Look, Fail
<1>2. ASSUME NEW r \in Requests, Toggle(r) PROVE MayChange(r, x)
  <2>1. Exists(call[r].target)
    BY <1>2 DEF Toggle, Fail
  <2>2. call[r].target = x /\ row'[x] = [row[x] EXCEPT !.enabled = ~ copy[r].enabled]
    BY <1>2, <2>1, ToggleStep
  <2>3. copy[r] \in Accounts
    BY <1>2 DEF Toggle, Prepared, Clicks, Creations
  <2>4. row'[x] = [row[x] EXCEPT !.enabled = ~ row[x].enabled]
    <3>1. row[x].enabled \in BOOLEAN /\ copy[r].enabled \in BOOLEAN
      BY <1>0, <2>3 DEF Accounts
    <3>2. row[x] = [row[x] EXCEPT !.enabled = row[x].enabled]
      BY <1>0 DEF Accounts
    <3>3. copy[r].enabled = row[x].enabled
      BY <2>2, <3>1, <3>2
    <3> QED
      BY <2>2, <3>3
  <2>5. pc[r] = "write" /\ pc'[r] = "idle" /\ call[r].handler = "toggle_user"
    BY <1>2, <2>1 DEF Toggle, Fail, Answer, Goto, TypeOK
  <2> QED
    BY <2>2, <2>4, <2>5 DEF MayChange
<1>3. ASSUME NEW r \in Requests, SetPassword(r) PROVE MayChange(r, x)
  <2>1. Exists(call[r].target)
    BY <1>3 DEF SetPassword, Fail
  <2>2. call[r].target = x /\ row'[x] = [row[x] EXCEPT !.password = call[r].password]
    BY <1>3, <2>1, SetPasswordStep
  <2>3. pc[r] = "write" /\ pc'[r] = "idle" /\ call[r].handler = "set_password"
    BY <1>3, <2>1 DEF SetPassword, Fail, Answer, Goto, TypeOK
  <2>4. row[x].username = call[r].username
    BY <2>1, <2>2, <2>3 DEF StillNamed, Holds
  <2> QED
    BY <2>2, <2>3, <2>4 DEF MayChange
<1>4. ASSUME NEW r \in Requests, DeleteUser(r) PROVE MayChange(r, x)
  <2>1. call[r].target = x /\ row'[x] = None
    BY <1>4, DeleteStep
  <2> QED
    BY <1>4, <2>1 DEF MayChange, DeleteUser, Answer, Goto, TypeOK
<1>5. ASSUME NEW r \in Requests, CreateUser(r) \/ Seed(r) PROVE FALSE
  <2>1. CASE CreateUser(r)
    BY <2>1, CreateStep DEF Fresh
  <2>2. CASE Seed(r)
    <3>1. PICK id \in [absent[r] \cap SeedNames -> Ids] : SeededAt(r, id)
      BY <2>2, SeedStep
    <3> QED
      BY <3>1 DEF SeededAt, Fresh
  <2> QED
    BY <1>5, <2>1, <2>2
<1>6. ~ OthersChangeVehicles
  BY DEF OthersChangeVehicles
<1> QED
  BY <1>1, <1>2, <1>3, <1>4, <1>5, <1>6 DEF Next, Step

\* No request changes more of an account than it is there for, although it writes
\* what it decided on an older state of the row.
THEOREM ChangesStayNamed == Spec => OnlyNamedChanges
<1>1. IInv /\ [Next]_vars =>
        [\A x \in Ids : Exists(x) /\ row'[x] # row[x] => \E r \in Requests : MayChange(r, x)]_vars
  BY ChangesAreNamed DEF vars
<1> QED
  BY <1>1, Invariance, PTL DEF Spec, OnlyNamedChanges

\* The last enabled admin never goes by a click of somebody who still is one: the
\* check that it is not oneself is enough to keep the clicking admin.
THEOREM LastAdminIsKept == Spec => LastAdminStays
<1> DEFINE Step1 == Administrators # {} /\ Administrators' = {} =>
                      \E r \in Requests :
                        /\ pc[r] = "write" /\ pc'[r] = "idle"
                        /\ call[r].handler \in Clicks /\ call[r].by \notin Administrators
<1>1. ASSUME IInv, Next PROVE Step1
  <2> SUFFICES ASSUME Administrators # {}, Administrators' = {}
               PROVE  \E r \in Requests :
                        /\ pc[r] = "write" /\ pc'[r] = "idle"
                        /\ call[r].handler \in Clicks /\ call[r].by \notin Administrators
    OBVIOUS
  <2>1. PICK a \in Administrators : TRUE
    OBVIOUS
  <2>2. a \in Ids /\ Exists(a) /\ row[a].enabled /\ row[a].role = "ADMIN" /\ row'[a] # row[a]
    BY <2>1 DEF Administrators, Exists
  <2>3. PICK r \in Requests : MayChange(r, a)
    BY <1>1, <2>2, ChangesAreNamed
  <2>4. call[r].handler \in Clicks
    <3>1. row[a] \in Accounts
      BY <1>1, <2>2, RowIsAccount DEF IInv
    <3>2. CASE call[r].handler = "set_password"
      <4>1. row'[a] = [row[a] EXCEPT !.password = call[r].password]
        BY <2>3, <3>2 DEF MayChange
      <4>2. row'[a].enabled = row[a].enabled /\ row'[a].role = row[a].role
        BY <3>1, <4>1 DEF Accounts
      <4>3. row'[a] # None
        <5>1. call[r].password \in Passwords
          BY <1>1, <2>3, <3>2 DEF IInv, Prepared, MayChange, Clicks, Creations
        <5>2. row'[a] \in Accounts
          BY <3>1, <4>1, <5>1 DEF Accounts
        <5> QED
          BY <5>2, NoneAssumption
      <4> QED
        BY <2>2, <4>2, <4>3 DEF Administrators, Exists
    <3> QED
      BY <2>3, <3>2 DEF MayChange, Clicks
  <2>5. call[r].by \notin Administrators
    <3> SUFFICES ASSUME call[r].by \in Administrators PROVE FALSE
      OBVIOUS
    <3>1. call[r].by # call[r].target /\ call[r].by \in Ids
      BY <1>1, <2>3, <2>4 DEF IInv, Prepared, MayChange, Clicks, Creations
    <3>2. call[r].by # a
      BY <2>3, <3>1 DEF MayChange
    <3>3. row'[call[r].by] = row[call[r].by]
      <4> SUFFICES ASSUME row'[call[r].by] # row[call[r].by] PROVE FALSE
        OBVIOUS
      <4>1. PICK q \in Requests : MayChange(q, call[r].by)
        BY <1>1, <3>1, ChangesAreNamed DEF Administrators
      <4>2. q = r
        BY <1>1, <2>3, <4>1, OneAtATime DEF MayChange
      <4> QED
        BY <2>3, <3>2, <4>1, <4>2 DEF MayChange
    <3> QED
      BY <3>1, <3>3 DEF Administrators, Exists
  <2> QED
    BY <2>3, <2>4, <2>5 DEF MayChange
<1>2. IInv /\ [Next]_vars => [Step1]_vars
  BY <1>1
<1> QED
  BY <1>2, Invariance, PTL DEF Spec, LastAdminStays

\* A successful write has done what it answers, whatever it had looked at before.
LEMMA SuccessIsTrue ==
  ASSUME IInv, NEW r \in Requests,
         Toggle(r) \/ DeleteUser(r) \/ CreateUser(r) \/ SetPassword(r) \/ Seed(r)
  PROVE  TrueAnswer(r)
<1> USE DEF IInv
<1>0. ASSUME NEW o, Answer(r, o) PROVE outcome'[r] = o
  BY <1>0 DEF Answer, TypeOK
<1>1. CASE Toggle(r)
  <2>1. CASE ~ Exists(call[r].target)
    BY <1>0, <1>1, <2>1 DEF Toggle, Fail, TrueAnswer, Creations
  <2>2. CASE Exists(call[r].target)
    <3>1. outcome'[r] = "ok" /\ call[r].handler = "toggle_user"
      BY <1>0, <1>1, <2>2 DEF Toggle, Fail
    <3>2. row[call[r].target] \in Accounts
      BY <1>1, RowIsAccount, <2>2 DEF Toggle, Prepared, Clicks, Creations
    <3>3. row'[call[r].target].enabled = ~ copy[r].enabled
      BY <1>1, <2>2, <3>2, ToggleStep DEF Accounts
    <3> QED
      BY <3>1, <3>3 DEF TrueAnswer, Creations
  <2> QED
    BY <2>1, <2>2
<1>2. CASE DeleteUser(r)
  BY <1>0, <1>2, DeleteStep DEF DeleteUser, TrueAnswer, Creations
<1>3. CASE CreateUser(r)
  <2>0. call[r].handler \in Creations /\ outcome'[r] \in {"ok", "conflict"}
    BY <1>0, <1>3 DEF CreateUser, Fail
  <2>1. CASE Taken(call[r].username)
    <3>1. outcome'[r] = "conflict"
      BY <1>0, <1>3, <2>1 DEF CreateUser, Fail
    <3> QED
      BY <2>0, <2>1, <3>1 DEF TrueAnswer, Taken
  <2>2. CASE ~ Taken(call[r].username)
    <3>1. row' # row
      <4>1. PICK x \in Ids, a \in Accounts : Fresh(x) /\ row' = [row EXCEPT ![x] = a]
        <5>1. RoleOf(call[r]) \in Roles
          BY DEF RoleOf, Roles
        <5>2. call[r].username \in Names /\ call[r].password \in Passwords
          BY <1>3 DEF CreateUser, Prepared, Clicks, Creations
        <5>3. [username |-> call[r].username, password |-> call[r].password,
               role |-> RoleOf(call[r]), enabled |-> TRUE] \in Accounts
          BY <5>1, <5>2 DEF Accounts
        <5> QED
          BY <1>3, <2>2, <5>3 DEF CreateUser
      <4>2. row'[x] = a /\ row[x] = None /\ a # None
        BY <4>1, NoneAssumption DEF TypeOK, Fresh, Exists
      <4> QED
        BY <4>2
    <3>2. \E x \in Ids : /\ row'[x] # None /\ row'[x].username = call[r].username
                         /\ row'[x].password = call[r].password
      BY <1>3, <3>1, CreateStep, NoneAssumption
    <3>3. outcome'[r] = "ok"
      BY <1>0, <1>3, <2>2 DEF CreateUser, Fail
    <3> QED
      BY <2>0, <3>2, <3>3 DEF TrueAnswer, Creations
  <2> QED
    BY <2>1, <2>2
<1>4. CASE SetPassword(r)
  <2>1. CASE ~ Exists(call[r].target)
    BY <1>0, <1>4, <2>1 DEF SetPassword, Fail, TrueAnswer, Creations
  <2>2. CASE Exists(call[r].target)
    <3> DEFINE x == call[r].target
    <3>1. outcome'[r] = "ok" /\ call[r].handler = "set_password"
      BY <1>0, <1>4, <2>2 DEF SetPassword, Fail
    <3>2. x \in Ids /\ row[x] \in Accounts
      BY <1>4, RowIsAccount, <2>2 DEF SetPassword, Prepared, Clicks, Creations
    <3>3. row'[x] # None /\ row'[x].password = call[r].password
          /\ row'[x].username = row[x].username
      BY <1>4, <2>2, <3>2, SetPasswordStep, NoneAssumption DEF Accounts
    <3>4. row[x].username = call[r].username
      BY <1>4, <2>2 DEF SetPassword, StillNamed, Holds
    <3> QED
      BY <3>1, <3>2, <3>3, <3>4 DEF TrueAnswer, Creations
  <2> QED
    BY <2>1, <2>2
<1>5. CASE Seed(r)
  <2>0. call[r].handler = "seed" /\ outcome'[r] \in {"ok", "conflict"}
    BY <1>0, <1>5 DEF Seed, Fail, Prepared
  <2>1. CASE outcome'[r] = "conflict"
    BY <2>0, <2>1 DEF TrueAnswer, Creations
  <2>2. CASE outcome'[r] = "ok"
    <3>1. PICK id \in [absent[r] \cap SeedNames -> Ids] : SeededAt(r, id)
      BY <1>5, <2>2, SeedStep
    <3>2. \A n \in absent[r] \cap SeedNames : id[n] \in Named(n)'
      BY <3>1, NoneAssumption DEF SeededAt, Named, Exists
    <3> QED
      BY <2>0, <2>2, <3>2 DEF TrueAnswer, Creations
  <2> QED
    BY <2>0, <2>1, <2>2
<1> QED
  BY <1>1, <1>2, <1>3, <1>4, <1>5

\* What a request answers is true at that moment, although it decided on what it saw
\* earlier: the names and keys it holds on to still stand for the same accounts.
THEOREM AnswersStayTrue == Spec => AnswersAreTrue
<1>1. ASSUME IInv, Next, NEW r \in Requests, pc[r] # "idle", pc'[r] = "idle"
      PROVE  TrueAnswer(r)
  <2> USE DEF IInv
  <2>1. Step(r)
    <3>1. PICK q \in Requests : Begin(q) \/ Step(q)
      BY <1>1 DEF Next, OthersChangeVehicles
    <3>2. q = r
      BY <1>1, <3>1, OthersKeepTheirs
    <3>3. ~ Begin(r)
      BY <1>1 DEF Begin
    <3> QED
      BY <3>1, <3>2, <3>3
  <2>2. CASE LoadUser(r)
    <3>1. outcome'[r] \in {"own", "missing"}
      BY <1>1, <2>2 DEF LoadUser, Fail, Answer, Goto, TypeOK
    <3>2. call[r].target \in Ids
      BY <1>1, <2>2 DEF LoadUser, Prepared
    <3>3. outcome'[r] = "missing" => ~ Exists(call[r].target)
      BY <1>1, <2>2 DEF LoadUser, Fail, Answer, Goto, TypeOK
    <3>4. outcome'[r] = "own" =>
            (Exists(call[r].target) => row[call[r].target].username = call[r].username)
      <4>1. Holds(call[r].by, call[r].username)
        BY <1>1, <2>2 DEF LoadUser, StillNamed
      <4> QED
        BY <1>1, <2>2, <4>1 DEF LoadUser, Fail, Answer, Goto, TypeOK, Holds
    <3> QED
      BY <3>1, <3>2, <3>3, <3>4, ConstantsAssumption DEF TrueAnswer
  <2>3. CASE Find(r)
    <3>1. outcome'[r] \in {"exists", "missing", "invalid"}
      BY <1>1, <2>3 DEF Find, Fail, Answer, Goto, TypeOK
    <3>2. outcome'[r] = "exists" => Named(call[r].username) # {}
      BY <1>1, <2>3 DEF Find, Fail, Answer, Goto, TypeOK
    <3>3. outcome'[r] = "missing" => Named(call[r].username) = {} /\ call[r].target = None
      BY <1>1, <2>3 DEF Find, Fail, Answer, Goto, TypeOK, Prepared
    <3> QED
      BY <3>1, <3>2, <3>3 DEF TrueAnswer
  <2>4. ~ Look(r)
    BY <1>1, Lookups DEF Look, Goto, TypeOK
  <2> QED
    BY <1>1, <2>1, <2>2, <2>3, <2>4, SuccessIsTrue DEF Step
<1>2. IInv /\ [Next]_vars =>
        [\A r \in Requests : pc[r] # "idle" /\ pc'[r] = "idle" => TrueAnswer(r)]_vars
  BY <1>1
<1> QED
  BY <1>2, Invariance, PTL DEF Spec, AnswersAreTrue
--------------------------------------------------------------------------------
(* The register of names.                                                  *)

\* What a change of one row, and of no other, does to the set of accounts.
LEMMA OneRowChanges ==
  ASSUME IInv, NEW x \in Ids, \A y \in Ids \ {x} : row'[y] = row[y]
  PROVE  /\ Exists(x) /\ row'[x] = None => Registered' = Registered \ {row[x]}
         /\ Exists(x) /\ row'[x] # None => Registered' = (Registered \ {row[x]}) \cup {row'[x]}
         /\ ~ Exists(x) /\ row'[x] # None => Registered' = Registered \cup {row'[x]}
         /\ ~ Exists(x) /\ row'[x] = None => Registered' = Registered
<1>1. ASSUME NEW y \in Ids \ {x}, Exists(y), Exists(x) PROVE row[y] # row[x]
  BY <1>1 DEF IInv, NamesAreUnique
<1> QED
  BY <1>1 DEF Registered, Exists

\* Two clicks and a command, each on the row of one account.
LEMMA ChangeImplements ==
  ASSUME IInv, NEW r \in Requests, Toggle(r) \/ SetPassword(r) \/ DeleteUser(r)
  PROVE  [Register!Next]_Registered
<1> DEFINE x == call[r].target
<1>1. CASE row' = row
  BY <1>1 DEF Registered, Exists
<1>2. x \in Ids
  BY DEF IInv, Prepared, Toggle, SetPassword, DeleteUser, Clicks, Creations
<1>3. CASE DeleteUser(r)
  <2>1. CASE Exists(x)
    <3>1. Registered' = Registered \ {row[x]} /\ row[x] \in Registered
      BY <1>2, <1>3, <2>1, DeleteStep, OneRowChanges DEF Registered
    <3> QED
      BY <3>1 DEF Register!Next, Register!Remove
  <2>2. CASE ~ Exists(x)
    BY <1>2, <1>3, <2>2, DeleteStep, OneRowChanges
  <2> QED
    BY <2>1, <2>2
<1>4. CASE Toggle(r) /\ row' # row
  <2>1. Exists(x)
    BY <1>4 DEF Toggle, Fail
  <2>2. PICK b \in BOOLEAN : row'[x] = [row[x] EXCEPT !.enabled = b]
    <3>1. copy[r] \in Accounts
      BY <1>4 DEF Toggle, IInv, Prepared, Clicks, Creations
    <3>2. (~ copy[r].enabled) \in BOOLEAN
      BY <3>1 DEF Accounts
    <3> QED
      BY <1>4, <2>1, <3>2, ToggleStep
  <2>3. row[x] \in Registered /\ Registered' = (Registered \ {row[x]}) \cup {row'[x]}
    <3>1. row'[x] # None /\ \A y \in Ids \ {x} : row'[y] = row[y]
      BY <1>4, <2>1, ToggleStep, NoneAssumption
    <3> QED
      BY <1>2, <2>1, <3>1, OneRowChanges DEF Registered
  <2>4. Register!SetEnabled(row[x])
    BY <2>2, <2>3 DEF Register!SetEnabled, Register!Replace
  <2> QED
    BY <2>3, <2>4 DEF Register!Next
<1>5. CASE SetPassword(r) /\ row' # row
  <2>1. Exists(x)
    BY <1>5 DEF SetPassword, Fail
  <2>2. row'[x] = [row[x] EXCEPT !.password = call[r].password] /\ call[r].password \in Passwords
    BY <1>5, <2>1, SetPasswordStep DEF SetPassword, IInv, Prepared, Clicks, Creations
  <2>3. row[x] \in Registered /\ Registered' = (Registered \ {row[x]}) \cup {row'[x]}
    <3>1. row'[x] # None /\ \A y \in Ids \ {x} : row'[y] = row[y]
      BY <1>5, <2>1, SetPasswordStep, NoneAssumption
    <3> QED
      BY <1>2, <2>1, <3>1, OneRowChanges DEF Registered
  <2>4. Register!SetPassword(row[x])
    BY <2>2, <2>3 DEF Register!SetPassword, Register!Replace
  <2> QED
    BY <2>3, <2>4 DEF Register!Next
<1> QED
  BY <1>1, <1>3, <1>4, <1>5

\* A name nobody has in the table nobody has in the register.
LEMMA NotTaken ==
  ASSUME NEW n, Named(n) = {}
  PROVE  ~ Register!Taken(n)
BY DEF Named, Registered, Register!Taken

LEMMA CreateImplements ==
  ASSUME IInv, NEW r \in Requests, CreateUser(r)
  PROVE  [Register!Next]_Registered
<1>1. CASE row' = row
  BY <1>1 DEF Registered, Exists
<1>2. CASE row' # row
  <2>1. PICK x \in Ids :
          /\ ~ Exists(x) /\ Named(call[r].username) = {}
          /\ row'[x] \in Accounts /\ row'[x].enabled = TRUE
          /\ row'[x].username = call[r].username
          /\ \A y \in Ids \ {x} : row'[y] = row[y]
    BY <1>2, CreateStep DEF Fresh
  <2>2. row'[x] \in Register!New
    BY <2>1, NotTaken DEF Register!New, Accounts
  <2>3. Registered' = Registered \cup {row'[x]}
    BY <2>1, NoneAssumption, OneRowChanges
  <2> QED
    BY <2>2, <2>3 DEF Register!Next, Register!Create
<1> QED
  BY <1>1, <1>2

LEMMA SeedImplements ==
  ASSUME IInv, NEW r \in Requests, Seed(r)
  PROVE  [Register!Next]_Registered
<1>1. CASE row' = row
  BY <1>1 DEF Registered, Exists
<1>2. CASE row' # row
  <2> DEFINE new == absent[r] \cap SeedNames
             seeds == {SeedAccount(n) : n \in new}
  <2>1. PICK id \in [new -> Ids] : SeededAt(r, id)
    BY <1>2, SeedStep
  <2>2. ASSUME NEW n \in new
        PROVE  /\ SeedAccount(n) \in Register!New /\ SeedAccount(n).username = n
               /\ SeedAccount(n).password = n
    BY <2>1, NotTaken DEF SeededAt, SeedAccount, Register!New, Accounts
  <2>3. seeds \in SUBSET {a \in Register!New : a.username \in SeedNames /\ a.password = a.username}
    BY <2>2
  <2>4. \A a, b \in seeds : a.username = b.username => a = b
    BY <2>2
  <2>5. Registered' = Registered \cup seeds
    <3>1. ASSUME NEW x \in Ids, Exists(x)
          PROVE  row'[x] = row[x]
      BY <2>1, <3>1 DEF SeededAt, Fresh
    <3>2. ASSUME NEW x \in Ids, row'[x] # None
          PROVE  row'[x] \in Registered \cup seeds
      BY <2>1, <3>2 DEF SeededAt, Registered, Exists
    <3>3. \A n \in new : id[n] \in Ids /\ row'[id[n]] = SeedAccount(n) /\ row'[id[n]] # None
      BY <2>1, NoneAssumption DEF SeededAt
    <3>4. Registered' \subseteq Registered \cup seeds
      BY <3>2 DEF Registered, Exists
    <3>5. Registered \subseteq Registered'
      BY <3>1 DEF Registered, Exists
    <3>6. seeds \subseteq Registered'
      BY <3>3 DEF Registered, Exists
    <3> QED
      BY <3>4, <3>5, <3>6
  <2> HIDE DEF seeds
  <2> QED
    BY <2>3, <2>4, <2>5 DEF Register!Next, Register!Seed
<1> QED
  BY <1>1, <1>2

\* The page, the command line and the starts, for any number of requests at the same
\* time and statement by statement, keep a register of names: each changes one account
\* in one step, or adds those a start found missing, and a name never stands for two.
THEOREM Refinement == Spec => ImplementsRegister
<1>1. Init => Register!Init
  BY DEF Init, Register!Init, Registered, Exists
<1>2. IInv /\ [Next]_vars => [Register!Next]_Registered
  <2> SUFFICES ASSUME IInv, [Next]_vars PROVE [Register!Next]_Registered
    OBVIOUS
  <2>1. ASSUME row' = row PROVE [Register!Next]_Registered
    BY <2>1 DEF Registered, Exists
  <2>2. ASSUME NEW r \in Requests, Begin(r) \/ LoadUser(r) \/ Find(r) \/ Look(r) PROVE row' = row
    BY <2>2 DEF Begin, LoadUser, Find, Look, Fail
  <2> QED
    BY <2>1, <2>2, ChangeImplements, CreateImplements, SeedImplements
    DEF Next, Step, OthersChangeVehicles, vars
<1> QED
  BY <1>1, <1>2, Invariance, PTL DEF Spec, ImplementsRegister, Register!Spec
================================================================================
