---------------------------- MODULE AccountRegister ----------------------------
(***************************************************************************)
(* What the table of accounts promises those who only know names, as        *)
(* sessions and check-ins do: a set of accounts, with no keys, requests or  *)
(* statements, in which a name stands for one account at most.  Every       *)
(* change is one atomic step and changes one thing of one account.          *)
(***************************************************************************)
CONSTANTS Names, Passwords, Roles, SeedNames

VARIABLE accounts

Taken(n) == \E a \in accounts : a.username = n
Replace(a, b) == accounts' = (accounts \ {a}) \cup {b}

Init == accounts = {}

\* A new account is enabled, and nobody has its name.
New == {a \in [username : Names, password : Passwords, role : Roles, enabled : {TRUE}] :
          ~ Taken(a.username)}

Create == \E a \in New : accounts' = accounts \cup {a}

SetPassword(a) == \E p \in Passwords : Replace(a, [a EXCEPT !.password = p])

SetEnabled(a) == \E b \in BOOLEAN : Replace(a, [a EXCEPT !.enabled = b])

Remove(a) == accounts' = accounts \ {a}

\* Accounts a start finds missing, all at once; the password of each is its name.
Seed ==
  \E seeds \in SUBSET {a \in New : a.username \in SeedNames /\ a.password = a.username} :
    /\ \A a, b \in seeds : a.username = b.username => a = b
    /\ accounts' = accounts \cup seeds

Next ==
  \/ Create \/ Seed
  \/ \E a \in accounts : SetPassword(a) \/ SetEnabled(a) \/ Remove(a)

Spec == Init /\ [][Next]_accounts
================================================================================
