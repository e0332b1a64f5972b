----------------------------- MODULE SessionsProofs -----------------------------
(***************************************************************************)
(* Proofs about Sessions for all users, tabs, session ids and faults.       *)
(*                                                                         *)
(* The invariant is SidNamesOneUser itself with two additions.  ReadLive: a *)
(* handler whose session has an id starts from data that is not empty;      *)
(* without it a handler could put a token into an empty copy, which would   *)
(* then name nobody.  Called: a request in progress has a call.  What each  *)
(* handler does to its copy is stated once, in HandlerStep, and the rest    *)
(* follows from the steps on the store.                                    *)
(*                                                                         *)
(* Two more invariants are proved on top of it: GoneIsGone, that no request *)
(* holds the id of a session that is gone, and AloneOK, what a request that *)
(* runs by itself relies on at each label.                                 *)
(*                                                                         *)
(* Ends says what makes redirects to the login page end, and FlashOK where a*)
(* flash message can be: in one tab each is in one place, or on its way from*)
(* the session to the page.                                                *)
(***************************************************************************)
EXTENDS Sessions, TLAPS

ReadLive ==
  \A t \in Tabs : pc[t] = "handle" /\ session[t].sid # None => session[t].data # Empty

Called == \A t \in Tabs : pc[t] # "idle" => call[t] \in Calls

IInv == TypeOK /\ Called /\ ReadLive /\ SidNamesOneUser

--------------------------------------------------------------------------------
(* The Session object.                                                     *)

LEMMA EmptyType == Empty \in Data /\ NoSession \in SessionObjects /\ Json \in Replies
BY ConstantsAssumption DEF Empty, Data, NoSession, SessionObjects, Json, Replies

\* Setting a key changes neither the id nor the other keys.
LEMMA SetCsrf ==
  ASSUME NEW ses \in SessionObjects, NEW k \in Tokens
  PROVE  /\ Set(ses, "csrf", k) \in SessionObjects
         /\ Set(ses, "csrf", k).sid = ses.sid
         /\ Set(ses, "csrf", k).data.username = ses.data.username
BY DEF Set, SessionObjects, Data

LEMMA SetFlash ==
  ASSUME NEW ses \in SessionObjects, NEW m \in Messages \cup {None}
  PROVE  /\ Set(ses, "flash", m) \in SessionObjects
         /\ Set(ses, "flash", m).sid = ses.sid
         /\ Set(ses, "flash", m).data.username = ses.data.username
BY DEF Set, SessionObjects, Data

LEMMA ClearEmpties ==
  ASSUME NEW ses \in SessionObjects
  PROVE  Clear(ses) \in SessionObjects /\ Clear(ses).data = Empty /\ Clear(ses).sid = ses.sid
BY EmptyType DEF Clear, SessionObjects

LEMMA LoginObject ==
  ASSUME NEW ses \in SessionObjects, NEW u \in Users
  PROVE  /\ Set(Rotate(Clear(ses)), "username", u) \in SessionObjects
         /\ Set(Rotate(Clear(ses)), "username", u).sid = None
<1>1. Clear(ses) \in SessionObjects BY ClearEmpties
<1>2. /\ Rotate(Clear(ses)) \in SessionObjects
      /\ Rotate(Clear(ses)).sid = None
  BY <1>1 DEF Rotate, SessionObjects
<1> QED BY <1>2 DEF Set, SessionObjects, Data

--------------------------------------------------------------------------------
(* The handlers.                                                           *)

\* What becomes of a copy: it has no id, or still the same; and then no data, or
\* still the same user.
Derived(ses, t) ==
  \/ ses.sid = None
  \/ /\ ses.sid = session[t].sid
     /\ \/ ses.data = Empty
        \/ /\ ses.data.username = session[t].data.username
           /\ session[t].data # Empty

\* No handler sets the cookie of the session, none redirects to what pages poll.
PlainReplies == {rep \in Replies : rep.cookie = Keep /\ rep.to # "poll"}

LEMMA HandlerStep ==
  ASSUME IInv, NEW t \in Tabs, Handle(t)
  PROVE  /\ pc[t] = "handle"
         /\ \E ses \in SessionObjects, rep \in PlainReplies :
              Respond(t, ses, rep) /\ Derived(ses, t)
         /\ shown' \in [Messages -> 0..2]
<1> USE EmptyType
<1>0. Json \in PlainReplies BY ConstantsAssumption DEF Json, PlainReplies, AllKinds
<1>1. /\ session[t] \in SessionObjects /\ shown \in [Messages -> 0..2]
      /\ call[t] \in Calls \cup {None}
  BY DEF IInv, TypeOK
<1>2. ASSUME NEW ses \in SessionObjects, pc[t] = "handle",
             ses.sid = session[t].sid, ses.data.username = session[t].data.username
      PROVE  Derived(ses, t)
  BY <1>2 DEF Derived, IInv, ReadLive
<1>3. \A kind \in AllKinds \ {"poll"} : Redirect(kind) \in PlainReplies
  BY DEF Redirect, Json, Replies, PlainReplies
<1>4. "page" \in AllKinds /\ "login_page" \in AllKinds BY DEF AllKinds
<1>5. ASSUME Render(t), pc[t] = "handle"
      PROVE  /\ \E ses \in SessionObjects, rep \in PlainReplies :
                  Respond(t, ses, rep) /\ Derived(ses, t)
             /\ shown' = shown
  <2>1. PICK k \in IF session[t].data.csrf = None THEN FreshTokens ELSE {session[t].data.csrf} :
          Respond(t, Pop(Set(session[t], "csrf", k), "flash"),
                  [Json EXCEPT !.page = k, !.flash = session[t].data.flash])
    BY <1>5 DEF Render
  <2>2. session[t].data \in Data BY <1>1 DEF SessionObjects
  <2>3. k \in Tokens BY <2>1, <2>2 DEF FreshTokens, Data
  <2>4. [Json EXCEPT !.page = k, !.flash = session[t].data.flash] \in PlainReplies
    BY <1>0, <2>2, <2>3 DEF Json, Replies, PlainReplies, Data
  <2> DEFINE one == Set(session[t], "csrf", k)
             two == Pop(one, "flash")
  <2>5. /\ one \in SessionObjects /\ one.sid = session[t].sid
        /\ one.data.username = session[t].data.username
    BY <1>1, <2>3, SetCsrf
  <2> HIDE DEF one
  <2>6. /\ two \in SessionObjects /\ two.sid = one.sid
        /\ two.data.username = one.data.username
    BY <2>5, SetFlash DEF Pop
  <2>7. Respond(t, two, [Json EXCEPT !.page = k, !.flash = session[t].data.flash])
    BY <2>1 DEF one
  <2> HIDE DEF two
  <2>8. Derived(two, t) BY <2>5, <2>6, <1>2, <1>5
  <2> QED BY <2>4, <2>6, <2>7, <2>8, <1>5 DEF Render
<1>6. CASE CsrfReject(t) BY <1>0, <1>1, <1>2, <1>6 DEF CsrfReject
<1>7. CASE LoginPage(t)
  BY <1>1, <1>2, <1>3, <1>4, <1>5, <1>7 DEF LoginPage, Handling
<1>8. CASE LoginRefused(t)
  BY <1>1, <1>2, <1>3, <1>4, <1>8 DEF LoginRefused, Handling
<1>9. CASE Login(t)
  <2>1. call[t].username \in Users BY <1>9 DEF Login, IInv, TypeOK
  <2> QED BY <1>1, <1>3, <1>4, <1>9, <2>1, LoginObject DEF Login, Handling, Derived
<1>10. CASE Logout(t)
  BY <1>1, <1>3, <1>4, <1>10, ClearEmpties DEF Logout, Handling, Derived
<1>11. CASE NotAuthenticated(t)
  BY <1>0, <1>1, <1>2, <1>3, <1>4, <1>11, ClearEmpties DEF NotAuthenticated, Unknown, Derived
<1>12. CASE Page(t) BY <1>1, <1>5, <1>12 DEF Page, Handling
<1>13. CASE Action(t)
  <2>1. PICK m \in FreshMessages :
          /\ Respond(t, Set(session[t], "flash", m), Redirect("page"))
          /\ shown' = [shown EXCEPT ![m] = 0]
    BY <1>13 DEF Action
  <2>2. m \in Messages BY DEF FreshMessages
  <2>3. pc[t] = "handle" BY <1>13 DEF Action, Handling
  <2>4. /\ Set(session[t], "flash", m) \in SessionObjects
        /\ Derived(Set(session[t], "flash", m), t)
    BY <1>1, <1>2, <2>2, <2>3, SetFlash
  <2>5. shown' \in [Messages -> 0..2]
    <3>1. 0 \in 0..2 OBVIOUS
    <3> QED BY <1>1, <2>1, <3>1
  <2> QED BY <1>3, <1>4, <2>1, <2>3, <2>4, <2>5
<1>14. CASE Poll(t) BY <1>0, <1>1, <1>2, <1>14 DEF Poll
<1> QED
  BY <1>6, <1>7, <1>8, <1>9, <1>10, <1>11, <1>12, <1>13, <1>14 DEF Handle

--------------------------------------------------------------------------------
(* Every step keeps the types.                                             *)

\* What the response of a handler changes.
LEMMA RespondTypes ==
  ASSUME TypeOK, Called, NEW t \in Tabs, NEW ses \in SessionObjects, NEW rep \in Replies,
         Respond(t, ses, rep), pc[t] = "handle", shown' \in [Messages -> 0..2]
  PROVE  TypeOK' /\ Called'
<1>1. call[t] \in Calls BY DEF Called
<1>2. PICK c \in Calls : call' = [call EXCEPT ![t] = c]
  BY <1>1 DEF Respond, Calls
<1>3. TypeOK' BY <1>2 DEF TypeOK, Respond, server, browser, Labels
<1>4. Called' BY <1>2 DEF Called, Respond, TypeOK
<1> QED BY <1>3, <1>4

LEMMA StepTypes ==
  ASSUME IInv, Next PROVE TypeOK' /\ Called'
<1> USE DEF IInv
<1>1. ASSUME NEW t \in Tabs, Send(t) PROVE TypeOK' /\ Called'
  <2>1. PICK c \in Calls : call' = [call EXCEPT ![t] = c]
    <3>1. PICK kind \in Kinds : \E u \in IF kind = "login" THEN Users ELSE {None} :
            call' = [call EXCEPT ![t] =
              [kind |-> kind, username |-> u,
               token |-> IF kind \in {"login", "logout", "action"} THEN page[t] ELSE None]]
      BY <1>1 DEF Send
    <3>2. kind \in AllKinds BY ConstantsAssumption
    <3>3. page[t] \in Tokens \cup {None} BY DEF TypeOK
    <3> QED BY <3>1, <3>2, <3>3 DEF Calls
  <2>2. pc' = [pc EXCEPT ![t] = "read"] /\ sid' = [sid EXCEPT ![t] = cookie]
    BY <1>1 DEF Send
  <2>3. /\ alone' = (\A o \in Tabs \ {t} : Idle(o))
        /\ current' = (IF alone' /\ current = t THEN t ELSE None)
        /\ UNCHANGED <<server, browser, session, reply, ended, shown>>
    BY <1>1 DEF Send
  <2>4. alone' \in BOOLEAN BY <2>3
  <2>5. TypeOK' BY <2>1, <2>2, <2>3, <2>4 DEF TypeOK, server, browser, Labels
  <2> QED BY <2>1, <2>2, <2>5 DEF Called, TypeOK
<1>2. ASSUME NEW t \in Tabs, Read(t) PROVE TypeOK' /\ Called'
  <2>1. sid'[t] \in Sids \cup {None} /\ sid' \in [Tabs -> Sids \cup {None}]
    BY <1>2 DEF Read, TypeOK
  <2> DEFINE data == IF sid'[t] = None THEN Empty ELSE store[sid'[t]]
  <2>2. data \in Data BY <2>1, EmptyType DEF TypeOK
  <2>3. session' = [session EXCEPT ![t] = [NoSession EXCEPT !.sid = sid'[t], !.data = data]]
    BY <1>2 DEF Read
  <2> HIDE DEF data
  <2>4. [NoSession EXCEPT !.sid = sid'[t], !.data = data] \in SessionObjects
    BY <2>1, <2>2 DEF NoSession, SessionObjects
  <2>5. session' \in [Tabs -> SessionObjects] BY <2>3, <2>4 DEF TypeOK
  <2>6. pc' \in [Tabs -> Labels] BY <1>2 DEF Read, TypeOK, Labels
  <2> QED
    BY <1>2, <2>1, <2>5, <2>6 DEF Read, TypeOK, Called, server, browser, history
<1>3. ASSUME NEW t \in Tabs, Handle(t) PROVE TypeOK' /\ Called'
  <2>1. PICK ses \in SessionObjects, rep \in PlainReplies : Respond(t, ses, rep)
    BY <1>3, HandlerStep
  <2>2. rep \in Replies BY DEF PlainReplies
  <2> QED BY <2>2, <1>3, <2>1, HandlerStep, RespondTypes
<1>4. ASSUME NEW t \in Tabs, Save(t) PROVE TypeOK' /\ Called'
  <2>1. session[t] \in SessionObjects BY DEF TypeOK
  <2>2. session[t].data \in Data /\ session[t].sid \in Sids \cup {None}
    BY <2>1 DEF SessionObjects
  <2>3. ASSUME NEW s \in Sids, End(s, t) PROVE ended' \in [Sids -> {None, "gone", "logged out"}]
    BY <2>3 DEF End, TypeOK
  <2>4. ASSUME Leave(t) PROVE session' \in [Tabs -> SessionObjects] /\ pc' \in [Tabs -> Labels]
    BY <2>4, EmptyType DEF Leave, TypeOK, Labels
  <2>5. CASE SaveRotated(t)
    <3>1. store' \in [Sids -> Data] /\ ended' \in [Sids -> {None, "gone", "logged out"}]
      BY <2>3, <2>5, EmptyType DEF SaveRotated, TypeOK
    <3>2. pc' \in [Tabs -> Labels] BY <2>5 DEF SaveRotated, TypeOK, Labels
    <3> QED BY <2>5, <3>1, <3>2 DEF SaveRotated, Saving, TypeOK, Called, browser
  <2>6. CASE Issue(t)
    <3>1. PICK s \in Sids :
            /\ store' = [store EXCEPT ![s] = session[t].data]
            /\ reply' = [reply EXCEPT ![t].cookie = s]
            /\ ended' = [ended EXCEPT ![s] = None]
      BY <2>6 DEF Issue, FreshSids
    <3>2. reply[t] \in Replies BY DEF TypeOK
    <3>3. [reply[t] EXCEPT !.cookie = s] \in Replies BY <3>2 DEF Replies
    <3>4. reply' \in [Tabs -> Replies] BY <3>1, <3>3 DEF TypeOK
    <3> QED BY <2>2, <2>4, <2>6, <3>1, <3>4 DEF Issue, Leave, TypeOK, Called, browser
  <2>7. CASE SaveCleared(t)
    <3>1. reply[t] \in Replies BY DEF TypeOK
    <3>2. [reply[t] EXCEPT !.cookie = None] \in Replies BY <3>1 DEF Replies
    <3>3. reply' \in [Tabs -> Replies] BY <2>7, <3>2 DEF SaveCleared, TypeOK
    <3>4. store' \in [Sids -> Data] /\ ended' \in [Sids -> {None, "gone", "logged out"}]
      BY <2>2, <2>3, <2>7, EmptyType DEF SaveCleared, TypeOK
    <3> QED
      BY <2>4, <2>7, <3>3, <3>4 DEF SaveCleared, Saving, Leave, TypeOK, Called, browser
  <2>8. CASE SaveDirty(t)
    BY <2>2, <2>4, <2>8 DEF SaveDirty, Saving, Leave, TypeOK, Called, browser
  <2>9. CASE SaveNothing(t)
    BY <2>4, <2>9 DEF SaveNothing, Saving, Leave, TypeOK, Called, browser
  <2> QED BY <1>4, <2>5, <2>6, <2>7, <2>8, <2>9 DEF Save
<1>5. ASSUME NEW t \in Tabs, Follow(t) PROVE TypeOK' /\ Called'
  <2>1. reply[t] \in Replies BY DEF TypeOK
  <2>2. cookie' \in Sids \cup {None} BY <1>5, <2>1 DEF Follow, SetCookie, CookieAfter, TypeOK, Replies
  <2>3. [kind |-> reply[t].to, username |-> None, token |-> None] \in Calls
    BY <1>5, <2>1 DEF Follow, Replies, Calls
  <2>4. call' = [call EXCEPT ![t] = [kind |-> reply[t].to, username |-> None, token |-> None]]
    BY <1>5 DEF Follow
  <2> QED
    BY <1>5, <2>2, <2>3, <2>4, EmptyType
    DEF Follow, TypeOK, Called, server, history, Labels
<1>6. ASSUME NEW t \in Tabs, Show(t) PROVE TypeOK' /\ Called'
  <2>1. /\ reply[t] \in Replies /\ reply[t].page \in Tokens \cup {None}
        /\ reply[t].flash \in Messages \cup {None}
    BY DEF TypeOK, Replies
  <2>2. cookie' \in Sids \cup {None} BY <1>6, <2>1 DEF Show, SetCookie, CookieAfter, TypeOK, Replies
  <2>3. page' \in [Tabs -> Tokens \cup {None}] BY <1>6, <2>1 DEF Show, TypeOK
  <2>4. shown' \in [Messages -> 0..2]
    <3>1. \A n \in 0..2 : (IF n = 2 THEN 2 ELSE n + 1) \in 0..2 OBVIOUS
    <3> QED BY <1>6, <2>1, <3>1 DEF Show, TypeOK
  <2>5. current' \in Tabs \cup {None} BY <1>6 DEF Show, TypeOK
  <2> QED
    BY <1>6, <2>2, <2>3, <2>4, <2>5, EmptyType
    DEF Show, Finish, TypeOK, Called, server, Labels
<1>7. ASSUME NEW t \in Tabs, Lose(t) PROVE TypeOK' /\ Called'
  BY <1>7, EmptyType
  DEF Lose, Finish, Disturb, TypeOK, Called, server, browser, Labels
<1>8. ASSUME NEW s \in Sids, SessionExpires(s) PROVE TypeOK' /\ Called'
  BY <1>8, EmptyType DEF SessionExpires, Disturb, TypeOK, Called, browser
<1>9. CASE CookieExpires BY <1>9 DEF CookieExpires, Disturb, TypeOK, Called, server
<1>10. ASSUME NEW u \in Users, Toggle(u) PROVE TypeOK' /\ Called'
  BY <1>10 DEF Toggle, TypeOK, Called, browser, history
<1> QED
  BY <1>1, <1>2, <1>3, <1>4, <1>5, <1>6, <1>7, <1>8, <1>9, <1>10 DEF Next, Step

--------------------------------------------------------------------------------
(* The copies of a session agree on its user.                              *)

\* The steps that do not touch the store: at most one copy changes, and it keeps
\* what matters, is emptied, or is read from the store.
LEMMA CopiesAgree ==
  ASSUME IInv, TypeOK', NEW t \in Tabs,
         store' = store, session' = [session EXCEPT ![t] = session'[t]],
         \/ Derived(session'[t], t)
         \/ /\ session'[t].sid \in Live
            /\ session'[t].data = store[session'[t].sid]
  PROVE  SidNamesOneUser'
<1> USE DEF IInv
<1>1. /\ session \in [Tabs -> SessionObjects] /\ session' \in [Tabs -> SessionObjects]
  BY DEF TypeOK
<1>2. Live' = Live BY DEF Live
<1>3. \A o \in Tabs \ {t} : session'[o] = session[o] BY <1>1
<1>4. CASE session'[t].sid = None \/ session'[t].data = Empty
  BY <1>1, <1>2, <1>3, <1>4 DEF SidNamesOneUser
<1>5. CASE /\ session'[t].sid # None
           /\ session'[t].sid = session[t].sid
           /\ session'[t].data.username = session[t].data.username
           /\ session[t].data # Empty
  BY <1>1, <1>2, <1>3, <1>5 DEF SidNamesOneUser
<1>6. CASE /\ session'[t].sid \in Live
           /\ session'[t].data = store[session'[t].sid]
  BY <1>1, <1>2, <1>3, <1>6 DEF SidNamesOneUser
<1> QED BY <1>4, <1>5, <1>6 DEF Derived

\* The saves, the loss of a request and the end of a session: the copy of t goes,
\* and the entry of s goes or becomes the copy.
LEMMA StoreAgrees ==
  ASSUME IInv, TypeOK', NEW s \in Sids,
         \A o \in Tabs : session'[o] = session[o] \/ session'[o] = NoSession,
         \A z \in Sids \ {s} : store'[z] = store[z],
         \/ store'[s] \in {store[s], Empty}
         \/ \A o \in Tabs : session[o].sid = s /\ session[o].data # Empty =>
               store'[s].username = session[o].data.username
  PROVE  SidNamesOneUser'
<1> USE DEF IInv
<1>1. NoSession.sid = None BY DEF NoSession
<1>2. \A o \in Tabs : session'[o].sid # None => session'[o] = session[o] BY <1>1
<1>3. \A z \in Sids \ {s} : z \in Live' => z \in Live BY DEF Live
<1>4. ASSUME NEW o \in Tabs, session'[o].sid # None, session'[o].data # Empty,
             session'[o].sid \in Live'
      PROVE  session'[o].data.username = store'[session'[o].sid].username
  <2>1. session'[o] = session[o] /\ session[o].sid \in Sids BY <1>2, <1>4 DEF Live
  <2>2. CASE session[o].sid # s BY <1>3, <1>4, <2>1, <2>2 DEF SidNamesOneUser
  <2>3. CASE session[o].sid = s
    BY <1>4, <2>1, <2>3 DEF SidNamesOneUser, Live
  <2> QED BY <2>2, <2>3
<1>5. ASSUME NEW o \in Tabs, NEW p \in Tabs, session'[o].sid # None,
             session'[o].data # Empty, session'[p].sid = session'[o].sid,
             session'[p].data # Empty
      PROVE  session'[o].data.username = session'[p].data.username
  BY <1>2, <1>5 DEF SidNamesOneUser
<1> QED BY <1>4, <1>5 DEF SidNamesOneUser

LEMMA SaveAgrees ==
  ASSUME IInv, TypeOK', NEW t \in Tabs, Save(t)
  PROVE  /\ SidNamesOneUser'
         /\ \A s \in Live \cap Live' : store'[s].username = store[s].username
         /\ \A o \in Tabs : session'[o] = session[o] \/ session'[o] = NoSession
<1> USE DEF IInv
<1>1. session[t] \in SessionObjects /\ store \in [Sids -> Data] BY DEF TypeOK
<1>2. session[t].sid \in Sids \cup {None} /\ sid[t] \in Sids \cup {None}
  BY <1>1 DEF SessionObjects, TypeOK
<1>3. session \in [Tabs -> SessionObjects] BY DEF TypeOK
<1>4. \A o \in Tabs : session'[o] = session[o] \/ session'[o] = NoSession
  BY <1>3 DEF Save, SaveRotated, Issue, SaveCleared, SaveDirty, SaveNothing, Leave
<1>5. ASSUME NEW s \in Sids, store' = [store EXCEPT ![s] = Empty]
      PROVE  /\ SidNamesOneUser'
             /\ \A z \in Live \cap Live' : store'[z].username = store[z].username
  <2>1. SidNamesOneUser' BY <1>1, <1>4, <1>5, StoreAgrees
  <2> QED BY <1>1, <1>5, <2>1 DEF Live
<1>6. ASSUME store' = store
      PROVE  /\ SidNamesOneUser'
             /\ \A z \in Live \cap Live' : store'[z].username = store[z].username
  <2>1. ASSUME Sids = {} PROVE SidNamesOneUser'
    BY <1>3, <1>4, <2>1 DEF SidNamesOneUser, SessionObjects, NoSession
  <2>2. ASSUME NEW s \in Sids PROVE SidNamesOneUser' BY <1>4, <1>6, StoreAgrees
  <2> QED BY <1>6, <2>1, <2>2
<1>7. CASE SaveRotated(t) BY <1>2, <1>5, <1>6, <1>4, <1>7 DEF SaveRotated
<1>8. CASE SaveCleared(t) BY <1>2, <1>5, <1>4, <1>8 DEF SaveCleared
<1>9. CASE SaveNothing(t) BY <1>6, <1>4, <1>9 DEF SaveNothing
<1>10. CASE SaveDirty(t)
  <2> DEFINE s == session[t].sid
  <2>1. s \in Sids /\ store' = [store EXCEPT ![s] = session[t].data]
    BY <1>2, <1>10 DEF SaveDirty
  <2>2. session[t].data # Empty BY <1>10 DEF SaveDirty
  <2>3. \A o \in Tabs : session[o].sid = s /\ session[o].data # Empty =>
          session[t].data.username = session[o].data.username
    BY <1>2, <2>1, <2>2, ConstantsAssumption DEF SidNamesOneUser
  <2>4. s \in Live => store[s].username = session[t].data.username
    BY <2>1, <2>2, ConstantsAssumption DEF SidNamesOneUser
  <2> HIDE DEF s
  <2>5. store'[s] = session[t].data /\ \A z \in Sids \ {s} : store'[z] = store[z]
    BY <1>1, <2>1
  <2>6. SidNamesOneUser' BY <1>4, <2>1, <2>3, <2>5, StoreAgrees
  <2>7. \A z \in Live \cap Live' : store'[z].username = store[z].username
    BY <2>4, <2>5 DEF Live
  <2> QED BY <1>4, <2>6, <2>7
<1>11. CASE Issue(t)
  <2>1. PICK s \in FreshSids : store' = [store EXCEPT ![s] = session[t].data]
    BY <1>11 DEF Issue
  <2>2. s \in Sids /\ s \notin Live /\ \A o \in Tabs : session[o].sid # s
    BY DEF FreshSids
  <2>3. SidNamesOneUser' BY <1>1, <1>4, <2>1, <2>2, StoreAgrees
  <2>4. \A z \in Live \cap Live' : store'[z].username = store[z].username
    BY <1>1, <2>1, <2>2 DEF Live
  <2> QED BY <1>4, <2>3, <2>4
<1> QED BY <1>7, <1>8, <1>9, <1>10, <1>11 DEF Save

--------------------------------------------------------------------------------
(* The invariant.                                                          *)

\* A step that gives no request a new copy.
LEMMA CopiesOnlyGo ==
  ASSUME TypeOK, ReadLive,
         \A o \in Tabs : \/ session'[o] = session[o] /\ (pc'[o] = "handle" => pc[o] = "handle")
                         \/ session'[o] = NoSession
  PROVE  ReadLive'
BY DEF ReadLive, NoSession

LEMMA InvariantStep ==
  ASSUME IInv, [Next]_vars
  PROVE  /\ IInv'
         /\ \A s \in Live \cap Live' : store'[s].username = store[s].username
<1> DEFINE Keeps == \A s \in Live \cap Live' : store'[s].username = store[s].username
<1> USE DEF IInv
<1>1. CASE UNCHANGED vars
  BY <1>1 DEF vars, TypeOK, Called, ReadLive, SidNamesOneUser, Live
<1>2. CASE Next
  <2>1. TypeOK' /\ Called' BY <1>2, StepTypes
  <2>2. ASSUME store' = store PROVE Keeps BY <2>2
  <2>3. ASSUME store' = store, session' = session PROVE SidNamesOneUser'
    BY <2>3 DEF SidNamesOneUser, Live
  <2> HIDE DEF Keeps
  <2>4. ASSUME NEW t \in Tabs, Send(t) PROVE ReadLive' /\ SidNamesOneUser' /\ Keeps
    <3>1. ReadLive' BY <2>4, CopiesOnlyGo DEF Send, TypeOK
    <3> QED BY <2>2, <2>3, <2>4, <3>1 DEF Send, server
  <2>5. ASSUME NEW t \in Tabs, Read(t) PROVE ReadLive' /\ SidNamesOneUser' /\ Keeps
    <3>1. store' = store BY <2>5 DEF Read, server
    <3>2. sid'[t] \in Live \cup {None} BY <2>5 DEF Read, TypeOK
    <3>3. session' = [session EXCEPT ![t] =
            [NoSession EXCEPT !.sid = sid'[t],
                              !.data = IF sid'[t] = None THEN Empty ELSE store[sid'[t]]]]
      BY <2>5 DEF Read
    <3>4. /\ session'[t].sid = sid'[t]
          /\ session'[t].data = (IF sid'[t] = None THEN Empty ELSE store[sid'[t]])
          /\ \A o \in Tabs \ {t} : session'[o] = session[o]
          /\ session' = [session EXCEPT ![t] = session'[t]]
      BY <3>3 DEF TypeOK, NoSession
    <3>5. SidNamesOneUser'
      <4>1. CASE sid'[t] = None BY <2>1, <3>1, <3>4, <4>1, CopiesAgree DEF Derived
      <4>2. CASE sid'[t] # None BY <2>1, <3>1, <3>2, <3>4, <4>2, CopiesAgree
      <4> QED BY <4>1, <4>2
    <3>6. \A o \in Tabs \ {t} : pc'[o] = pc[o] BY <2>5 DEF Read, TypeOK
    <3>7. ReadLive' BY <3>2, <3>4, <3>6 DEF ReadLive, Live
    <3> QED BY <2>2, <3>1, <3>5, <3>7
  <2>6. ASSUME NEW t \in Tabs, Handle(t) PROVE ReadLive' /\ SidNamesOneUser' /\ Keeps
    <3>1. PICK ses \in SessionObjects, rep \in PlainReplies :
            Respond(t, ses, rep) /\ Derived(ses, t)
      BY <2>6, HandlerStep
    <3>2. /\ session' = [session EXCEPT ![t] = ses]
          /\ pc' = [pc EXCEPT ![t] = "save"]
          /\ store' = store
      BY <3>1 DEF Respond, server
    <3>3. session'[t] = ses /\ pc'[t] = "save" BY <3>2 DEF TypeOK
    <3>4. SidNamesOneUser' BY <2>1, <3>1, <3>2, <3>3, CopiesAgree
    <3>5. ReadLive' BY <3>2 DEF TypeOK, ReadLive
    <3> QED BY <2>2, <3>2, <3>4, <3>5
  <2>7. ASSUME NEW t \in Tabs, Save(t) PROVE ReadLive' /\ SidNamesOneUser' /\ Keeps
    <3>1. \A o \in Tabs : pc'[o] = pc[o] \/ pc'[o] \in {"issue", "deliver"}
      BY <2>7 DEF TypeOK, Save, SaveRotated, Issue, SaveCleared, SaveDirty, SaveNothing, Leave
    <3>2. ReadLive' BY <2>1, <2>7, <3>1, SaveAgrees, CopiesOnlyGo
    <3> QED BY <2>1, <2>7, <3>2, SaveAgrees DEF Keeps
  <2>8. ASSUME NEW t \in Tabs, Follow(t) PROVE ReadLive' /\ SidNamesOneUser' /\ Keeps
    <3>1. ReadLive' BY <2>8, CopiesOnlyGo DEF Follow, TypeOK
    <3> QED BY <2>2, <2>3, <2>8, <3>1 DEF Follow, server
  <2>9. ASSUME NEW t \in Tabs, Show(t) PROVE ReadLive' /\ SidNamesOneUser' /\ Keeps
    <3>1. ReadLive' BY <2>9, CopiesOnlyGo DEF Show, Finish, TypeOK
    <3> QED BY <2>2, <2>3, <2>9, <3>1 DEF Show, server
  <2>10. ASSUME NEW t \in Tabs, Lose(t) PROVE ReadLive' /\ SidNamesOneUser' /\ Keeps
    <3>1. session' = [session EXCEPT ![t] = NoSession] /\ store' = store
      BY <2>10 DEF Lose, server
    <3>2. session'[t] = NoSession /\ session' = [session EXCEPT ![t] = session'[t]]
      BY <3>1 DEF TypeOK
    <3>3. NoSession.sid = None BY DEF NoSession
    <3>4. SidNamesOneUser' BY <2>1, <3>1, <3>2, <3>3, CopiesAgree DEF Derived
    <3>5. ReadLive' BY <2>10, CopiesOnlyGo DEF Lose, Finish, TypeOK
    <3> QED BY <2>2, <3>1, <3>4, <3>5
  <2>11. ASSUME NEW s \in Sids, SessionExpires(s) PROVE ReadLive' /\ SidNamesOneUser' /\ Keeps
    <3>1. store' = [store EXCEPT ![s] = Empty] /\ session' = session /\ pc' = pc
      BY <2>11 DEF SessionExpires
    <3>2. SidNamesOneUser' BY <2>1, <3>1, StoreAgrees DEF TypeOK
    <3>3. ReadLive' BY <3>1 DEF ReadLive
    <3> QED BY <3>1, <3>2, <3>3 DEF Keeps, TypeOK, Live
  <2>12. ASSUME CookieExpires PROVE ReadLive' /\ SidNamesOneUser' /\ Keeps
    <3>1. ReadLive' BY <2>12 DEF CookieExpires, ReadLive
    <3> QED BY <2>1, <2>2, <2>3, <2>12, <3>1 DEF CookieExpires, server
  <2>13. ASSUME NEW u \in Users, Toggle(u) PROVE ReadLive' /\ SidNamesOneUser' /\ Keeps
    <3>1. ReadLive' BY <2>13 DEF Toggle, ReadLive
    <3> QED BY <2>2, <2>3, <2>13, <3>1 DEF Toggle
  <2> DEFINE Goal == ReadLive' /\ SidNamesOneUser' /\ Keeps
  <2>14. Goal
    <3>1. ASSUME NEW t \in Tabs, Send(t) \/ Step(t) \/ Lose(t) PROVE Goal
      BY <3>1, <2>4, <2>5, <2>6, <2>7, <2>8, <2>9, <2>10 DEF Step
    <3> HIDE DEF Goal
    <3>2. (\E s \in Sids : SessionExpires(s)) => Goal BY <2>11 DEF Goal
    <3>3. CookieExpires => Goal BY <2>12 DEF Goal
    <3>4. (\E u \in Users : Toggle(u)) => Goal BY <2>13 DEF Goal
    <3> QED BY <1>2, <3>1, <3>2, <3>3, <3>4 DEF Next
  <2> QED BY <2>1, <2>14 DEF Keeps
<1> QED BY <1>1, <1>2

LEMMA InvariantInit ==
  ASSUME Init PROVE IInv
<1>1. 0 \in 0..2 OBVIOUS
<1>2. [m \in Messages |-> 0] \in [Messages -> 0..2] BY <1>1
<1>3. TypeOK BY <1>2, EmptyType DEF Init, TypeOK, Labels
<1> QED BY <1>3 DEF Init, IInv, Called, ReadLive, SidNamesOneUser, NoSession

\* The inductive invariant holds in every reachable state.
THEOREM Invariant == Spec => []IInv
<1>1. IInv /\ [Next]_vars => IInv' BY InvariantStep
<1> QED BY <1>1, InvariantInit, PTL DEF Spec

\* Every variable keeps its type: whatever the tabs do, the browser, the requests
\* and the store hold well-formed data.
THEOREM TypeCorrect == Spec => []TypeOK
<1>1. IInv => TypeOK BY DEF IInv
<1> QED BY <1>1, Invariant, PTL

\* For any number of tabs and users, all copies of a session name the same user:
\* requests that save a session late never mix two users in it.
THEOREM SessionsNameOneUser == Spec => []SidNamesOneUser
<1>1. IInv => SidNamesOneUser BY DEF IInv
<1> QED BY <1>1, Invariant, PTL

\* For any number of tabs and users, a session id never changes hands while it is
\* live: every login is given an id of its own.
THEOREM SessionsKeepTheirUser == Spec => SidKeepsItsUser
<1>1. IInv /\ [Next]_vars => [\A s \in Live \cap Live' :
                                store'[s].username = store[s].username]_vars
  BY InvariantStep
<1> QED BY <1>1, Invariant, PTL DEF Spec, SidKeepsItsUser

--------------------------------------------------------------------------------
(* Sessions that ended.                                                    *)

\* An id that is gone is in no request, so that nothing can write it again.
GoneIsGone ==
  \A s \in Sids : ended[s] = "gone" =>
    store[s] = Empty /\ \A t \in Tabs : session[t].sid # s

\* The steps by which no request takes an id from the store, and none is written
\* but by a request that has it.
LEMMA GoneStays ==
  ASSUME IInv, GoneIsGone, ended' = ended,
         \A o \in Tabs : session'[o].sid \in {None, session[o].sid} \cup Live,
         \A s \in Sids : store'[s] = store[s] \/ \E o \in Tabs : session[o].sid = s
  PROVE  GoneIsGone'
<1> SUFFICES ASSUME NEW s \in Sids, ended[s] = "gone"
             PROVE  store'[s] = Empty /\ \A t \in Tabs : session'[t].sid # s
  BY DEF GoneIsGone
<1>1. store[s] = Empty /\ (\A t \in Tabs : session[t].sid # s) /\ s # None /\ s \notin Live
  BY ConstantsAssumption DEF GoneIsGone, Live
<1> QED BY <1>1

\* The end of a session: it is gone if no other request is inside it.
LEMMA GoneEnds ==
  ASSUME IInv, GoneIsGone, NEW z \in Sids, NEW v, ended' = [ended EXCEPT ![z] = v],
         store' = [store EXCEPT ![z] = Empty],
         v = "gone" => \A o \in Tabs : session'[o].sid # z,
         \A o \in Tabs : session'[o].sid \in {None, session[o].sid}
  PROVE  GoneIsGone'
<1> SUFFICES ASSUME NEW s \in Sids, ended'[s] = "gone"
             PROVE  store'[s] = Empty /\ \A t \in Tabs : session'[t].sid # s
  BY DEF GoneIsGone
<1>1. s # None BY ConstantsAssumption
<1>2. CASE s = z BY <1>2 DEF IInv, TypeOK
<1>3. CASE s # z
  <2>1. ended[s] = "gone" /\ store'[s] = store[s] BY <1>3 DEF IInv, TypeOK
  <2> QED BY <1>1, <2>1 DEF GoneIsGone
<1> QED BY <1>2, <1>3

LEMMA NextGone == IInv /\ GoneIsGone /\ [Next]_vars => GoneIsGone'
<1> SUFFICES ASSUME IInv, GoneIsGone, [Next]_vars PROVE GoneIsGone' OBVIOUS
<1>0. /\ session \in [Tabs -> SessionObjects] /\ NoSession.sid = None
      /\ \A o \in Tabs : session[o].sid \in Sids \cup {None} /\ sid[o] \in Sids \cup {None}
      /\ None \notin Sids
  BY ConstantsAssumption DEF IInv, TypeOK, SessionObjects, NoSession
<1>1. ASSUME UNCHANGED <<store, session, ended>> PROVE GoneIsGone'
  BY <1>1 DEF GoneIsGone
<1>2. ASSUME NEW t \in Tabs, Read(t) PROVE GoneIsGone'
  <2>1. /\ UNCHANGED <<store, ended>> /\ sid'[t] \in {None} \cup Live
        /\ session'[t].sid = sid'[t]
        /\ \A o \in Tabs \ {t} : session'[o] = session[o]
    BY <1>0, <1>2 DEF Read, server, history, NoSession, IInv, TypeOK
  <2>2. \A o \in Tabs : session'[o].sid \in {None, session[o].sid} \cup Live BY <2>1
  <2> QED BY <2>1, <2>2, GoneStays
<1>3. ASSUME NEW t \in Tabs, Handle(t) PROVE GoneIsGone'
  <2>1. PICK ses \in SessionObjects, rep \in PlainReplies :
          Respond(t, ses, rep) /\ Derived(ses, t)
    BY <1>3, HandlerStep
  <2>2. /\ UNCHANGED <<store, ended>> /\ session'[t] = ses
        /\ \A o \in Tabs \ {t} : session'[o] = session[o]
    BY <1>0, <2>1 DEF Respond, server
  <2>3. \A o \in Tabs : session'[o].sid \in {None, session[o].sid} \cup Live
    BY <2>1, <2>2 DEF Derived
  <2> QED BY <2>2, <2>3, GoneStays
<1>4. ASSUME NEW t \in Tabs, Save(t) PROVE GoneIsGone'
  <2>1. \A o \in Tabs : session'[o].sid \in {None, session[o].sid}
    <3>1. TypeOK' BY <1>4, StepTypes DEF Next, Step
    <3>2. \A o \in Tabs : session'[o] = session[o] \/ session'[o] = NoSession
      BY <1>4, <3>1, SaveAgrees
    <3> QED BY <1>0, <3>2
  <2>2. CASE SaveRotated(t)
    <3>1. CASE UNCHANGED <<store, ended>> BY <2>1, <3>1, GoneStays
    <3>2. CASE sid[t] # None /\ store' = [store EXCEPT ![sid[t]] = Empty] /\ End(sid[t], t)
      <4>1. session[t].sid = None /\ UNCHANGED session BY <2>2 DEF SaveRotated
      <4>2. ~ Inside(sid[t], t) => \A o \in Tabs : session'[o].sid # sid[t]
        BY <3>2, <4>1 DEF Inside
      <4> DEFINE v == IF ~ Inside(sid[t], t) THEN "gone"
                      ELSE IF call[t].kind = "logout" THEN "logged out" ELSE None
      <4>3. ended' = [ended EXCEPT ![sid[t]] = v] /\ (v = "gone" => ~ Inside(sid[t], t))
        BY <3>2, ConstantsAssumption DEF End
      <4> HIDE DEF v
      <4> QED BY <1>0, <2>1, <3>2, <4>2, <4>3, GoneEnds
    <3> QED BY <2>2, <3>1, <3>2 DEF SaveRotated
  <2>3. CASE Issue(t)
    <3>1. PICK s \in FreshSids : /\ store' = [store EXCEPT ![s] = session[t].data]
                                 /\ ended' = [ended EXCEPT ![s] = None]
      BY <2>3 DEF Issue
    <3>2. \A z \in Sids : ended'[z] = "gone" => ended[z] = "gone" /\ store'[z] = store[z]
      BY <3>1, ConstantsAssumption DEF IInv, TypeOK
    <3> QED BY <1>0, <2>1, <3>2 DEF GoneIsGone
  <2>4. CASE SaveCleared(t)
    <3> DEFINE z == session[t].sid
    <3>1. /\ z \in Sids /\ store' = [store EXCEPT ![z] = Empty] /\ End(z, t)
          /\ session' = [session EXCEPT ![t] = NoSession]
      BY <1>0, <2>4 DEF SaveCleared, Leave
    <3>2. ~ Inside(z, t) => \A o \in Tabs : session'[o].sid # z
      BY <1>0, <3>1 DEF Inside
    <3> DEFINE v == IF ~ Inside(z, t) THEN "gone"
                    ELSE IF call[t].kind = "logout" THEN "logged out" ELSE None
    <3>3. ended' = [ended EXCEPT ![z] = v] /\ (v = "gone" => ~ Inside(z, t))
      BY <3>1, ConstantsAssumption DEF End
    <3> HIDE DEF z, v
    <3> QED BY <2>1, <3>1, <3>2, <3>3, GoneEnds
  <2>5. CASE SaveDirty(t)
    <3>1. /\ store' = [store EXCEPT ![session[t].sid] = session[t].data]
          /\ UNCHANGED ended
      BY <2>5 DEF SaveDirty
    <3> QED BY <2>1, <3>1, GoneStays DEF IInv, TypeOK
  <2>6. CASE SaveNothing(t) BY <2>1, <2>6, GoneStays DEF SaveNothing
  <2> QED BY <1>4, <2>2, <2>3, <2>4, <2>5, <2>6 DEF Save
<1>5. ASSUME NEW t \in Tabs, Lose(t) PROVE GoneIsGone'
  <2>1. \A o \in Tabs : session'[o].sid \in {None, session[o].sid}
    BY <1>0, <1>5 DEF Lose
  <2> QED BY <1>5, <2>1, GoneStays DEF Lose, server
<1>6. ASSUME NEW s \in Sids, SessionExpires(s) PROVE GoneIsGone'
  <2>1. PICK v : ended' = [ended EXCEPT ![s] = v]
                 /\ (v = "gone" => ~ \E t \in Tabs : session[t].sid = s)
    BY <1>6, ConstantsAssumption DEF SessionExpires
  <2> QED BY <1>6, <2>1, GoneEnds DEF SessionExpires
<1>7. ASSUME NEW t \in Tabs, Send(t) \/ Follow(t) \/ Show(t) PROVE GoneIsGone'
  BY <1>1, <1>7 DEF Send, Follow, Show, server, history
<1>8. CASE CookieExpires BY <1>1, <1>8 DEF CookieExpires, server
<1>9. ASSUME NEW u \in Users, Toggle(u) PROVE GoneIsGone'
  BY <1>1, <1>9 DEF Toggle, history
<1>10. CASE UNCHANGED vars BY <1>1, <1>10 DEF vars
<1> QED
  BY <1>2, <1>3, <1>4, <1>5, <1>6, <1>7, <1>8, <1>9, <1>10 DEF Next, Step

\* A session that ended while no other request was inside it never comes back, for
\* any number of tabs and whatever is lost or expires.
THEOREM SessionsStayGone == Spec => []GoneForGood
<1>1. Init => GoneIsGone BY ConstantsAssumption DEF Init, GoneIsGone
<1>2. GoneIsGone => GoneForGood BY DEF GoneIsGone, GoneForGood
<1> QED BY <1>1, <1>2, NextGone, Invariant, PTL DEF Spec

--------------------------------------------------------------------------------
(* A request that runs alone.                                              *)

\* While alone holds one request runs, and the newest page is in its tab.
OneRuns ==
  /\ alone => \A t, o \in Tabs : ~ Idle(t) /\ ~ Idle(o) => t = o
  /\ current # None => alone /\ \A t \in Tabs : ~ Idle(t) => t = current

\* What a request that runs alone relies on at each label: its copy is that of the
\* session the cookie names, the token of its page is that of the session it
\* leaves behind, and the id it had before is dead when it has been given another.
Own(t) ==
  /\ pc[t] = "read" => sid[t] = cookie
  /\ pc[t] \in {"handle", "save"} =>
       /\ sid[t] # None => sid[t] = cookie
       /\ session[t].sid \in {None, sid[t]}
       /\ session[t].sid # None /\ ~ session[t].dirty =>
            session[t].data = store[session[t].sid]
  /\ pc[t] = "handle" => ~ session[t].dirty
  /\ pc[t] \in {"save", "issue"} =>
       /\ reply[t].cookie = Keep
       /\ reply[t].page # None => session[t].data.csrf = reply[t].page
  /\ pc[t] \in {"save", "issue", "deliver"} /\ call[t].kind = "poll" => reply[t].page = None
  /\ pc[t] \in {"save", "issue", "deliver"} => reply[t].to # "poll"
  /\ pc[t] = "issue" /\ sid[t] # None => store[sid[t]] = Empty
  /\ pc[t] = "deliver" =>
       /\ reply[t].cookie \in Sids /\ sid[t] # None => store[sid[t]] = Empty
       /\ reply[t].page # None =>
            CookieAfter(t) \in Live /\ store[CookieAfter(t)].csrf = reply[t].page

\* The newest page can be posted, and a background request of it, alone, leaves it so.
Good(t) == cookie \in Live /\ store[cookie].csrf = page[t]

Polling(t) ==
  call[t].kind = "poll" /\ current = t /\ current # None /\ page[t] # None =>
    /\ pc[t] \in {"read", "handle", "save"} => Good(t)
    /\ pc[t] \in {"handle", "save"} => session[t].sid # None
    /\ pc[t] = "save" => session[t].data = Empty \/ ~ session[t].dirty
    /\ pc[t] # "issue"
    /\ pc[t] = "deliver" => reply[t].cookie = None \/ (reply[t].cookie = Keep /\ Good(t))

AloneOK ==
  /\ OneRuns
  /\ \A t \in Tabs : alone /\ ~ Idle(t) => Own(t) /\ Polling(t)
  /\ NewestPageCanPost

\* What a handler leaves of its copy, and shows.
LEMMA HandlerShows ==
  ASSUME IInv, NEW t \in Tabs, Handle(t)
  PROVE  /\ session'[t] = session[t] \/ session'[t].dirty
         /\ reply'[t].page # None =>
              session'[t].data.csrf = reply'[t].page /\ call[t].kind # "poll"
         /\ call[t].kind = "poll" =>
              session'[t] = session[t] \/ session'[t] = Clear(session[t])
<1>1. session[t] \in SessionObjects BY DEF IInv, TypeOK
<1>2. ASSUME NEW ses, NEW rep, Respond(t, ses, rep)
      PROVE  session'[t] = ses /\ reply'[t] = rep
  BY <1>2 DEF Respond, IInv, TypeOK
<1>3. Json.page = None /\ \A kind : Redirect(kind).page = None BY DEF Json, Redirect
<1>4. /\ Clear(session[t]) = session[t] \/ Clear(session[t]).dirty
      /\ \A key, v : Set(session[t], key, v) = session[t] \/ Set(session[t], key, v).dirty
  BY <1>1 DEF Clear, Set, SessionObjects
<1>5. ASSUME Render(t), call[t].kind # "poll"
      PROVE  /\ session'[t] = session[t] \/ session'[t].dirty
             /\ session'[t].data.csrf = reply'[t].page
  <2>1. PICK k \in IF session[t].data.csrf = None THEN FreshTokens ELSE {session[t].data.csrf} :
          Respond(t, Pop(Set(session[t], "csrf", k), "flash"),
                  [Json EXCEPT !.page = k, !.flash = session[t].data.flash])
    BY <1>5 DEF Render
  <2>2. k \in Tokens BY <1>1, <2>1 DEF FreshTokens, SessionObjects, Data
  <2> DEFINE one == Set(session[t], "csrf", k)
             two == Pop(one, "flash")
  <2>3. /\ one \in SessionObjects /\ one.data.csrf = k
        /\ one = session[t] \/ one.dirty
    BY <1>1, <2>2 DEF Set, SessionObjects, Data
  <2> HIDE DEF one
  <2>4. two.data.csrf = k /\ (two = one \/ two.dirty)
    BY <2>3 DEF Pop, Set, SessionObjects, Data
  <2>5. session'[t] = two /\ reply'[t] = [Json EXCEPT !.page = k, !.flash = session[t].data.flash]
    BY <1>2, <2>1 DEF one
  <2> HIDE DEF two
  <2>6. reply'[t].page = k BY <2>5 DEF Json
  <2> QED BY <2>3, <2>4, <2>5, <2>6
<1>6. ASSUME NEW ses, NEW rep, Respond(t, ses, rep), rep.page = None,
             ses = session[t] \/ ses.dirty,
             call[t].kind = "poll" => ses \in {session[t], Clear(session[t])}
      PROVE  /\ session'[t] = session[t] \/ session'[t].dirty
             /\ reply'[t].page = None
             /\ call[t].kind = "poll" =>
                  session'[t] = session[t] \/ session'[t] = Clear(session[t])
  BY <1>2, <1>6
<1>7. CASE CsrfReject(t) BY <1>3, <1>6, <1>7 DEF CsrfReject
<1>8. CASE LoginPage(t) BY <1>3, <1>5, <1>6, <1>8 DEF LoginPage, Handling
<1>9. CASE LoginRefused(t) BY <1>3, <1>6, <1>9 DEF LoginRefused
<1>10. CASE Login(t)
  <2> DEFINE ses == Set(Rotate(Clear(session[t])), "username", call[t].username)
  <2>1. ses.dirty
    <3>1. Clear(session[t]) \in SessionObjects BY <1>1, ClearEmpties
    <3>2. Rotate(Clear(session[t])).dirty /\ Rotate(Clear(session[t])) \in SessionObjects
      BY <3>1 DEF Rotate, SessionObjects
    <3> QED BY <3>2 DEF Set, SessionObjects
  <2>2. Respond(t, ses, Redirect("page")) /\ call[t].kind # "poll"
    BY <1>10 DEF Login, Handling
  <2> HIDE DEF ses
  <2> QED BY <1>3, <1>6, <2>1, <2>2
<1>11. CASE Logout(t) BY <1>3, <1>4, <1>6, <1>11 DEF Logout, Handling
<1>12. CASE NotAuthenticated(t) BY <1>3, <1>4, <1>6, <1>12 DEF NotAuthenticated
<1>13. CASE Page(t) BY <1>5, <1>13 DEF Page, Handling
<1>14. CASE Action(t)
  <2>1. PICK m \in FreshMessages : Respond(t, Set(session[t], "flash", m), Redirect("page"))
    BY <1>14 DEF Action
  <2> QED BY <1>3, <1>4, <1>6, <1>14, <2>1 DEF Action, Handling
<1>15. CASE Poll(t) BY <1>3, <1>6, <1>15 DEF Poll
<1> QED BY <1>7, <1>8, <1>9, <1>10, <1>11, <1>12, <1>13, <1>14, <1>15 DEF Handle

LEMMA NextOneRuns == IInv /\ OneRuns /\ [Next]_vars => OneRuns'
<1> SUFFICES ASSUME IInv, OneRuns, [Next]_vars PROVE OneRuns' OBVIOUS
<1> USE DEF Idle
<1>0. pc \in [Tabs -> Labels] BY DEF IInv, TypeOK
<1>1. ASSUME NEW t \in Tabs, Send(t) PROVE OneRuns'
  <2>1. /\ pc' = [pc EXCEPT ![t] = "read"]
        /\ alone' = \A o \in Tabs \ {t} : Idle(o)
        /\ current' = IF alone' /\ current = t THEN t ELSE None
    BY <1>1 DEF Send
  <2>2. \A o \in Tabs \ {t} : pc'[o] = pc[o] BY <1>0, <2>1
  <2> QED BY <2>1, <2>2 DEF OneRuns
<1>2. ASSUME NEW t \in Tabs, ~ Idle(t), \A o \in Tabs \ {t} : pc'[o] = pc[o],
             UNCHANGED <<alone, current>>
      PROVE  OneRuns'
  BY <1>2 DEF OneRuns
<1>3. ASSUME NEW t \in Tabs, Read(t) \/ Handle(t) \/ Save(t) \/ Follow(t) PROVE OneRuns'
  <2>1. ~ Idle(t) /\ UNCHANGED <<alone, current>> /\ \E l \in Labels : pc' = [pc EXCEPT ![t] = l]
    <3>1. CASE Handle(t)
      BY <3>1, HandlerStep DEF Respond, Labels
    <3>2. CASE Read(t) \/ Save(t) \/ Follow(t)
      BY <3>2 DEF Read, Save, SaveRotated, Issue, SaveCleared, SaveDirty, SaveNothing,
                  Saving, Leave, Follow, history, Labels
    <3> QED BY <1>3, <3>1, <3>2
  <2> QED BY <1>0, <1>2, <2>1
<1>4. ASSUME NEW t \in Tabs, Show(t) PROVE OneRuns'
  <2>1. /\ ~ Idle(t) /\ pc' = [pc EXCEPT ![t] = "idle"] /\ UNCHANGED alone
        /\ (current' \in {None, current} \/ (current' = t /\ alone))
    BY <1>4 DEF Show, Finish
  <2>2. pc'[t] = "idle" /\ \A o \in Tabs \ {t} : pc'[o] = pc[o] BY <1>0, <2>1
  <2> QED BY <2>1, <2>2 DEF OneRuns
<1>5. ASSUME Disturb PROVE OneRuns' BY <1>5 DEF Disturb, OneRuns
<1>6. ASSUME NEW u \in Users, Toggle(u) PROVE OneRuns'
  BY <1>6 DEF Toggle, history, OneRuns
<1>7. CASE UNCHANGED vars BY <1>7 DEF vars, OneRuns
<1> QED BY <1>1, <1>3, <1>4, <1>5, <1>6, <1>7
        DEF Next, Step, Lose, SessionExpires, CookieExpires

\* The steps of a request that runs alone.
LEMMA OwnStep ==
  ASSUME IInv, AloneOK, NEW t \in Tabs, Send(t) \/ Step(t), alone', ~ Idle(t)'
  PROVE  Own(t)' /\ Polling(t)'
<1> USE DEF Idle
<1>0. /\ pc \in [Tabs -> Labels] /\ session \in [Tabs -> SessionObjects]
      /\ session[t] \in SessionObjects /\ session[t].data \in Data
      /\ store \in [Sids -> Data] /\ reply \in [Tabs -> Replies]
      /\ sid \in [Tabs -> Sids \cup {None}] /\ call \in [Tabs -> Calls \cup {None}]
      /\ session[t].sid \in Sids \cup {None} /\ sid[t] \in Sids \cup {None}
      /\ cookie \in Sids \cup {None} /\ page \in [Tabs -> Tokens \cup {None}]
      /\ None \notin Sids /\ Keep # None /\ Keep \notin Sids
      /\ Empty.csrf = None
  BY ConstantsAssumption DEF IInv, TypeOK, SessionObjects, Empty
<1>1. CASE Send(t)
  <2>1. /\ pc'[t] = "read" /\ sid'[t] = cookie /\ UNCHANGED <<store, cookie, page>>
        /\ current' = (IF current = t THEN t ELSE None)
        /\ \A o \in Tabs : Idle(o)
    BY <1>0, <1>1 DEF Send, server, browser
  <2>2. Own(t)' BY <2>1 DEF Own
  <2>3. current' # None /\ page'[t] # None => Good(t)'
    BY <2>1 DEF AloneOK, NewestPageCanPost, Good, Live
  <2> QED BY <2>1, <2>2, <2>3 DEF Polling
<1>2. CASE Read(t)
  <2>1. /\ pc[t] = "read" /\ pc'[t] = "handle" /\ call' = call
        /\ UNCHANGED <<store, cookie, page, current, alone>>
        /\ sid'[t] = IF sid[t] \in Live THEN sid[t] ELSE None
        /\ session'[t].sid = sid'[t] /\ session'[t].dirty = FALSE
        /\ session'[t].data = IF sid'[t] = None THEN Empty ELSE store[sid'[t]]
    BY <1>0, <1>2 DEF Read, server, browser, history, NoSession
  <2>2. Own(t) /\ Polling(t) BY <2>1 DEF AloneOK
  <2>3. Own(t)' BY <2>1, <2>2 DEF Own
  <2>4. Polling(t)' BY <1>0, <2>1, <2>2 DEF Own, Polling, Good, Live
  <2> QED BY <2>3, <2>4
<1>3. CASE Handle(t)
  <2>1. PICK ses \in SessionObjects, rep \in PlainReplies :
          Respond(t, ses, rep) /\ Derived(ses, t)
    BY <1>3, HandlerStep
  <2>2. /\ pc[t] = "handle" /\ pc'[t] = "save" /\ session'[t] = ses /\ reply'[t] = rep
        /\ UNCHANGED <<store, cookie, page, current, alone, sid>>
        /\ call'[t].kind = call[t].kind
    <3>1. pc[t] = "handle" /\ call[t] \in Calls
      BY <1>3, HandlerStep DEF IInv, Called
    <3>2. call'[t].kind = call[t].kind
      BY <1>0, <2>1, <3>1 DEF Respond, Calls
    <3> QED BY <1>0, <2>1, <3>1, <3>2 DEF Respond, server, browser
  <2>3. Own(t) /\ Polling(t) BY <2>2 DEF AloneOK
  <2>4. rep.cookie = Keep /\ rep.to # "poll" BY DEF PlainReplies
  <2>5. ses.sid \in {None, session[t].sid} BY <2>1 DEF Derived
  <2>6. ~ ses.dirty => ses = session[t] BY <1>3, <2>2, HandlerShows
  <2>7. rep.page # None => ses.data.csrf = rep.page /\ call[t].kind # "poll"
    BY <1>3, <2>2, HandlerShows
  <2>8. Own(t)' BY <2>2, <2>3, <2>4, <2>5, <2>6, <2>7 DEF Own
  <2>9. call[t].kind = "poll" => /\ ses = session[t] \/ ses = Clear(session[t])
                                 /\ ses.sid = session[t].sid
                                 /\ ses.data = Empty \/ ~ ses.dirty
    BY <1>0, <1>3, <2>2, <2>3, HandlerShows, ClearEmpties DEF Own
  <2>10. Polling(t)' BY <2>2, <2>3, <2>9 DEF Polling, Good, Live
  <2> QED BY <2>8, <2>10
<1>4. CASE Save(t)
  <2>1. /\ pc[t] \in {"save", "issue"} /\ call' = call
        /\ UNCHANGED <<cookie, page, current, alone, sid>>
    BY <1>4 DEF Save, SaveRotated, Issue, SaveCleared, SaveDirty, SaveNothing, Saving, browser
  <2>2. Own(t) /\ Polling(t) BY <2>1 DEF AloneOK
  <2>3. CASE SaveRotated(t)
    <3>1. /\ pc[t] = "save" /\ pc'[t] = "issue" /\ UNCHANGED <<session, reply>>
          /\ session[t].sid = None
          /\ sid[t] # None => store'[sid[t]] = Empty
      BY <1>0, <2>3 DEF SaveRotated, Saving
    <3>2. Own(t)' BY <2>1, <2>2, <3>1 DEF Own
    <3>3. Polling(t)' BY <2>1, <2>2, <3>1 DEF Polling
    <3> QED BY <3>2, <3>3
  <2>4. CASE Issue(t)
    <3>1. PICK s \in FreshSids : /\ store' = [store EXCEPT ![s] = session[t].data]
                                 /\ reply' = [reply EXCEPT ![t].cookie = s]
      BY <2>4 DEF Issue
    <3>2. /\ pc[t] = "issue" /\ pc'[t] = "deliver"
          /\ s \in Sids /\ s # sid[t] /\ store'[s] = session[t].data
          /\ sid[t] # None => store'[sid[t]] = store[sid[t]]
          /\ reply'[t].cookie = s /\ reply'[t].page = reply[t].page /\ reply'[t].to = reply[t].to
      BY <1>0, <2>4, <3>1 DEF Issue, Leave, FreshSids, Replies
    <3>3. reply[t].page # None => session[t].data # Empty BY <1>0, <2>2, <3>2 DEF Own
    <3>4. CookieAfter(t)' = s BY <1>0, <3>2 DEF CookieAfter
    <3>5. Own(t)' BY <1>0, <2>1, <2>2, <3>2, <3>3, <3>4 DEF Own, Live
    <3>6. Polling(t)' BY <2>1, <2>2, <3>2 DEF Polling
    <3> QED BY <3>5, <3>6
  <2>5. CASE SaveCleared(t)
    <3>1. /\ pc[t] = "save" /\ pc'[t] = "deliver"
          /\ session[t].data = Empty
          /\ reply'[t].cookie = None /\ reply'[t].page = reply[t].page /\ reply'[t].to = reply[t].to
      BY <1>0, <2>5 DEF SaveCleared, Saving, Leave, Replies
    <3>2. reply'[t].page = None BY <1>0, <2>2, <3>1 DEF Own
    <3>3. Own(t)' BY <1>0, <2>1, <2>2, <3>1, <3>2 DEF Own
    <3>4. Polling(t)' BY <3>1 DEF Polling
    <3> QED BY <3>3, <3>4
  <2>6. CASE SaveDirty(t)
    <3>1. /\ pc[t] = "save" /\ pc'[t] = "deliver" /\ reply' = reply
          /\ session[t].sid # None /\ session[t].data # Empty /\ session[t].dirty
          /\ store'[session[t].sid] = session[t].data
      BY <1>0, <2>6 DEF SaveDirty, Saving, Leave
    <3>2. reply'[t].cookie = Keep /\ CookieAfter(t)' = cookie /\ session[t].sid = cookie
      BY <1>0, <2>1, <2>2, <3>1 DEF Own, CookieAfter
    <3>3. Own(t)' BY <1>0, <2>1, <2>2, <3>1, <3>2 DEF Own, Live
    <3>4. Polling(t)' BY <2>1, <2>2, <3>1 DEF Polling
    <3> QED BY <3>3, <3>4
  <2>7. CASE SaveNothing(t)
    <3>1. /\ pc[t] = "save" /\ pc'[t] = "deliver" /\ reply' = reply /\ store' = store
          /\ IF session[t].sid = None THEN session[t].data = Empty
             ELSE session[t].data # Empty /\ ~ session[t].dirty
      BY <1>0, <2>7 DEF SaveNothing, Saving, Leave
    <3>2. reply'[t].cookie = Keep /\ CookieAfter(t)' = cookie
      BY <2>1, <2>2, <3>1 DEF Own, CookieAfter
    <3>3. reply[t].page # None => cookie \in Live /\ store[cookie].csrf = reply[t].page
      BY <1>0, <2>2, <3>1 DEF Own, Live
    <3>4. Own(t)' BY <1>0, <2>1, <2>2, <3>1, <3>2, <3>3 DEF Own, Live
    <3>5. Polling(t)' BY <2>1, <2>2, <3>1, <3>2 DEF Polling, Good, Live
    <3> QED BY <3>4, <3>5
  <2> QED BY <1>4, <2>3, <2>4, <2>5, <2>6, <2>7 DEF Save
<1>5. CASE Follow(t)
  <2>1. /\ pc[t] = "deliver" /\ pc'[t] = "read" /\ sid'[t] = cookie'
        /\ call'[t].kind = reply[t].to
    BY <1>0, <1>5 DEF Follow
  <2>2. call'[t].kind # "poll"
    <3>1. alone /\ ~ Idle(t) BY <1>5 DEF Follow, history
    <3> QED BY <2>1, <3>1 DEF AloneOK, Own
  <2>3. Own(t)' BY <2>1, <2>2 DEF Own
  <2> QED BY <2>2, <2>3 DEF Polling
<1>6. CASE Show(t)
  <2>1. pc'[t] = "idle" BY <1>0, <1>6 DEF Show, Finish
  <2> QED BY <2>1
<1> QED BY <1>1, <1>2, <1>3, <1>4, <1>5, <1>6 DEF Step

\* The page a tab is shown, and the page it still shows.
LEMMA ShowGood ==
  ASSUME IInv, AloneOK, NEW t \in Tabs, Show(t), current' # None, page'[current'] # None
  PROVE  cookie' \in Live' /\ store'[cookie'].csrf = page'[current']
<1> USE DEF Idle
<1>0. /\ page \in [Tabs -> Tokens \cup {None}] /\ UNCHANGED store /\ pc[t] = "deliver"
      /\ ~ Idle(t) /\ Keep # None
      /\ cookie' = CookieAfter(t)
      /\ page' = (IF call[t].kind = "poll" THEN page ELSE [page EXCEPT ![t] = reply[t].page])
      /\ current' = (IF reply[t].page # None /\ alone THEN t
                     ELSE IF reply[t].cookie = None THEN None ELSE current)
  BY ConstantsAssumption DEF IInv, TypeOK, Show, SetCookie, CookieAfter, server
<1>1. alone => Own(t) /\ Polling(t) BY <1>0 DEF AloneOK
<1>2. CASE reply[t].page # None /\ alone
  <2>1. page'[t] = reply[t].page BY <1>0, <1>1, <1>2 DEF Own
  <2> QED BY <1>0, <1>1, <1>2, <2>1 DEF Own, Good, Live
<1>3. CASE ~ (reply[t].page # None /\ alone)
  <2>1. current' = current /\ reply[t].cookie # None BY <1>0, <1>3
  <2>2. alone /\ current = t BY <1>0, <2>1 DEF AloneOK, OneRuns
  <2>3. call[t].kind = "poll" BY <1>0, <1>3, <2>1, <2>2
  <2>4. reply[t].cookie = Keep /\ Good(t)
    BY <1>0, <1>1, <2>1, <2>2, <2>3 DEF Polling
  <2> QED BY <1>0, <2>1, <2>2, <2>3, <2>4 DEF Good, CookieAfter, Live
<1> QED BY <1>2, <1>3

LEMMA NextAlone == IInv /\ AloneOK /\ [Next]_vars => AloneOK'
<1> SUFFICES ASSUME IInv, AloneOK, [Next]_vars PROVE AloneOK' OBVIOUS
<1> USE DEF Idle
<1>0. OneRuns' BY NextOneRuns DEF AloneOK
<1>1. ASSUME Disturb PROVE AloneOK'
  BY <1>0, <1>1 DEF Disturb, AloneOK, NewestPageCanPost
<1>2. ASSUME UNCHANGED <<store, browser, pc, call, sid, session, reply, history>>
      PROVE  AloneOK'
  <2>1. \A t \in Tabs : Own(t)' = Own(t) /\ Polling(t)' = Polling(t)
    BY <1>2 DEF Own, Polling, Good, Live, CookieAfter, browser, history
  <2>2. NewestPageCanPost'
    BY <1>2 DEF AloneOK, NewestPageCanPost, Live, browser, history
  <2> QED BY <1>0, <1>2, <2>1, <2>2 DEF AloneOK, history
<1>3. ASSUME NEW t \in Tabs, Send(t) \/ Step(t) PROVE AloneOK'
  <2>1. ASSUME NEW o \in Tabs, alone', ~ Idle(o)' PROVE Own(o)' /\ Polling(o)'
    <3>1. CASE o = t BY <1>3, <2>1, <3>1, OwnStep
    <3>2. CASE o # t
      <4>1. pc'[o] = pc[o]
        <5>1. pc \in [Tabs -> Labels] BY DEF IInv, TypeOK
        <5>2. Handle(t) => pc' = [pc EXCEPT ![t] = "save"] BY HandlerStep DEF Respond
        <5> QED BY <1>3, <3>2, <5>1, <5>2
                DEF Send, Step, Read, Save, SaveRotated, Issue, SaveCleared, SaveDirty,
                    SaveNothing, Leave, Follow, Show, Finish
      <4>2. CASE Send(t) BY <2>1, <3>2, <4>1, <4>2 DEF Send
      <4>3. CASE Step(t)
        <5>1. ~ Idle(t) /\ alone' = alone
          <6>1. CASE Handle(t) BY <6>1, HandlerStep DEF Respond
          <6> QED BY <4>3, <6>1
                  DEF Step, Read, Save, SaveRotated, Issue, SaveCleared, SaveDirty,
                      SaveNothing, Saving, Follow, Show, history
        <5> QED BY <2>1, <3>2, <4>1, <5>1 DEF AloneOK, OneRuns
      <4> QED BY <1>3, <4>2, <4>3
    <3> QED BY <3>1, <3>2
  <2>2. NewestPageCanPost'
    <3>1. CASE Show(t)
      BY <3>1, ShowGood DEF NewestPageCanPost
    <3>2. CASE ~ Show(t)
      <4>1. pc'[t] # "idle"
        <5>1. pc \in [Tabs -> Labels] BY DEF IInv, TypeOK
        <5>2. Handle(t) => pc' = [pc EXCEPT ![t] = "save"] BY HandlerStep DEF Respond
        <5> QED BY <1>3, <3>2, <5>1, <5>2
                DEF Send, Step, Read, Save, SaveRotated, Issue, SaveCleared, SaveDirty,
                    SaveNothing, Leave, Follow
      <4> QED BY <4>1 DEF NewestPageCanPost
    <3> QED BY <3>1, <3>2
  <2> QED BY <1>0, <2>1, <2>2 DEF AloneOK
<1>4. CASE UNCHANGED vars BY <1>2, <1>4 DEF vars, browser, history
<1> QED BY <1>1, <1>2, <1>3, <1>4
        DEF Next, Lose, SessionExpires, CookieExpires, Toggle

LEMMA InitAlone == Init => AloneOK
BY DEF Init, AloneOK, OneRuns, NewestPageCanPost, Idle

\* When a login that ran by itself is answered, the id from before it is dead.
THEOREM LoginsRetireOldSids == Spec => []LoginRetiresOldSid
<1>1. AloneOK => LoginRetiresOldSid BY DEF AloneOK, Own, LoginRetiresOldSid, Idle
<1> QED BY <1>1, InitAlone, NextAlone, Invariant, PTL DEF Spec

\* A page that a request running by itself has fetched carries the token of the
\* session the cookie names, whatever happened before, until another request runs.
THEOREM NewestPagesCanPost == Spec => []NewestPageCanPost
<1>1. AloneOK => NewestPageCanPost BY DEF AloneOK
<1> QED BY <1>1, InitAlone, NextAlone, Invariant, PTL DEF Spec

--------------------------------------------------------------------------------
(* Redirects to the login page.                                            *)

\* What a request that runs alone keeps to: only a login gives up the id it has read, a
\* request without one comes from a cookie that names nothing, and with a redirect to
\* the login page goes a session of nobody.
Ends(t) ==
  /\ pc[t] = "handle" \/ (pc[t] = "save" /\ call[t].kind # "login") => session[t].sid = sid[t]
  /\ pc[t] \in {"handle", "save"} /\ sid[t] = None => cookie \notin Live
  /\ reply[t].to = "login_page" /\ call[t].kind # "login" =>
       /\ pc[t] \in {"save", "issue"} => session[t].data.username = None
       /\ pc[t] = "deliver" /\ CookieAfter(t) # None => store[CookieAfter(t)].username = None

EndsOK == \A t \in Tabs : alone /\ ~ Idle(t) => Ends(t)

\* Only a login changes the id, and who is sent to the login page is nobody any more.
LEMMA HandlerEnds ==
  ASSUME IInv, NEW t \in Tabs, Handle(t), call[t].kind # "login"
  PROVE  /\ session'[t].sid = session[t].sid
         /\ reply'[t].to = "login_page" => session'[t].data.username = None
<1>1. session[t] \in SessionObjects /\ session[t].data \in Data
  BY DEF IInv, TypeOK, SessionObjects
<1>2. ASSUME NEW ses, NEW rep, Respond(t, ses, rep)
      PROVE  session'[t] = ses /\ reply'[t] = rep
  BY <1>2 DEF Respond, IInv, TypeOK
<1>3. Json.to # "login_page" /\ Redirect("page").to # "login_page"
  BY ConstantsAssumption DEF Json, Redirect, AllKinds
<1>4. Clear(session[t]).data.username = None /\ Clear(session[t]).sid = session[t].sid
  BY <1>1, ClearEmpties DEF Empty
<1>5. ASSUME Render(t)
      PROVE  session'[t].sid = session[t].sid /\ reply'[t].to # "login_page"
  <2>1. PICK k \in IF session[t].data.csrf = None THEN FreshTokens ELSE {session[t].data.csrf} :
          Respond(t, Pop(Set(session[t], "csrf", k), "flash"),
                  [Json EXCEPT !.page = k, !.flash = session[t].data.flash])
    BY <1>5 DEF Render
  <2>2. k \in Tokens BY <1>1, <2>1 DEF FreshTokens, Data
  <2> DEFINE one == Set(session[t], "csrf", k)
             two == Pop(one, "flash")
  <2>3. one \in SessionObjects /\ one.sid = session[t].sid BY <1>1, <2>2, SetCsrf
  <2>4. session'[t] = two /\ reply'[t] = [Json EXCEPT !.page = k, !.flash = session[t].data.flash]
    BY <1>2, <2>1
  <2> HIDE DEF one
  <2>5. two.sid = one.sid BY <2>3, SetFlash DEF Pop
  <2> HIDE DEF two
  <2>6. reply'[t].to = Json.to BY <2>4 DEF Json
  <2> QED BY <1>3, <2>3, <2>4, <2>5, <2>6
<1>6. CASE CsrfReject(t) BY <1>2, <1>3, <1>6 DEF CsrfReject
<1>7. CASE LoginPage(t) BY <1>2, <1>3, <1>5, <1>7 DEF LoginPage
<1>8. CASE LoginRefused(t) \/ Login(t) BY <1>8 DEF LoginRefused, Login, Handling
<1>9. CASE Logout(t) BY <1>2, <1>4, <1>9 DEF Logout
<1>10. CASE NotAuthenticated(t) BY <1>2, <1>4, <1>10 DEF NotAuthenticated
<1>11. CASE Page(t) BY <1>5, <1>11 DEF Page
<1>12. CASE Action(t)
  <2>1. PICK m \in FreshMessages : Respond(t, Set(session[t], "flash", m), Redirect("page"))
    BY <1>12 DEF Action
  <2>2. Set(session[t], "flash", m).sid = session[t].sid
    BY <1>1, SetFlash DEF FreshMessages
  <2> QED BY <1>2, <1>3, <2>1, <2>2
<1>13. CASE Poll(t) BY <1>2, <1>3, <1>13 DEF Poll
<1> QED BY <1>6, <1>7, <1>8, <1>9, <1>10, <1>11, <1>12, <1>13 DEF Handle

\* The steps of a request that runs alone.
LEMMA OwnEnds ==
  ASSUME IInv, AloneOK, EndsOK, NEW t \in Tabs, Send(t) \/ Step(t), alone', ~ Idle(t)'
  PROVE  Ends(t)'
<1> USE DEF Idle
<1>0. /\ pc \in [Tabs -> Labels] /\ session \in [Tabs -> SessionObjects]
      /\ session[t] \in SessionObjects /\ session[t].data \in Data
      /\ store \in [Sids -> Data] /\ reply \in [Tabs -> Replies]
      /\ sid \in [Tabs -> Sids \cup {None}] /\ call \in [Tabs -> Calls \cup {None}]
      /\ session[t].sid \in Sids \cup {None} /\ sid[t] \in Sids \cup {None}
      /\ cookie \in Sids \cup {None}
      /\ None \notin Sids /\ Keep # None /\ Keep \notin Sids
      /\ Empty.username = None
  BY ConstantsAssumption DEF IInv, TypeOK, SessionObjects, Empty
<1>1. CASE Send(t) \/ Follow(t)
  <2>1. pc'[t] = "read" BY <1>0, <1>1 DEF Send, Follow
  <2> QED BY <2>1 DEF Ends
<1>2. CASE Read(t)
  <2>1. /\ pc[t] = "read" /\ pc'[t] = "handle" /\ UNCHANGED <<store, cookie, alone>>
        /\ sid'[t] = IF sid[t] \in Live THEN sid[t] ELSE None
        /\ session'[t].sid = sid'[t]
    BY <1>0, <1>2 DEF Read, server, browser, history, NoSession
  <2>2. sid[t] = cookie BY <2>1 DEF AloneOK, Own
  <2> QED BY <1>0, <2>1, <2>2 DEF Ends, Live
<1>3. CASE Handle(t)
  <2>1. PICK ses \in SessionObjects, rep \in PlainReplies : Respond(t, ses, rep)
    BY <1>3, HandlerStep
  <2>2. pc[t] = "handle" /\ call[t] \in Calls
    BY <1>3, HandlerStep DEF IInv, Called
  <2>3. /\ pc'[t] = "save" /\ UNCHANGED <<store, cookie, alone, sid>>
        /\ call'[t].kind = call[t].kind
    <3>1. call'[t].kind = call[t].kind BY <1>0, <2>1, <2>2 DEF Respond, Calls
    <3> QED BY <1>0, <2>1, <3>1 DEF Respond, server, browser
  <2>4. Ends(t) BY <2>2, <2>3 DEF EndsOK
  <2> QED BY <1>3, <2>2, <2>3, <2>4, HandlerEnds DEF Ends, Live
<1>4. CASE Save(t)
  <2>1. /\ pc[t] \in {"save", "issue"} /\ call' = call /\ UNCHANGED <<cookie, alone, sid>>
        /\ pc'[t] \in {"issue", "deliver"}
    BY <1>0, <1>4 DEF Save, SaveRotated, Issue, SaveCleared, SaveDirty, SaveNothing, Saving,
                      Leave, browser
  <2>2. Own(t) /\ Ends(t) BY <2>1 DEF AloneOK, EndsOK
  <2> SUFFICES ASSUME reply'[t].to = "login_page", call[t].kind # "login"
               PROVE  /\ pc'[t] = "issue" => session'[t].data.username = None
                      /\ pc'[t] = "deliver" /\ CookieAfter(t)' # None =>
                           store'[CookieAfter(t)'].username = None
    BY <2>1 DEF Ends
  <2>3. CASE SaveRotated(t)
    <3>1. /\ pc[t] = "save" /\ pc'[t] = "issue" /\ UNCHANGED <<session, reply>>
      BY <1>0, <2>3 DEF SaveRotated, Saving
    <3> QED BY <2>2, <3>1 DEF Ends
  <2>4. CASE Issue(t)
    <3>1. PICK s \in FreshSids : /\ store' = [store EXCEPT ![s] = session[t].data]
                                 /\ reply' = [reply EXCEPT ![t].cookie = s]
      BY <2>4 DEF Issue
    <3>2. /\ pc[t] = "issue" /\ pc'[t] = "deliver"
          /\ s \in Sids /\ store'[s] = session[t].data
          /\ reply'[t].cookie = s /\ reply'[t].to = reply[t].to
      BY <1>0, <2>4, <3>1 DEF Issue, Leave, FreshSids, Replies
    <3>3. CookieAfter(t)' = s BY <1>0, <3>2 DEF CookieAfter
    <3> QED BY <2>2, <3>2, <3>3 DEF Ends
  <2>5. CASE SaveCleared(t)
    <3>1. pc'[t] = "deliver" /\ reply'[t].cookie = None
      BY <1>0, <2>5 DEF SaveCleared, Saving, Leave, Replies
    <3> QED BY <1>0, <3>1 DEF CookieAfter
  <2>6. CASE SaveDirty(t)
    <3>1. /\ pc[t] = "save" /\ pc'[t] = "deliver" /\ reply' = reply
          /\ session[t].sid # None /\ store'[session[t].sid] = session[t].data
      BY <1>0, <2>6 DEF SaveDirty, Saving, Leave
    <3>2. CookieAfter(t)' = cookie /\ session[t].sid = cookie
      BY <1>0, <2>1, <2>2, <3>1 DEF Own, CookieAfter
    <3> QED BY <2>2, <3>1, <3>2 DEF Ends
  <2>7. CASE SaveNothing(t)
    <3>1. /\ pc[t] = "save" /\ pc'[t] = "deliver" /\ reply' = reply /\ store' = store
          /\ session[t].sid # None => ~ session[t].dirty
      BY <1>0, <2>7 DEF SaveNothing, Saving, Leave
    <3>2. CookieAfter(t)' = cookie /\ session[t].sid = sid[t]
      BY <2>1, <2>2, <3>1 DEF Own, Ends, CookieAfter
    <3>3. CASE sid[t] = None
      BY <1>0, <2>2, <3>1, <3>2, <3>3 DEF Ends, Live
    <3>4. CASE sid[t] # None
      <4>1. sid[t] = cookie /\ store[cookie] = session[t].data
        BY <2>2, <3>1, <3>2, <3>4 DEF Own
      <4> QED BY <2>2, <3>1, <3>2, <4>1 DEF Ends
    <3> QED BY <3>3, <3>4
  <2> QED BY <1>4, <2>3, <2>4, <2>5, <2>6, <2>7 DEF Save
<1>5. CASE Show(t)
  <2>1. pc'[t] = "idle" BY <1>0, <1>5 DEF Show, Finish
  <2> QED BY <2>1
<1> QED BY <1>1, <1>2, <1>3, <1>4, <1>5 DEF Step

LEMMA NextEnds == IInv /\ AloneOK /\ EndsOK /\ [Next]_vars => EndsOK'
<1> SUFFICES ASSUME IInv, AloneOK, EndsOK, [Next]_vars PROVE EndsOK' OBVIOUS
<1> USE DEF Idle
<1>0. AloneOK' BY NextAlone
<1>1. ASSUME Disturb PROVE EndsOK' BY <1>1 DEF Disturb, EndsOK
<1>2. ASSUME UNCHANGED <<store, browser, pc, call, sid, session, reply, history>>
      PROVE  EndsOK'
  <2>1. \A t \in Tabs : Ends(t)' = Ends(t)
    BY <1>2 DEF Ends, Live, CookieAfter, browser
  <2> QED BY <1>2, <2>1 DEF EndsOK, history
<1>3. ASSUME NEW t \in Tabs, Send(t) \/ Step(t) PROVE EndsOK'
  <2> SUFFICES ASSUME NEW o \in Tabs, alone', ~ Idle(o)' PROVE Ends(o)' BY DEF EndsOK
  <2>1. CASE o = t BY <1>3, <2>1, OwnEnds
  <2>2. CASE Idle(t)' /\ o # t
    <3>1. Show(t)
      <4>1. pc \in [Tabs -> Labels] BY DEF IInv, TypeOK
      <4>2. Handle(t) => pc' = [pc EXCEPT ![t] = "save"] BY HandlerStep DEF Respond
      <4> QED BY <1>3, <2>2, <4>1, <4>2
              DEF Send, Step, Read, Save, SaveRotated, Issue, SaveCleared, SaveDirty,
                  SaveNothing, Leave, Follow
    <3>2. alone /\ pc'[o] = pc[o] /\ pc[t] = "deliver"
      BY <2>2, <3>1 DEF Show, Finish, IInv, TypeOK
    <3> QED BY <2>2, <3>2 DEF AloneOK, OneRuns
  <2>3. CASE ~ Idle(t)' /\ o # t
    BY <1>0, <2>3 DEF AloneOK, OneRuns
  <2> QED BY <2>1, <2>2, <2>3
<1>4. CASE UNCHANGED vars BY <1>2, <1>4 DEF vars, browser, history
<1> QED BY <1>1, <1>2, <1>3, <1>4
        DEF Next, Lose, SessionExpires, CookieExpires, Toggle

\* Who is sent to the login page by a request that runs alone is logged out when the
\* browser gets there, so that it is not sent back: whatever became of the account or
\* the session before, and for any number of tabs.
THEOREM RedirectsToLoginEnd == Spec => []RedirectsEnd
<1>1. EndsOK => RedirectsEnd BY DEF EndsOK, Ends, RedirectsEnd, Idle
<1>2. Init => EndsOK BY DEF Init, EndsOK, Idle
<1> QED BY <1>1, <1>2, InitAlone, NextAlone, NextEnds, Invariant, PTL DEF Spec

--------------------------------------------------------------------------------
(* Flash messages, in one tab.                                             *)

OneTab == \A t, o \in Tabs : t = o

\* A message is somewhere on its way to the page: in the store, in the copy of a request
\* or in its response.
Held(m) ==
  \/ \E s \in Sids : store[s].flash = m
  \/ \E t \in Tabs : session[t].data.flash = m \/ reply[t].flash = m

\* It is until it has been shown, in one session; the copy of a request is of that, and
\* once it is in a response it is nowhere else, but in the session that the request is
\* about to overwrite.
OnItsWayOnce == \A m \in Messages : shown[m] = 0 \/ (shown[m] = 1 /\ ~ Held(m))

InOneSession ==
  \A s, r \in Sids : store[s].flash # None /\ store[r].flash = store[s].flash => r = s

CopiedFrom(t) ==
  \A s \in Sids : store[s].flash # None /\ store[s].flash = session[t].data.flash =>
    s = session[t].sid

TakenOut(t) ==
  reply[t].flash # None =>
    /\ session[t].data.flash # reply[t].flash
    /\ \A s \in Sids : store[s].flash = reply[t].flash =>
         pc[t] = "save" /\ s = session[t].sid /\ session[t].dirty

Rotated(t) == pc[t] = "issue" => session[t].sid = None

FlashOK ==
  /\ OnItsWayOnce
  /\ InOneSession
  /\ \A t \in Tabs : CopiedFrom(t) /\ TakenOut(t) /\ Rotated(t)

\* What a handler does with the message of its session: it leaves it, drops it, takes it
\* out to show it, or puts a new one in its place.
LEMMA HandlerFlash ==
  ASSUME IInv, NEW t \in Tabs, Handle(t)
  PROVE  /\ reply'[t].flash # None =>
              /\ reply'[t].flash = session[t].data.flash
              /\ session'[t].data.flash = None /\ session'[t].dirty
         /\ session'[t].data.flash # None \/ reply'[t].flash # None =>
              session'[t].sid = session[t].sid
         /\ \/ session'[t].data.flash \in {None, session[t].data.flash} /\ UNCHANGED shown
            \/ /\ session'[t].data.flash \in FreshMessages
               /\ shown' = [shown EXCEPT ![session'[t].data.flash] = 0]
<1> DEFINE Goal(old, ses, rep) ==
      /\ rep.flash # None => rep.flash = old.data.flash /\ ses.data.flash = None /\ ses.dirty
      /\ ses.data.flash # None \/ rep.flash # None => ses.sid = old.sid
<1>1. session[t] \in SessionObjects /\ session[t].data \in Data
  BY DEF IInv, TypeOK, SessionObjects
<1>2. ASSUME NEW ses, NEW rep, Respond(t, ses, rep)
      PROVE  session'[t] = ses /\ reply'[t] = rep
  BY <1>2 DEF Respond, IInv, TypeOK
<1>3. Json.flash = None /\ \A kind : Redirect(kind).flash = None BY DEF Json, Redirect
<1>4. Clear(session[t]).data.flash = None /\ Clear(session[t]).sid = session[t].sid
  BY <1>1, ClearEmpties DEF Empty
<1>5. ASSUME Render(t)
      PROVE  Goal(session[t], session'[t], reply'[t]) /\ session'[t].data.flash = None
  <2>1. PICK k \in IF session[t].data.csrf = None THEN FreshTokens ELSE {session[t].data.csrf} :
          Respond(t, Pop(Set(session[t], "csrf", k), "flash"),
                  [Json EXCEPT !.page = k, !.flash = session[t].data.flash])
    BY <1>5 DEF Render
  <2>2. k \in Tokens BY <1>1, <2>1 DEF FreshTokens, Data
  <2> DEFINE one == Set(session[t], "csrf", k)
             two == Pop(one, "flash")
  <2>3. /\ one \in SessionObjects /\ one.sid = session[t].sid
        /\ one.data.flash = session[t].data.flash
    BY <1>1, <2>2, SetCsrf DEF Set, SessionObjects, Data
  <2>4. session'[t] = two /\ reply'[t] = [Json EXCEPT !.page = k, !.flash = session[t].data.flash]
    BY <1>2, <2>1
  <2> HIDE DEF one
  <2>5. /\ two.sid = one.sid /\ two.data.flash = None
        /\ one.data.flash # None => two.dirty
    BY <2>3 DEF Pop, Set, SessionObjects, Data
  <2> HIDE DEF two
  <2>6. reply'[t].flash = session[t].data.flash BY <2>4 DEF Json
  <2> QED BY <2>3, <2>4, <2>5, <2>6
<1>6. CASE CsrfReject(t) BY <1>2, <1>3, <1>6 DEF CsrfReject
<1>7. CASE LoginPage(t)
  BY <1>2, <1>3, <1>5, <1>7 DEF LoginPage, Render
<1>8. CASE LoginRefused(t) BY <1>2, <1>3, <1>8 DEF LoginRefused
<1>9. CASE Login(t)
  <2> DEFINE ses == Set(Rotate(Clear(session[t])), "username", call[t].username)
  <2>1. Rotate(Clear(session[t])).data = Clear(session[t]).data
    BY <1>1, ClearEmpties DEF Rotate, SessionObjects
  <2>2. ses.data.flash = None
    BY <1>1, <1>4, <2>1, ClearEmpties DEF Set, Rotate, SessionObjects, Data
  <2>3. Respond(t, ses, Redirect("page")) /\ UNCHANGED shown BY <1>9 DEF Login
  <2> HIDE DEF ses
  <2> QED BY <1>2, <1>3, <2>2, <2>3
<1>10. CASE Logout(t) BY <1>2, <1>3, <1>4, <1>10 DEF Logout
<1>11. CASE NotAuthenticated(t) BY <1>2, <1>3, <1>4, <1>11 DEF NotAuthenticated
<1>12. CASE Page(t) BY <1>5, <1>12 DEF Page, Render
<1>13. CASE Action(t)
  <2>1. PICK m \in FreshMessages : /\ Respond(t, Set(session[t], "flash", m), Redirect("page"))
                                   /\ shown' = [shown EXCEPT ![m] = 0]
    BY <1>13 DEF Action
  <2>2. m \in Messages BY DEF FreshMessages
  <2>3. Set(session[t], "flash", m).sid = session[t].sid /\ Set(session[t], "flash", m).data.flash = m
    BY <1>1, <2>2, SetFlash DEF Set, SessionObjects, Data
  <2> QED BY <1>2, <1>3, <2>1, <2>3
<1>14. CASE Poll(t) BY <1>2, <1>3, <1>14 DEF Poll
<1> QED BY <1>6, <1>7, <1>8, <1>9, <1>10, <1>11, <1>12, <1>13, <1>14 DEF Handle

\* A step that shows nothing and puts no message where it was not before.
LEMMA ShownKept ==
  ASSUME OnItsWayOnce, UNCHANGED shown, \A m \in Messages : Held(m)' => Held(m)
  PROVE  OnItsWayOnce'
BY DEF OnItsWayOnce

LEMMA HandleKeepsFlash ==
  ASSUME OneTab, IInv, FlashOK, NEW t \in Tabs, Handle(t)
  PROVE  FlashOK'
<1>0. /\ session \in [Tabs -> SessionObjects] /\ reply \in [Tabs -> Replies]
      /\ shown \in [Messages -> 0..2] /\ None \notin Messages
      /\ session[t].data.flash \in Messages \cup {None}
      /\ \A o \in Tabs : o = t
  BY ConstantsAssumption DEF OneTab, IInv, TypeOK, SessionObjects, Data
<1>1. UNCHANGED store /\ pc'[t] = "save"
  BY HandlerStep DEF Respond, server, IInv, TypeOK
<1>2. CopiedFrom(t) /\ TakenOut(t) BY DEF FlashOK
<1>3. InOneSession' BY <1>1 DEF FlashOK, InOneSession
<1>4. CopiedFrom(t)'
  <2>1. CASE session'[t].data.flash \in FreshMessages
    BY <1>1, <2>1 DEF FreshMessages, CopiedFrom
  <2>2. CASE session'[t].data.flash \in {None, session[t].data.flash}
    BY <1>1, <1>2, <2>2, HandlerFlash DEF CopiedFrom
  <2> QED BY <2>1, <2>2, HandlerFlash
<1>5. TakenOut(t)' BY <1>1, <1>2, HandlerFlash DEF CopiedFrom, TakenOut
<1>6. OnItsWayOnce'
  <2>1. CASE session'[t].data.flash \in {None, session[t].data.flash} /\ UNCHANGED shown
    <3>1. \A m \in Messages : Held(m)' => Held(m)
      BY <1>0, <1>1, <2>1, HandlerFlash DEF Held
    <3> QED BY <2>1, <3>1, ShownKept DEF FlashOK
  <2>2. CASE /\ session'[t].data.flash \in FreshMessages
             /\ shown' = [shown EXCEPT ![session'[t].data.flash] = 0]
    <3> DEFINE new == session'[t].data.flash
    <3>1. new \in Messages BY <2>2 DEF FreshMessages
    <3>2. shown'[new] = 0 /\ \A m \in Messages \ {new} : shown'[m] = shown[m]
      BY <1>0, <2>2, <3>1
    <3>3. \A m \in Messages \ {new} : Held(m)' => Held(m)
      BY <1>0, <1>1, HandlerFlash DEF Held
    <3> HIDE DEF new
    <3> QED BY <3>2, <3>3 DEF FlashOK, OnItsWayOnce
  <2> QED BY <2>1, <2>2, HandlerFlash
<1> QED BY <1>0, <1>1, <1>3, <1>4, <1>5, <1>6 DEF FlashOK, Rotated

\* A step that only drops messages, or the whole copy or response of the request.
LEMMA DropKeepsFlash ==
  ASSUME OneTab, IInv, FlashOK, NEW t \in Tabs, UNCHANGED shown,
         \A s \in Sids : store'[s].flash \in {None, store[s].flash}, Rotated(t)',
         session'[t] = session[t] \/ session'[t].data.flash = None,
         reply'[t].flash \in {None, reply[t].flash},
         \/ reply'[t].flash = None
         \/ pc'[t] = pc[t] /\ UNCHANGED session
         \/ \A s \in Sids : store'[s].flash # reply[t].flash
  PROVE  FlashOK'
<1>0. None \notin Messages /\ \A o \in Tabs : o = t
  BY ConstantsAssumption DEF OneTab
<1>1. CopiedFrom(t) /\ TakenOut(t) /\ InOneSession BY DEF FlashOK
<1>2. InOneSession' BY <1>1 DEF InOneSession
<1>3. CopiedFrom(t)' BY <1>1 DEF CopiedFrom
<1>4. TakenOut(t)' BY <1>1 DEF TakenOut
<1>5. \A m \in Messages : Held(m)' => Held(m) BY <1>0 DEF Held
<1> QED BY <1>0, <1>2, <1>3, <1>4, <1>5, ShownKept DEF FlashOK

\* A step that writes the copy of the request, and with it its message, to the store.
LEMMA WriteKeepsFlash ==
  ASSUME OneTab, IInv, FlashOK, NEW t \in Tabs, UNCHANGED shown,
         NEW w \in Sids, store' = [store EXCEPT ![w] = session[t].data],
         \A s \in Sids \ {w} :
           store[s].flash # None => store[s].flash \notin {session[t].data.flash, reply[t].flash},
         session'[t] = NoSession, reply'[t].flash = reply[t].flash, pc'[t] = "deliver"
  PROVE  FlashOK'
<1>0. /\ None \notin Messages /\ NoSession.data.flash = None /\ \A o \in Tabs : o = t
      /\ \A s \in Sids : store'[s] = IF s = w THEN session[t].data ELSE store[s]
  BY ConstantsAssumption DEF OneTab, NoSession, Empty, IInv, TypeOK
<1>1. TakenOut(t) /\ InOneSession BY DEF FlashOK
<1>2. InOneSession' BY <1>0, <1>1 DEF InOneSession
<1>3. CopiedFrom(t)' BY <1>0 DEF CopiedFrom
<1>4. TakenOut(t)' BY <1>0, <1>1 DEF TakenOut
<1>5. \A m \in Messages : Held(m)' => Held(m) BY <1>0 DEF Held
<1> QED BY <1>0, <1>2, <1>3, <1>4, <1>5, ShownKept DEF FlashOK, Rotated

LEMMA SaveKeepsFlash ==
  ASSUME OneTab, IInv, FlashOK, NEW t \in Tabs, Save(t)
  PROVE  FlashOK'
<1>0. /\ session \in [Tabs -> SessionObjects] /\ reply \in [Tabs -> Replies]
      /\ store \in [Sids -> Data] /\ pc \in [Tabs -> Labels]
      /\ session[t].sid \in Sids \cup {None} /\ sid[t] \in Sids \cup {None}
      /\ session[t].data.flash \in Messages \cup {None}
      /\ reply[t].flash \in Messages \cup {None}
      /\ None \notin Messages /\ None \notin Sids /\ NoSession.data.flash = None
      /\ Empty.flash = None /\ \A o \in Tabs : o = t
  BY ConstantsAssumption
  DEF OneTab, IInv, TypeOK, SessionObjects, Data, Replies, NoSession, Empty
<1>1. CopiedFrom(t) /\ TakenOut(t) /\ Rotated(t) BY DEF FlashOK
<1>2. UNCHANGED shown
  BY DEF Save, SaveRotated, Issue, SaveCleared, SaveDirty, SaveNothing, Saving
<1>3. CASE SaveRotated(t)
  <2>1. /\ UNCHANGED <<session, reply>> /\ session[t].sid = None
        /\ \A s \in Sids : store'[s] \in {Empty, store[s]}
    BY <1>0, <1>3 DEF SaveRotated
  <2>2. reply[t].flash # None => \A s \in Sids : store'[s].flash # reply[t].flash
    BY <1>0, <1>1, <2>1 DEF TakenOut
  <2> QED BY <1>0, <1>2, <2>1, <2>2, DropKeepsFlash DEF Rotated
<1>4. CASE SaveCleared(t)
  <2>1. /\ session'[t] = NoSession /\ reply'[t].flash = reply[t].flash /\ pc'[t] = "deliver"
        /\ \A s \in Sids : store'[s] = IF s = session[t].sid THEN Empty ELSE store[s]
    BY <1>0, <1>4 DEF SaveCleared, Leave, Replies
  <2>2. reply[t].flash # None => \A s \in Sids : store'[s].flash # reply[t].flash
    BY <1>0, <1>1, <2>1 DEF TakenOut
  <2> QED BY <1>0, <1>2, <2>1, <2>2, DropKeepsFlash DEF Rotated
<1>5. CASE SaveNothing(t)
  <2>1. /\ session'[t] = NoSession /\ UNCHANGED <<reply, store>> /\ pc'[t] = "deliver"
        /\ session[t].sid # None => ~ session[t].dirty
    BY <1>0, <1>5 DEF SaveNothing, Leave
  <2>2. reply[t].flash # None => \A s \in Sids : store'[s].flash # reply[t].flash
    BY <1>0, <1>1, <2>1 DEF TakenOut
  <2> QED BY <1>0, <1>2, <2>1, <2>2, DropKeepsFlash DEF Rotated
<1>6. CASE SaveDirty(t)
  <2>1. /\ session[t].sid \in Sids /\ store' = [store EXCEPT ![session[t].sid] = session[t].data]
        /\ session'[t] = NoSession /\ reply' = reply /\ pc'[t] = "deliver"
    BY <1>0, <1>6 DEF SaveDirty, Leave
  <2>2. \A s \in Sids \ {session[t].sid} :
          store[s].flash # None => store[s].flash \notin {session[t].data.flash, reply[t].flash}
    BY <1>1 DEF CopiedFrom, TakenOut
  <2> QED BY <1>2, <2>1, <2>2, WriteKeepsFlash
<1>7. CASE Issue(t)
  <2>1. PICK s \in FreshSids : /\ store' = [store EXCEPT ![s] = session[t].data]
                               /\ reply' = [reply EXCEPT ![t].cookie = s]
    BY <1>7 DEF Issue
  <2>2. /\ s \in Sids /\ session'[t] = NoSession /\ reply'[t].flash = reply[t].flash
        /\ pc[t] = "issue" /\ pc'[t] = "deliver"
    BY <1>0, <1>7, <2>1 DEF Issue, Leave, FreshSids, Replies
  <2>3. \A r \in Sids \ {s} :
          store[r].flash # None => store[r].flash \notin {session[t].data.flash, reply[t].flash}
    BY <1>0, <1>1, <2>2 DEF CopiedFrom, TakenOut, Rotated
  <2> QED BY <1>2, <2>1, <2>2, <2>3, WriteKeepsFlash
<1> QED BY <1>3, <1>4, <1>5, <1>6, <1>7 DEF Save

\* The other steps of the tab.
LEMMA TabKeepsFlash ==
  ASSUME OneTab, IInv, FlashOK, NEW t \in Tabs,
         Send(t) \/ Read(t) \/ Follow(t) \/ Show(t) \/ Lose(t)
  PROVE  FlashOK'
<1>0. /\ session \in [Tabs -> SessionObjects] /\ reply \in [Tabs -> Replies]
      /\ store \in [Sids -> Data] /\ pc \in [Tabs -> Labels] /\ shown \in [Messages -> 0..2]
      /\ sid[t] \in Sids \cup {None}
      /\ reply[t].flash \in Messages \cup {None}
      /\ None \notin Messages /\ None \notin Sids /\ NoSession.data.flash = None
      /\ Empty.flash = None /\ Json.flash = None /\ \A o \in Tabs : o = t
  BY ConstantsAssumption
  DEF OneTab, IInv, TypeOK, SessionObjects, Data, Replies, NoSession, Empty, Json
<1>1. CopiedFrom(t) /\ TakenOut(t) /\ InOneSession /\ OnItsWayOnce BY DEF FlashOK
<1>2. CASE Send(t)
  <2>1. UNCHANGED <<store, session, reply, shown>> /\ pc[t] = "idle" /\ pc'[t] = "read"
    BY <1>0, <1>2 DEF Send, server, Idle
  <2>2. reply[t].flash # None => \A s \in Sids : store'[s].flash # reply[t].flash
    BY <1>1, <2>1 DEF TakenOut
  <2> QED BY <1>0, <2>1, <2>2, DropKeepsFlash DEF Rotated
<1>3. CASE Read(t)
  <2>1. /\ UNCHANGED <<store, reply, shown>> /\ pc[t] = "read" /\ pc'[t] = "handle"
        /\ sid'[t] \in Sids \cup {None}
        /\ session'[t].sid = sid'[t]
        /\ session'[t].data = IF sid'[t] = None THEN Empty ELSE store[sid'[t]]
    <3>1. sid'[t] \in Sids \cup {None} BY <1>3 DEF Read, IInv, TypeOK
    <3> QED BY <1>0, <1>3, <3>1 DEF Read, server, history, NoSession
  <2>2. InOneSession' BY <1>1, <2>1 DEF InOneSession
  <2>3. CopiedFrom(t)' BY <1>0, <1>1, <2>1 DEF InOneSession, CopiedFrom
  <2>4. TakenOut(t)' BY <1>0, <1>1, <2>1 DEF TakenOut
  <2>5. \A m \in Messages : Held(m)' => Held(m) BY <1>0, <2>1 DEF Held
  <2> QED BY <1>0, <1>1, <2>1, <2>2, <2>3, <2>4, <2>5, ShownKept DEF FlashOK, Rotated
<1>4. CASE Follow(t)
  <2>1. UNCHANGED <<store, session, shown>> /\ reply'[t].flash = None /\ pc'[t] = "read"
    BY <1>0, <1>4 DEF Follow, server, history
  <2> QED BY <1>0, <2>1, DropKeepsFlash DEF Rotated
<1>5. CASE Lose(t)
  <2>1. /\ UNCHANGED <<store, shown>> /\ session'[t].data.flash = None
        /\ reply'[t].flash = None /\ pc'[t] = "idle"
    BY <1>0, <1>5 DEF Lose, Finish, server
  <2> QED BY <1>0, <2>1, DropKeepsFlash DEF Rotated
<1>6. CASE Show(t)
  <2>1. /\ UNCHANGED <<store, session>> /\ reply'[t].flash = None
        /\ pc[t] = "deliver" /\ pc'[t] = "idle"
    BY <1>0, <1>6 DEF Show, Finish, server
  <2>2. CASE reply[t].flash = None
    <3>1. UNCHANGED shown BY <1>6, <2>2 DEF Show
    <3> QED BY <1>0, <2>1, <3>1, DropKeepsFlash DEF Rotated
  <2>3. CASE reply[t].flash # None
    <3>0. PICK m \in Messages : m = reply[t].flash BY <1>0, <2>3
    <3>1. Held(m) BY <3>0 DEF Held
    <3>2. shown[m] = 0 BY <1>1, <3>1 DEF OnItsWayOnce
    <3>3. shown' = [shown EXCEPT ![m] = IF @ = 2 THEN 2 ELSE @ + 1] BY <1>6, <2>3, <3>0 DEF Show
    <3>4. shown'[m] = 1 /\ \A o \in Messages \ {m} : shown'[o] = shown[o]
      BY <1>0, <3>1, <3>2, <3>3
    <3>5. ~ Held(m)' BY <1>0, <1>1, <2>1, <2>3, <3>0 DEF TakenOut, Held
    <3>6. \A o \in Messages : Held(o)' => Held(o) BY <1>0, <2>1 DEF Held
    <3>7. OnItsWayOnce' BY <1>1, <3>4, <3>5, <3>6 DEF OnItsWayOnce
    <3>8. InOneSession' /\ CopiedFrom(t)' /\ TakenOut(t)' /\ Rotated(t)'
      BY <1>1, <2>1 DEF InOneSession, CopiedFrom, TakenOut, Rotated
    <3> QED BY <1>0, <3>7, <3>8 DEF FlashOK
  <2> QED BY <2>2, <2>3
<1> QED BY <1>2, <1>3, <1>4, <1>5, <1>6

LEMMA NextFlash == OneTab /\ IInv /\ FlashOK /\ [Next]_vars => FlashOK'
<1> SUFFICES ASSUME OneTab, IInv, FlashOK, [Next]_vars PROVE FlashOK' OBVIOUS
<1>1. ASSUME NEW t \in Tabs, Send(t) \/ Step(t) \/ Lose(t) PROVE FlashOK'
  BY <1>1, HandleKeepsFlash, SaveKeepsFlash, TabKeepsFlash DEF Step
<1>2. ASSUME NEW s \in Sids, SessionExpires(s) PROVE FlashOK'
  <2>1. /\ UNCHANGED <<pc, session, reply, shown>>
        /\ \A r \in Sids : store'[r].flash \in {None, store[r].flash}
    BY <1>2 DEF SessionExpires, IInv, TypeOK, Empty
  <2>2. OnItsWayOnce'
    <3>1. \A m \in Messages : Held(m)' => Held(m)
      BY <2>1, ConstantsAssumption DEF Held
    <3> QED BY <2>1, <3>1, ShownKept DEF FlashOK
  <2> QED
    BY <2>1, <2>2 DEF FlashOK, InOneSession, CopiedFrom, TakenOut, Rotated
<1>3. ASSUME UNCHANGED <<store, pc, session, reply, shown>> PROVE FlashOK'
  BY <1>3 DEF FlashOK, OnItsWayOnce, Held, InOneSession, CopiedFrom, TakenOut, Rotated
<1> QED
  BY <1>1, <1>2, <1>3 DEF Next, CookieExpires, Toggle, vars, server, history

\* Where a browser has one tab a flash message is shown once, by whatever requests,
\* redirects and logins it travels, and whatever is lost or expires on the way.  (In two
\* tabs it is not: two requests that have read the same session both show it.)
THEOREM FlashesAreReadOnce ==
  ASSUME OneTab PROVE Spec => []FlashReadOnce
<1>1. Init => FlashOK
  <2>1. Empty.flash = None /\ NoSession.data.flash = None /\ Json.flash = None
    BY DEF Empty, NoSession, Json
  <2> QED
    BY <2>1
    DEF Init, FlashOK, OnItsWayOnce, Held, InOneSession, CopiedFrom, TakenOut, Rotated
<1>2. FlashOK => FlashReadOnce
  BY DEF FlashOK, OnItsWayOnce, FlashReadOnce
<1>3. IInv /\ FlashOK /\ [Next]_vars => FlashOK'
  BY OneTab, NextFlash
<1> QED BY <1>1, <1>2, <1>3, Invariant, PTL DEF Spec

================================================================================
