-------------------------------- MODULE Sessions -------------------------------
(***************************************************************************)
(* Server-side sessions: one browser with several tabs, the session         *)
(* middleware and its store (app/sessions.py), the CSRF check and load_user *)
(* (app/security.py), login and logout (app/routers/web.py), and what       *)
(* render and flash (app/templating.py) do to the session.                  *)
(*                                                                         *)
(* The store is read once before the handler and written at most once (or   *)
(* deleted from and written) after it; the handler works on a copy.  Each   *)
(* access to the store, and to the account table, is a step of its own:     *)
(* between two of them the requests of other tabs go on.  Responses are     *)
(* delivered in any order, and a redirect is followed with the cookie the   *)
(* browser holds by then.                                                   *)
(***************************************************************************)
EXTENDS Naturals, FiniteSets

CONSTANTS
  Users,     \* user names
  Tabs,      \* the tabs of the browser, a page's background polling included;
             \* each waits for one response at a time
  Sids,      \* session ids, CSRF tokens and flash messages.  The code never
  Tokens,    \* repeats one: here a value is used again only when nothing
  Messages,  \* refers to it any more, which nobody can notice
  Kinds,     \* the requests tabs make
  Faults,    \* what may go wrong around them
  None,
  Keep       \* a response without Set-Cookie

AllKinds == {"login_page", "login", "logout", "page", "action", "poll"}
AllFaults == {"request_lost", "session_expires", "cookie_expires"}

ASSUME ConstantsAssumption ==
  /\ Kinds \subseteq AllKinds
  /\ Faults \subseteq AllFaults
  /\ None \notin Users \cup Sids \cup Tokens \cup Messages \cup {Keep}
  /\ None \notin {"gone", "logged out"} \cup AllKinds
  /\ Keep \notin Sids

VARIABLES
  enabled,   \* user names of the accounts that exist and are enabled
  store,     \* SESSION:<sid> in Redis; no entry and the empty one are the same
  cookie,    \* the SESSION cookie of the browser
  page,      \* the CSRF token in the page each tab shows
  pc,        \* where the request of each tab is
  call,      \* what it asks for
  sid,       \* its cookie; after the read, the local variable sid of dispatch
  session,   \* its Session object
  reply,     \* its response
  ended,     \* history: how each session ended
  shown,     \* history: how often each message was shown
  alone,     \* history: no other request has run beside the current one
  current    \* history: the tab that shows the newest page, undisturbed since

server == <<enabled, store>>
browser == <<cookie, page>>
history == <<ended, shown, alone, current>>
vars == <<enabled, store, cookie, page, pc, call, sid, session, reply,
          ended, shown, alone, current>>

Data == [username : Users \cup {None}, csrf : Tokens \cup {None},
         flash : Messages \cup {None}]
Empty == [username |-> None, csrf |-> None, flash |-> None]

SessionObjects == [sid : Sids \cup {None}, data : Data, dirty : BOOLEAN]
NoSession == [sid |-> None, data |-> Empty, dirty |-> FALSE]

Calls == [kind : AllKinds, username : Users \cup {None}, token : Tokens \cup {None}]

\* A response shows a page (its CSRF token and flash message), redirects to
\* another request, or does neither (JSON); and it may set or delete the cookie.
Replies == [page : Tokens \cup {None}, flash : Messages \cup {None},
            to : AllKinds \cup {None}, cookie : Sids \cup {None, Keep}]
Json == [page |-> None, flash |-> None, to |-> None, cookie |-> Keep]
Redirect(kind) == [Json EXCEPT !.to = kind]

Labels == {"idle", "read", "handle", "save", "issue", "deliver"}

TypeOK ==
  /\ enabled \subseteq Users
  /\ store \in [Sids -> Data]
  /\ cookie \in Sids \cup {None}
  /\ page \in [Tabs -> Tokens \cup {None}]
  /\ pc \in [Tabs -> Labels]
  /\ call \in [Tabs -> Calls \cup {None}]
  /\ sid \in [Tabs -> Sids \cup {None}]
  /\ session \in [Tabs -> SessionObjects]
  /\ reply \in [Tabs -> Replies]
  /\ ended \in [Sids -> {None, "gone", "logged out"}]
  /\ shown \in [Messages -> 0..2]
  /\ alone \in BOOLEAN
  /\ current \in Tabs \cup {None}

Init ==
  /\ enabled = Users
  /\ store = [s \in Sids |-> Empty]
  /\ cookie = None
  /\ page = [t \in Tabs |-> None]
  /\ pc = [t \in Tabs |-> "idle"]
  /\ call = [t \in Tabs |-> None]
  /\ sid = [t \in Tabs |-> None]
  /\ session = [t \in Tabs |-> NoSession]
  /\ reply = [t \in Tabs |-> Json]
  /\ ended = [s \in Sids |-> None]
  /\ shown = [m \in Messages |-> 0]
  /\ alone = FALSE
  /\ current = None

Idle(t) == pc[t] = "idle"
Live == {s \in Sids : store[s] # Empty}

\* The values that secrets.token_urlsafe may return: nobody has them.
FreshSids ==
  {s \in Sids \ Live : /\ s # cookie
                       /\ \A t \in Tabs : s \notin {sid[t], session[t].sid, reply[t].cookie}}
FreshTokens ==
  {k \in Tokens : /\ \A s \in Sids : store[s].csrf # k
                  /\ \A t \in Tabs : k \notin {page[t], session[t].data.csrf, reply[t].page}
                  /\ \A t \in Tabs : call[t] # None => call[t].token # k}
FreshMessages ==
  {m \in Messages : /\ \A s \in Sids : store[s].flash # m
                    /\ \A t \in Tabs : m \notin {session[t].data.flash, reply[t].flash}}

--------------------------------------------------------------------------------
(* The Session object.                                                     *)

\* (variants) Set and Pop that do not mark the session dirty, Rotate forgotten.
SetClean(ses, key, value) == [ses EXCEPT !.data[key] = value]
PopClean(ses, key) == [ses EXCEPT !.data[key] = None]
RotateNot(ses) == ses

Set(ses, key, value) ==
  IF ses.data[key] = value THEN ses
  ELSE [ses EXCEPT !.data[key] = value, !.dirty = TRUE]

Pop(ses, key) == Set(ses, key, None)

Clear(ses) ==
  IF ses.data = Empty THEN ses ELSE [ses EXCEPT !.data = Empty, !.dirty = TRUE]

Rotate(ses) == [ses EXCEPT !.sid = None, !.dirty = TRUE]

--------------------------------------------------------------------------------
(* The browser sends a request.                                            *)

\* Forms, and the scripts of a page, carry the token of the page they are on.
Send(t) ==
  /\ Idle(t)
  /\ \E kind \in Kinds :
       /\ kind \in {"login_page", "page"} \/ page[t] # None
       /\ \E u \in IF kind = "login" THEN Users ELSE {None} :
            call' = [call EXCEPT ![t] =
              [kind |-> kind, username |-> u,
               token |-> IF kind \in {"login", "logout", "action"} THEN page[t] ELSE None]]
  /\ pc' = [pc EXCEPT ![t] = "read"]
  /\ sid' = [sid EXCEPT ![t] = cookie]
  /\ alone' = \A o \in Tabs \ {t} : Idle(o)
  /\ current' = IF alone' /\ current = t THEN t ELSE None
  /\ UNCHANGED <<server, browser, session, reply, ended, shown>>

--------------------------------------------------------------------------------
(* SessionMiddleware.dispatch before call_next.                            *)

\* (variant) A session id the store does not know is kept.
ReadTrusting(t) ==
  /\ pc[t] = "read"
  /\ session' = [session EXCEPT ![t] =
       [NoSession EXCEPT !.sid = sid[t],
                         !.data = IF sid[t] = None THEN Empty ELSE store[sid[t]]]]
  /\ pc' = [pc EXCEPT ![t] = "handle"]
  /\ UNCHANGED <<server, browser, call, sid, reply, history>>

Read(t) ==
  /\ pc[t] = "read"
  /\ sid' = [sid EXCEPT ![t] = IF sid[t] \in Live THEN sid[t] ELSE None]
  /\ session' = [session EXCEPT ![t] =
       [NoSession EXCEPT !.sid = sid'[t],
                         !.data = IF sid'[t] = None THEN Empty ELSE store[sid'[t]]]]
  /\ pc' = [pc EXCEPT ![t] = "handle"]
  /\ UNCHANGED <<server, browser, call, reply, history>>

--------------------------------------------------------------------------------
(* The handlers: what each does to its Session object, and its response.    *)

Handling(t, kind) == pc[t] = "handle" /\ call[t].kind = kind

Respond(t, ses, rep) ==
  /\ session' = [session EXCEPT ![t] = ses]
  /\ reply' = [reply EXCEPT ![t] = rep]
  /\ pc' = [pc EXCEPT ![t] = "save"]
  /\ call' = [call EXCEPT ![t].username = None, ![t].token = None]
  /\ UNCHANGED <<server, browser, sid, ended, alone, current>>

\* CsrfMiddleware: an unsafe request must carry the token of its session.
CsrfPasses(t) ==
  \/ call[t].kind \in {"login_page", "page", "poll"}
  \/ session[t].data.csrf # None /\ call[t].token = session[t].data.csrf

CsrfReject(t) ==
  /\ pc[t] = "handle"
  /\ ~ CsrfPasses(t)
  /\ Respond(t, session[t], Json)
  /\ UNCHANGED shown

\* render: csrf_token makes a token for a session that has none, and the flash
\* messages are popped (flash_message and flash_error are one key here).
Render(t) ==
  /\ \E k \in IF session[t].data.csrf = None THEN FreshTokens ELSE {session[t].data.csrf} :
       Respond(t, Pop(Set(session[t], "csrf", k), "flash"),
               [Json EXCEPT !.page = k, !.flash = session[t].data.flash])
  /\ UNCHANGED shown

LoginPage(t) ==
  /\ Handling(t, "login_page")
  /\ \/ session[t].data.username = None /\ Render(t)
     \/ /\ session[t].data.username # None
        /\ Respond(t, session[t], Redirect("page"))
        /\ UNCHANGED shown

\* An unknown or disabled account, or the wrong password.
LoginRefused(t) ==
  /\ Handling(t, "login")
  /\ CsrfPasses(t)
  /\ Respond(t, session[t], Redirect("login_page"))
  /\ UNCHANGED shown

Login(t) ==
  /\ Handling(t, "login")
  /\ CsrfPasses(t)
  /\ call[t].username \in enabled
  /\ Respond(t, Set(Rotate(Clear(session[t])), "username", call[t].username),
             Redirect("page"))
  /\ UNCHANGED shown

\* (variant) The data itself is dropped instead of emptied.
LogoutWithoutData(t) ==
  /\ Handling(t, "logout")
  /\ CsrfPasses(t)
  /\ Respond(t, [session[t] EXCEPT !.data = None], Redirect("login_page"))
  /\ UNCHANGED shown

Logout(t) ==
  /\ Handling(t, "logout")
  /\ CsrfPasses(t)
  /\ Respond(t, Clear(session[t]), Redirect("login_page"))
  /\ UNCHANGED shown

\* load_user finds no enabled account for the session.
Unknown(t) ==
  /\ pc[t] = "handle"
  /\ call[t].kind \in {"page", "action", "poll"}
  /\ CsrfPasses(t)
  /\ session[t].data.username \notin enabled

\* (variant) load_user leaves the session of a disabled account as it is.
NotAuthenticatedKept(t) ==
  /\ Unknown(t)
  /\ Respond(t, session[t], IF call[t].kind = "poll" THEN Json ELSE Redirect("login_page"))
  /\ UNCHANGED shown

NotAuthenticated(t) ==
  /\ Unknown(t)
  /\ Respond(t, IF session[t].data.username = None THEN session[t] ELSE Clear(session[t]),
             IF call[t].kind = "poll" THEN Json ELSE Redirect("login_page"))
  /\ UNCHANGED shown

Authenticated(t) == CsrfPasses(t) /\ session[t].data.username \in enabled

\* The map or an admin page.
Page(t) == Handling(t, "page") /\ Authenticated(t) /\ Render(t)

\* A form of an admin page: flash a message, and back to the page.
Action(t) ==
  /\ Handling(t, "action")
  /\ Authenticated(t)
  /\ \E m \in FreshMessages :
       /\ Respond(t, Set(session[t], "flash", m), Redirect("page"))
       /\ shown' = [shown EXCEPT ![m] = 0]

\* The background requests of a page; and whatever ends in a 403, 404 or 400.
Poll(t) ==
  /\ pc[t] = "handle"
  /\ call[t].kind \in {"poll", "page", "action"}
  /\ Authenticated(t)
  /\ Respond(t, session[t], Json)
  /\ UNCHANGED shown

--------------------------------------------------------------------------------
(* SessionMiddleware.dispatch after call_next.                              *)

\* Another request is inside the session s: it has read it and not saved it.
Inside(s, t) == \E o \in Tabs \ {t} : session[o].sid = s

\* The session s ends in a step of t.
End(s, t) ==
  ended' = [ended EXCEPT ![s] = IF ~ Inside(s, t) THEN "gone"
                                ELSE IF call[t].kind = "logout" THEN "logged out"
                                ELSE None]

\* The response is on its way.
Leave(t) ==
  /\ pc' = [pc EXCEPT ![t] = "deliver"]
  /\ session' = [session EXCEPT ![t] = NoSession]

Saving(t) == pc[t] = "save" /\ UNCHANGED <<enabled, browser, call, sid, shown, alone, current>>

\* (variant) The session before the login is left in the store.
SaveRotatedKeepingOld(t) ==
  /\ Saving(t)
  /\ session[t].sid = None /\ session[t].data # Empty
  /\ pc' = [pc EXCEPT ![t] = "issue"]
  /\ UNCHANGED <<store, session, reply, ended>>

\* New or rotated: the old session goes first ...
SaveRotated(t) ==
  /\ Saving(t)
  /\ session[t].sid = None /\ session[t].data # Empty
  /\ \/ /\ sid[t] # None
        /\ store' = [store EXCEPT ![sid[t]] = Empty]
        /\ End(sid[t], t)
     \/ sid[t] = None /\ UNCHANGED <<store, ended>>
  /\ pc' = [pc EXCEPT ![t] = "issue"]
  /\ UNCHANGED <<session, reply>>

\* ... and the new one is written and its cookie set.
Issue(t) ==
  /\ pc[t] = "issue"
  /\ \E s \in FreshSids :
       /\ store' = [store EXCEPT ![s] = session[t].data]
       /\ reply' = [reply EXCEPT ![t].cookie = s]
       /\ ended' = [ended EXCEPT ![s] = None]
  /\ Leave(t)
  /\ UNCHANGED <<enabled, browser, call, sid, shown, alone, current>>

SaveCleared(t) ==
  /\ Saving(t)
  /\ session[t].sid # None /\ session[t].data = Empty
  /\ store' = [store EXCEPT ![session[t].sid] = Empty]
  /\ End(session[t].sid, t)
  /\ reply' = [reply EXCEPT ![t].cookie = None]
  /\ Leave(t)

SaveDirty(t) ==
  /\ Saving(t)
  /\ session[t].sid # None /\ session[t].data # Empty /\ session[t].dirty
  /\ store' = [store EXCEPT ![session[t].sid] = session[t].data]
  /\ Leave(t)
  /\ UNCHANGED <<reply, ended>>

SaveNothing(t) ==
  /\ Saving(t)
  /\ IF session[t].sid = None THEN session[t].data = Empty
     ELSE session[t].data # Empty /\ ~ session[t].dirty
  /\ Leave(t)
  /\ UNCHANGED <<store, reply, ended>>

--------------------------------------------------------------------------------
(* The browser receives a response, in any order.                          *)

Finish(t) ==
  /\ call' = [call EXCEPT ![t] = None]
  /\ sid' = [sid EXCEPT ![t] = None]
  /\ pc' = [pc EXCEPT ![t] = "idle"]
  /\ reply' = [reply EXCEPT ![t] = Json]

\* The cookie the browser holds once it has the response of t.
CookieAfter(t) == IF reply[t].cookie = Keep THEN cookie ELSE reply[t].cookie

SetCookie(t) == cookie' = CookieAfter(t)

\* A redirect is a new request of the same tab.
Follow(t) ==
  /\ pc[t] = "deliver"
  /\ reply[t].to # None
  /\ SetCookie(t)
  /\ call' = [call EXCEPT ![t] = [kind |-> reply[t].to, username |-> None, token |-> None]]
  /\ sid' = [sid EXCEPT ![t] = cookie']
  /\ pc' = [pc EXCEPT ![t] = "read"]
  /\ reply' = [reply EXCEPT ![t] = Json]
  /\ UNCHANGED <<server, page, session, history>>

\* The answer to a background request leaves the page as it is.
Show(t) ==
  /\ pc[t] = "deliver"
  /\ reply[t].to = None
  /\ SetCookie(t)
  /\ page' = IF call[t].kind = "poll" THEN page ELSE [page EXCEPT ![t] = reply[t].page]
  /\ shown' = IF reply[t].flash = None THEN shown
              ELSE [shown EXCEPT ![reply[t].flash] = IF @ = 2 THEN 2 ELSE @ + 1]
  /\ current' = IF reply[t].page # None /\ alone THEN t
                ELSE IF reply[t].cookie = None THEN None
                ELSE current
  /\ Finish(t)
  /\ UNCHANGED <<server, session, ended, alone>>

--------------------------------------------------------------------------------
(* The environment.                                                        *)

Disturb == alone' = FALSE /\ current' = None

\* The bound on sessions that no cookie names and only their ttl ends: another one
\* may be left over while there are ids for what comes next.
RoomForLeftOver == Cardinality(FreshSids) >= 2

\* A request or its response is lost, or its handler fails: nothing more of it is
\* saved.
Lose(t) ==
  /\ "request_lost" \in Faults
  /\ RoomForLeftOver
  /\ ~ Idle(t)
  /\ session' = [session EXCEPT ![t] = NoSession]
  /\ Finish(t)
  /\ Disturb
  /\ UNCHANGED <<server, browser, ended, shown>>

\* The ttl of the entry in Redis, which only a write renews ...
SessionExpires(s) ==
  /\ "session_expires" \in Faults
  /\ s \in Live
  /\ store' = [store EXCEPT ![s] = Empty]
  /\ ended' = [ended EXCEPT ![s] =
       IF \E t \in Tabs : session[t].sid = s THEN None ELSE "gone"]
  /\ Disturb
  /\ UNCHANGED <<enabled, browser, pc, call, sid, session, reply, shown>>

\* ... and the max_age of the cookie, which nothing renews.
CookieExpires ==
  /\ "cookie_expires" \in Faults
  /\ RoomForLeftOver
  /\ cookie # None
  /\ cookie' = None
  /\ Disturb
  /\ UNCHANGED <<server, page, pc, call, sid, session, reply, ended, shown>>

\* An admin disables or deletes an account, or enables it (again).
Toggle(u) ==
  /\ enabled' = IF u \in enabled THEN enabled \ {u} ELSE enabled \cup {u}
  /\ UNCHANGED <<store, browser, pc, call, sid, session, reply, history>>

--------------------------------------------------------------------------------
Handle(t) ==
  \/ CsrfReject(t) \/ LoginPage(t) \/ LoginRefused(t) \/ Login(t) \/ Logout(t)
  \/ NotAuthenticated(t) \/ Page(t) \/ Action(t) \/ Poll(t)

Save(t) ==
  SaveRotated(t) \/ Issue(t) \/ SaveCleared(t) \/ SaveDirty(t) \/ SaveNothing(t)

Step(t) == Read(t) \/ Handle(t) \/ Save(t) \/ Follow(t) \/ Show(t)

Next ==
  \/ \E t \in Tabs : Send(t) \/ Step(t) \/ Lose(t)
  \/ \E s \in Sids : SessionExpires(s)
  \/ CookieExpires
  \/ \E u \in Users : Toggle(u)

Spec == Init /\ [][Next]_vars

\* The server works on every request it has, and the browser on every response.
FairSpec == Spec /\ \A t \in Tabs : WF_vars(Step(t))

--------------------------------------------------------------------------------
(* Properties.                                                             *)

\* A session id stands for one user: the entry in the store and the copies that
\* requests still write agree on the user name, in whatever order they are saved.
SidNamesOneUser ==
  \A t \in Tabs : session[t].sid # None /\ session[t].data # Empty =>
    /\ session[t].sid \in Live =>
         session[t].data.username = store[session[t].sid].username
    /\ \A o \in Tabs : session[o].sid = session[t].sid /\ session[o].data # Empty =>
         session[t].data.username = session[o].data.username

\* No login turns an id that somebody may know already into a session of its user
\* (the fixation defence of rotate): a live session keeps its user name.
SidKeepsItsUser ==
  [][\A s \in Live \cap Live' : store'[s].username = store[s].username]_vars

\* A session that ended, by login, logout, a disabled account or its ttl, while no
\* other request was inside it never comes back: an id the store does not know is
\* not taken over from the client.
GoneForGood == \A s \in Sids : ended[s] = "gone" => store[s] = Empty

\* When a login that ran by itself is answered, the id from before it is dead.
LoginRetiresOldSid ==
  \A t \in Tabs :
    pc[t] = "deliver" /\ call[t].kind = "login" /\ alone /\ sid[t] # None
      /\ reply[t].cookie \in Sids => store[sid[t]] = Empty

\* A page that a request running by itself has fetched can be posted: until
\* another request or an expiry comes in between, its token is the token of the
\* session the cookie names.  Whatever happened before, one page load is enough.
NewestPageCanPost ==
  (\A t \in Tabs : Idle(t)) /\ current # None /\ page[current] # None =>
    cookie \in Live /\ store[cookie].csrf = page[current]

\* A page that sends the browser to the login page has logged it out, when no other
\* request runs: the cookie it leaves names a session of nobody, or none, so that the
\* login page is shown and does not send it back, even if the account was disabled
\* between the two, or the session was gone.
RedirectsEnd ==
  \A t \in Tabs :
    /\ pc[t] = "deliver" /\ alone
    /\ reply[t].to = "login_page" /\ call[t].kind # "login"
    /\ CookieAfter(t) # None
    => store[CookieAfter(t)].username = None

\* templating.py:47: flash messages have a "read-once behaviour".
FlashReadOnce == \A m \in Messages : shown[m] <= 1

\* sessions.py:5 keeps the sessions in Redis because one that is in the cookie
\* "can't be invalidated server-side": a logged-out session is invalid.
LogoutInvalidates == \A s \in Sids : ended[s] = "logged out" => store[s] = Empty

\* Every navigation ends in a page or an error: / and /login do not redirect to
\* each other for ever.
EveryNavigationEnds == \A t \in Tabs : pc[t] = "read" ~> Idle(t)
================================================================================
