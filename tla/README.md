# FF Trainingskarte: TLA+ models and proofs

TLA+ specifications of the fire brigade training map in this repository: a FastAPI
application (`app/`) over PostgreSQL and Redis, and the browser client
(`app/static/js/`). Every definition is translated from the source; `PROJECT.json`
names, for each definition, the file and the lines.

## 1. Inventory of the system

| Component | State | Operations | Talks to |
|---|---|---|---|
| Crew check-in (`routers/misc.py`, `routers/vehicles.py`, `routers/admin/vehicles_users.py`) | tables `vehicle`, `vehicle_checkin`, `app_user`; row locks of open transactions | `check_in`, `check_out`, `my_checkin`, `patch_position`, `delete_vehicle` (API and admin page), `delete_user` | PostgreSQL |
| Sessions (`sessions.py`, `security.py`, `templating.py`, `routers/web.py`) | Redis keys `SESSION:<sid>`, the cookie of each browser, the `Session` object of each request | middleware read and write, login, logout, `csrf_token`, `CsrfMiddleware`, `load_user`, `render`, `flash` | Redis, `app_user` |
| Vehicle and location records, assignment (`routers/vehicles.py`, `routers/locations.py`, `routers/admin/`) | tables `vehicle` (with `location_id`) and `location` | create, update, status, position, assign, send on the road, delete; incident active flag | PostgreSQL |
| Accounts (`routers/admin/vehicles_users.py`, `cli.py`, `seed.py`) | `app_user` | create, toggle, delete on the page; create and set password on the command line; the seed of a development start | PostgreSQL |
| Map client (`static/js/map.js`) | `allVehicles`, the sidebar, markers and popups, `currentCheckinVehicleId`, the geolocation watch, the requests in flight | poll, change status, drag, assign, check in and out, report the position | the API |
| Location form and geocoding (`static/js/location-form.js`, `routers/misc.py:76`) | marker, form fields, address, message, the button, the searches in flight | drag, click, type, search; the Nominatim proxy | Nominatim |
| Configuration, templates, deployment | none that changes | | |

What makes the behaviour hard:

* A handler awaits the database several times in one READ COMMITTED transaction.
  Other requests run and commit at each await; what was read before may be stale.
* PostgreSQL takes part: unique indexes, foreign keys and row locks decide who waits,
  who fails with an `IntegrityError` (nobody handles it: a 500) and who is the victim
  of a deadlock. SQLAlchemy adds that a DELETE of a row that is gone only warns, while
  an UPDATE of one raises `StaleDataError`.
* A request reads its session when it starts and writes it when it ends: the last
  writer of concurrent requests wins, over a Redis key that may be gone by then.
* The client polls every ten seconds and changes its copy before the server answers;
  answers of several requests arrive in any order, or never. It keeps the status of a
  vehicle in three places and the check-in in four, and a body that is an error stops
  the code that draws them half-way.

The hazards, each at its line, are listed in `PROJECT.json` under `hazards`, with the
properties that cover them, or a note why none does.

Components that are not modelled: configuration, health and version are read once or
have no state; templates, styles, manifests and images have no behaviour; the tests
are read as statements about the code.

For each component, what makes it correct:

* **Check-in**: one check-in per user name and none on a deleted vehicle; an answer
  tells what was true at some moment of the request; nobody loses a check-in to a
  request that named somebody or something else; every request is answered.
* **Sessions**: an id never changes its user; an ended session stays ended; after any
  disturbance one page load is enough to post again; a flash message is shown once;
  redirects end.
* **Records and assignment**: call signs are unique and no vehicle is at a location
  that is gone; a handler changes only the columns it is about; an answered change was
  there.
* **Accounts**: names are unique; somebody can still administer the system; a change
  leaves alone what it is not about; answers are true when they are given.
* **Map client**: the page does not contradict itself; what the user sees converges to
  what the server has; positions are sent for one vehicle at most, the one the user is
  on; polls leave the popups alone that people look at.
* **Location form**: the form submits the place its marker shows, the outcome of a
  search is shown, and the form is never left waiting.

## 2. Plan

| Order | Module | Composes or refines | State |
|---|---|---|---|
| 1 | `CheckIn` | implements the abstract `CheckInRegister` | modelled, checked, proved |
| 2 | `Sessions` | one module for browser, middleware, handlers and store | modelled, checked, proved |
| 3 | `Fleet` | every other handler on `vehicle` and `location`; implements the abstract `AssignmentBoard` | modelled, checked, proved |
| 4 | `MapView` | the vehicles of `map.js` against a server that is what it lists | modelled, checked, proved |
| 5 | `MapPopups` | popups, locations and the check-in of `map.js`; the server's side is one step of `CheckInRegister` | modelled, checked, proved |
| 6 | `Accounts` | the page of users, the command line, the seed; implements the abstract `AccountRegister` | modelled, checked, proved |
| 7 | `LocationForm` | `location-form.js` and the geocoding proxy | modelled, checked, proved |

Modules that are proved about declare no `RECURSIVE` operator, name their assumptions
on constants, and have one action per statement of a handler or callback of a page.

## 3. How the code becomes actions

A handler is a sequence of awaits, and another request may run at each of them. In the
modules of the server (`CheckIn`, `Sessions`, `Fleet`, `Accounts`) a request has a
program counter (`pc[r]`, for sessions `pc[t]` for the tab that waits for it), and one
action is the code from one await to the next, with the statement the database runs for
it. The last statement of a transaction and its COMMIT
are one step, since nobody can see anything in between. What the request holds
meanwhile is state of the request (`loaded`, `deleted`, `copy`, `session`), which is
where stale data comes from.

A page runs one callback at a time, so that in the modules of the browser (`MapView`,
`MapPopups`, `LocationForm`) a callback is one action. A request in flight is a record
in a slot: it is sent, it is answered or not, and the callback that gets the answer
takes it out, at any later moment and in any order. What the server does with it is one
action too, at a moment of its own, whatever else the server does in between.

The tables, the Redis store and the browser have the values others can see. Locks of
open transactions follow from the state of the requests that hold them.

**What a failure is.** `outcome` tells the kinds of answers apart: `ok`, `missing`
(404), `refused` (403 or a flash), `invalid` (400), and the 500s nobody handles:
`conflict` (a constraint), `stale` (a row that is gone when it is updated or
refreshed), `deadlock`. `End` may end a request at any statement: its connection or the
process is gone and the transaction is rolled back.

### CheckIn

| Code | Actions |
|---|---|
| `check_in` | `LoadVehicle`, `CheckInSelect`, `CheckInDelete` (the flush), `CheckInInsert` (unique index), `CheckInCommit` (foreign key) |
| `check_out` | `CheckOutSelect`, `CheckOutCommit` |
| `patch_position` | `PatchSelect`, `PatchOutOfBounds`, `LoadVehicle`, `MoveVehicle`, `RefreshVehicle` |
| `delete_vehicle`, API and admin page | `LoadVehicle`, `SelectRows`, `DeleteRows`, `DropVehicle`, `CheckReferences` |
| `delete_user` | `LoadAccount`, `SelectRows`, `DeleteRows`, `DropAccount` |
| PostgreSQL | `Blockers` (who waits for whom), `Deadlock` |
| other pages | `CreateVehicle`, `CreateUser` |

The bulk DELETE of a deletion is two steps: its snapshot (`SelectRows`) and the locks on
the rows found (`DeleteRows`, which skips rows that are gone by then). `my_checkin`
only reads. `CheckInRegister` is what the tables promise: a user is on one vehicle of
the fleet or on none, and each change is one atomic step; it is implemented with `crew`
computed from the committed rows.

### Sessions

| Code | Actions |
|---|---|
| a link, a form, a script's request | `Send`, `Follow`, `Show` |
| `SessionMiddleware.dispatch` | `Read` before the handler; `SaveRotated` and `Issue`, `SaveCleared`, `SaveDirty` or `SaveNothing` after it |
| `Session` | `Set`, `Pop`, `Clear`, `Rotate` |
| `CsrfMiddleware` | `CsrfPasses`, `CsrfReject` |
| `login_page`, `do_login`, `do_logout`, `map_page` | `LoginPage`, `LoginRefused`, `Login`, `Logout`, `Page` |
| `load_user`, `require_user` and the exception handlers | `Unknown`, `NotAuthenticated`, `Poll` |
| a form that flashes and redirects | `Action` |
| the world | `Lose`, `SessionExpires`, `CookieExpires`, `Toggle` |

Success and error flashes are one key; the role, the password hash and the `Secure`
attribute are left out. An empty session and no session are the same for the code, and
here. A tab waits for one response at a time; several tabs share the cookie.

### Fleet

| Code | Actions |
|---|---|
| `_get_vehicle`, `_get_station`, `_get_incident`, `db.get` | `Load` |
| `_assert_callsign_free` and its copies on the admin pages | `CheckCallsign` |
| the lookup in `update_location` | `CheckLocation` |
| the UPDATE of the unit of work and the commit | `Update`, `OutOfBounds` |
| `db.refresh` | `Refresh` |
| `create_vehicle` | `CheckCallsign`, `Insert`, `Refresh` |
| `delete_station`, `delete_incident` | `Load`, `SelectVehicles`, `SelectAssigned` (admin pages), `Detach`, `Delete` |
| handlers of one statement | `CreateLocation`, `DeleteVehicle` |

All updates share one path: SQLAlchemy writes the attributes that differ from what was
loaded, whatever the row holds by then. `ColumnSets` says which handler sets which
columns. Columns that behave alike are one: `status` stands for `type` too, `position`
for both coordinates, `name` for a location's other columns; `updated_at` only matters
because it makes an UPDATE where nothing else changed (`Writes`). The vehicles of a
location are loaded with it (`lazy="selectin"`), and SQLAlchemy sets their foreign key
to NULL when the location is deleted, the ones the loop of the handler misses too. The
UPDATEs of `Detach` are one step: the unit of work sorts them by primary key, so that
two deletions cannot wait for each other.

`AssignmentBoard` is what the tables promise their readers: the locations there are, and
a card for each vehicle with its call sign and its place. A vehicle is commissioned,
retired, renamed or assigned, a location is opened or closed, each in one atomic step.
Only `Close` allows more than one would wish: a deletion may send on the road a vehicle
that has been at the location and has left it since (section 4, `fleet_detach`), and a
second deletion, for a location that is gone by then, may do so too.

### Accounts

| Code | Actions |
|---|---|
| `load_user`, `require_admin` | `Begin`: a click is made by an enabled admin, and only then |
| `toggle_user`, `delete_user` | `LoadUser` (the lookup and the check of one's own name), `Toggle`, `DeleteUser` |
| `create_user` of the page and of the command line | `Find`, `CreateUser` |
| `set_password` | `Find`, `SetPassword` |
| `seed_dev_data` | `Look` for the admin, the viewer and the vehicles, then `Seed` |
| other handlers | `OthersChangeVehicles` |

A password stands for its hash. The admin who clicks is known by row and by name, since
the handler compares names and the session only has the name. Every request may be lost
before its only write, which changes nothing and is the same as not being asked.
`AccountRegister` is what the other components know of accounts: a set without keys in
which a name stands for one account at most, and each step creates, removes or changes
one thing of one account, or adds the accounts a start finds missing.

### MapView and MapPopups

The page `map.js` in two modules: they share the poll, and nothing else in one depends on
the other. `MapView` has the vehicles, `MapPopups` the locations, the popups and the
check-in.

| Code | Actions of `MapView` |
|---|---|
| `fetchData` and its timer | `FetchData`, `PollFails` |
| the three lists of the API | `AnswerPoll`, `AnswerError` (a session that has ended: the body is an object) |
| `updateMap`, `updateSidebar` | `UpdateMap`, `UpdateMapThrows` |
| `changeStatus` | `ChangeStatus`, `StatusAnswered`, `StatusRefused`, `StatusLost` |
| `dragstart`, `dragend`, `updateVehiclePosition` | `Drag`, `DragAnswered`, `DragFails` |
| `update_status`, `patch_position` | `Execute` |
| everybody else | `OthersChange` |

| Code | Actions of `MapPopups` |
|---|---|
| `getMyCheckin`, `my_checkin` | `MyCheckin`, `AnswerMe` |
| `createVehiclePopupContent` | `offered`, the check-in the popups were written with, and `PressCheckin` |
| `checkinVehicle`, `checkoutVehicle` | `PressCheckin`, `CheckedIn`, `CheckedOut`, `CheckinRefused`, `CheckinLost` |
| `check_in`, `check_out` | `Execute` |
| `startLocationWatchForVehicle`, `stopLocationWatch` | `watches`, which is a set because a watch that is not stopped goes on |
| `updateMap` | `UpdateMap`, `Removed` |
| `openPopup`, a click on the map | `OpenPopup` |
| other pages and admins | `OthersChangeCrew`, `OthersChangeLocations` |

A poll makes three requests; the three lists are taken at one moment of the server,
but the session may end between them (`places`, `broken`). A drag is one step, so that no
poll is drawn while the user holds the marker; `refresh` belongs to the change before it;
a marker that was removed and is drawn again is the same for a drag that is in flight.
The browser has geolocation. A position that is reported changes nothing on the page but
through a poll and is covered on the server's side by `CheckIn`; the throttle only
drops reports.

### LocationForm

| Code | Actions |
|---|---|
| the marker and the map | `Drag`, `DragEnd`, `Click`; both, and a result, end in `SetPosition` |
| `search` | `SearchNothing`, `Search`, `Found`, `NotFound`, `Lost` |
| `geocode_address` and Nominatim | `Answer`, which is a place or one of the statuses `Status` has for what may go wrong `Upstream` |

A place stands for its coordinates, to the six decimals the form keeps, and for the
display name Nominatim has for it. The payload is a place or none (`parse_nominatim`).

## 4. What is checked

| Run | Question | Instance |
|---|---|---|
| `checkin_all` | do any two of the five handlers keep the store consistent, answer truthfully, fail only in races, lose no check-in to a request that named another vehicle, and implement the register? | 2 users, one an admin, 2 vehicles, 2 requests, 3 row ids |
| `checkin_live` | is every request answered, lock waits and deadlocks included? | 1 vehicle, the three handlers that lock |
| `sessions_tabs` | two tabs, expiring sessions, an account that is disabled: ids keep their user, ended sessions stay ended, one page load repairs everything, a redirect to the login page ends there | 1 user, 2 tabs, 3 ids, 3 tokens |
| `sessions_one_tab` | every kind of request and every fault, one at a time: read-once flashes, redirects end | 1 tab |
| `sessions_logout` | a comment that does not hold, see below | 2 tabs |
| `fleet_records` | does any overlap of two handlers keep call signs unique and vehicles at locations that exist, leave the columns of others alone, is every answered change real, and do the handlers implement the board? | 2 vehicles, 1 location, 2 call signs, 2 values |
| `fleet_detach` | a comment that does not hold | 1 vehicle, 2 locations |
| `map_view` | do markers, sidebar and `allVehicles` agree, does the page converge to what the server has, whatever is answered, refused or lost in whatever order, and which steps bring it nearer? | 1 vehicle, 2 statuses, 2 places, 2 requests in flight |
| `map_revert` | a comment that does not hold | the same |
| `map_popups` | is one vehicle watched at most, and the right one; do popups survive polls and catch up with the check-in, and which steps bring them nearer? | 2 vehicles, 1 station, 1 incident that comes and goes, 2 requests in flight |
| `accounts` | do any two clicks, commands and starts keep names unique, the last admin, and each other's changes, answer truthfully, and implement the register of names? | 3 accounts, 2 names, 2 passwords, 2 requests |
| `form` | does the form submit what it shows, show how a search ended, and get its button back? | 3 places, 1 other text, 3 searches in flight |

**Why these bounds.** The code interacts in pairs: one transaction meets one other at a
row, an index entry or a session entry. Two requests at a time, each ending and
starting again any number of times, cover what two can do to each other; the proofs of
section 5 hold for any number. Two users are needed for an admin beside a crew member;
a second vehicle for changing vehicles, a second location for a reassignment during a
deletion. Primary keys, session ids and tokens are never repeated by the code; the
models use one again when nothing refers to it any more, so that three are enough for
what may be in flight: the one stored, and one for each request (`RowIds`, `Sids`,
`Tokens`). `fleet_records` leaves out the handlers whose path and columns are like those
of one it has (`edit_vehicle`, `set_position`, `set_active`); the proofs cover them.
`RoomForLeftOver` bounds the sessions that no cookie names: a further one is left behind only while two ids are free. `shown` counts to two, which is
"more than once". Two values per column tell "mine" from "theirs". On the page the
vehicles do not affect each other, so that `MapView` has one; two requests in flight are
needed for answers that overtake each other (`Slots`), and two vehicles for a check-in
that moves. `Changing` bounds the locations that come and go to the incident, whose
marker `updateMap` treats in a way of its own. The seed needs its two names; three keys
are enough for both accounts and one that is created meanwhile.

**Symmetry.** Requests, vehicles, locations, call signs, tabs, ids and tokens are
interchangeable and are permuted in `checkin_all`, `sessions_tabs`, `fleet_records` and
`accounts`; the runs with liveness properties use none.

**Fairness.** `checkin_live` assumes strong fairness of a request's statements: a
waiting statement is enabled again and again as locks come and go, and PostgreSQL grants
locks in the order of its queue, so that it is not overtaken for ever. Deadlocks are
looked for after `deadlock_timeout` (weak fairness of `Deadlock`). Nothing makes a
client go away (`End`). `sessions_one_tab` assumes weak fairness of a tab's request
only: no step there waits for another one. On the map page, `map_view` and `map_popups`
assume that requests are answered (`Progress`) and that the timer goes on (`FetchData`),
each weakly; a request that fails, a change by the user or by somebody else is never
fair, and `Converges` and `PopupsCatchUp` speak of what happens once they stop. In `form`
a search is answered because the proxy gives its request to Nominatim ten seconds, and
what it makes of a timeout is an answer as well; `Lost` is not fair.

**Every property is seen to fail.** For each property of each passing run a mutated
definition, such as a `rotate` that keeps the id or an UPDATE of the whole row, violates
it. The mutated forms are the operators marked `(variant)` in the modules; nothing
else uses them.

### Where comments and code disagree

* `sessions.py:4`, the reason for server-side sessions is that they can be invalidated:
  a request that was inside the session during the logout, and changed it, writes it
  back (`sessions_logout`).
* `admin/locations.py:29`, vehicles "at a deleted location": a vehicle reassigned after
  it was read loses its new location too (`fleet_detach`).
* `map.js:237`, "Revert on error": `allVehicles`, where the old status is looked up, was
  overwritten by the optimistic update; the marker shows the refused status until the
  next poll is drawn (`map_revert`). `Converges` shows that it does not stay.

Things the models show that no line of the code denies, and that have no run of their
own: a check-in committed between the two DELETEs of `delete_vehicle` makes the second
one fail on the foreign key (a 500, `CheckReferences`); a position may be written for
somebody who has left the vehicle since `patch_position` looked (`PatchSelect`,
`MoveVehicle`), where the witness of `AnswersWereTrue` only asks that they were on it;
two tabs that load a page together both show a flash message, while one tab never does
(`FlashReadOnce`); two admins who disable each other at the same time leave nobody,
which `LastAdminStays` names as the only way; a "Check Out" button that is out of date
makes the page forget its check-in, the watch included, while the user stays checked in
(`PressCheckin`, `CheckedOut`); the popup of an incident closes at each poll (`Removed`);
of two searches of the location form the one answered last wins, whichever was started
last.

## 5. What is proved

The theorems hold for every value of the constants that satisfies
`ConstantsAssumption` (any number of requests, users, vehicles, tabs, ids, searches)
and, where a row or a request is told from none, `NoneAssumption` or `ValuesAssumption`
(`None` is no row, no request, no value and no outcome; an error body is no list); `tlapm` checks
them. No module states an assumption on anything but the values of its constants.

**CheckInProofs.** `StoreConsistent` is not inductive. That the row `CheckInCommit`
adds is the only one of its user was checked at an earlier step, when the INSERT passed
the unique index; since then only the locks of this and other transactions have kept it
true. `IInv` therefore adds: what each label says about its request (`Labelled`), that
a request reads and deletes only what its call names (`Claimed`), that a deleted row
still exists and belongs to one open transaction (`LocksExclusive`), and that a request
past the index has the user name to itself (`NameReserved`). One lemma per kind of step
(a read, a deletion, a rollback, the insert, the commit) is used by all the actions of
that kind. From `IInv` follow

* `TypeCorrect` and `StoreStaysConsistent`;
* `RemovalsAreNamed`: a check-in disappears only in the commit of a request that named
  it (`OnlyNamedRemovals`);
* `Refinement`: `Spec => ImplementsRegister`. `CheckInCommit` is `Board`,
  `CheckOutCommit` and the deletion of a user's rows are `Leave`, `CheckReferences` is
  `Scrap`, everything else stutters.

What the answers say (`AnswersAreTrue`, `OnlyRacesFail`) needs a second invariant on top
of `IInv`. `Told` says that a request has seen the tables as they are now, and that what
it has read or deleted is all that concerns it unless another request has changed those
rows (`Current`). A constraint that fails, or a check-in that is still there after the
answer, then convicts another request; and a position is moved only after its user was
seen on the vehicle.

**SessionsProofs.** `SidNamesOneUser` (the entry and all copies in flight agree on the
user) is inductive together with `ReadLive`, that a handler with an id starts from data
that is not empty: otherwise it could put a token into an empty copy that names nobody.
What a handler may do to its copy is stated once (`Derived`): no id, or no data, or id
and user unchanged. `SessionsKeepTheirUser` follows: saving a copy cannot change the
user of a live id, and `Issue` takes an id nobody has. `SessionsStayGone` follows from
`GoneIsGone`, that no request holds the id of a session that is gone, so that none can
write it again: a request takes ids from the store only. `LoginsRetireOldSids` and
`NewestPagesCanPost` are about a request that runs alone. `Own` says what it relies on at
each label: its copy is that of the session the cookie names, the token of its page is
that of the session it leaves behind, and the id it had before is dead once it is given
another. `Polling` says that a background request leaves the newest page as good as it
was, or takes the cookie away. `RedirectsToLoginEnd` is the safety half of
`EveryNavigationEnds`: a page that sends a browser with no other request running to the
login page leaves it a cookie whose session is nobody's, so that the login page does not
send it back (`Ends`). `FlashesAreReadOnce` assumes one tab, as two can load a page
together and both show its message. A message then is in one session, in the copy that
was read from it, or in the page that is on its way, and a page has it only once the
copy that was dirtied has lost it (`FlashOK`); a request that is lost before its save
loses the page as well, so that the message is not shown twice.

**FleetProofs.** `FleetConsistent` says that a call sign names one vehicle and that no
vehicle is at a location that is gone. The `Delete` that removes a location writes the
vehicles it locked at an earlier statement, so `IInv` adds that they still exist and
were found by this request (`LocksHold`); an INSERT must not meet a row of its key
(`KeysReserved`); and `Labelled` says which handlers a label belongs to, so that only
deletions remove a row there. `Step` states once what a step of any request has to show,
`WriteRow` and `DeleteTables` what a written or removed row leaves of the tables, and
the lemmas of the actions follow from these. `ColumnsAreNamed` (`OnlyNamedColumns`)
needs `LocksHold` again: a row that changes without an UPDATE of its own is one its
deletion has found. `AnswersAreTrue` needs `Told`: a column the handler does not write
held the value when the row was loaded, one it writes when it was committed; and
`GoneStaysGone`: the key of a deleted location is not given again while a request knows it.
`Refinement`: `Spec => ImplementsBoard`. A change of one vehicle is a change of one card,
because the call sign tells its card from all others (`OneCard`, from
`FleetConsistent`); an `Update` sets the call sign or the place and never both, so that it
is `Rename`, `Assign` or a stutter; `Delete` is `Close` for the vehicles it has locked,
among which are all that are at the location.

**AccountsProofs.** That a name is unique when it is created rests on the index alone;
what makes the rest hold is what a request remembers between its two statements. `IInv`
adds what each label says about its request, above all that a click which has passed the
check is not aimed at the admin who makes it (`Prepared`), and that a key a request holds
on to still has the name it was looked up by (`StillNamed`), which rests on names that
never change and on keys that are not given again while a request knows them
(`KeysKeepNames`). From these follow `LastAdminIsKept`, `ChangesStayNamed` and
`AnswersStayTrue`. `Refinement`: `Spec => ImplementsRegister`. The register has no keys:
that a change of one row changes one account of the set rests on `NamesAreUnique`, that
a creation is allowed on the index, and that the accounts of a start are added all at once
on what `Look` has found missing and the index has not refused.

**LocationFormProofs.** `SubmitsWhatItShows` and `ShowsLatest` are inductive with two more
facts about an undisturbed search: it is the only one in flight, and `latest` is its
answer once it has one. `ButtonWaitsForSearch` is the safety half of `ButtonComesBack`: a
disabled button has a search in flight (no run repeats it).

**MapViewProofs.** `PageAgrees` is inductive but for one step: `changeStatus` recolours a
marker and sends nothing when `allVehicles` is an error body. The last poll then was not
shown as a whole (`KnownWhenComplete`). That no marker is given the colour of no status
(`TypeCorrect`) needs `PageAgrees` in turn, at `StatusRefused`. `QuietPageNearsSync` is the
safety half of `Converges`. While nobody changes anything, no step adds to the changes
that are undecided, nor, if it decides none, to the requests that may still put
something out of date on the page; once there are none of these, the first poll that
is shown as a whole makes the page right, and no step makes it wrong again. What is left
to liveness is that answers and polls come at all.

**MapPopupsProofs.** `WatchFollowsCheckin` compares page and server while no request about
the check-in is in flight; `Undisturbed` says what holds while one is: there is no other,
and it accounts for the difference. `PopupsSurvive` follows from what `UpdateMap` removes.
`QuietPageNearsCaughtUp` is to `PopupsCatchUp` what `QuietPageNearsSync` is to `Converges`.

**Only model-checked.** Liveness (`EveryRequestAnswered`, `EveryNavigationEnds`,
`Converges`, `PopupsCatchUp`, `ButtonComesBack`), since it needs fairness and ENABLED. All
invariants and action properties of the passing runs are theorems, and so are the three
refinements.

## Not modelled

Configuration, health and version have no state that changes; templates, styles,
manifests and images no behaviour; the tests are read as statements about the code. Left
out of the components that are modelled: password hashing and the `Secure` attribute;
how the command line reads a password; the parsing of Nominatim's payload beyond "a
place or none"; the sorting and wording of lists and popups; collapsing the sidebar;
`setupLatLngMap`, whose element no template has; the dropdown of `assignSelectedVehicle`,
whose request only reaches the page through a poll; the throttle of reported positions.

## 6. Running

    tlc -workers 2 -config MCCheckIn_all.cfg MCCheckIn
    tlapm CheckInProofs.tla

The runs of a module are its `MC<module>_<name>.cfg`; `PROJECT.json` lists them with
their properties, the mutated definitions, the source lines of every definition, the
hazards and the theorems. The longest run, `fleet_records`, takes about three minutes on
two cores, `sessions_tabs` about two, `accounts` about one; the proofs of
all modules take some minutes.
