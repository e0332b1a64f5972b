------------------------------ MODULE LocationForm ------------------------------
(***************************************************************************)
(* The form of a station or an incident (app/static/js/location-form.js):   *)
(* a marker to drag, a map to click, and a search for an address that the   *)
(* server hands on to Nominatim (app/routers/misc.py).  What the form       *)
(* submits is the hidden fields.                                           *)
(*                                                                         *)
(* A search only disables its button: Enter in the address field starts     *)
(* another one beside it, and marker and address can be changed meanwhile.  *)
(* Answers arrive in any order; each callback is one step.                  *)
(***************************************************************************)
CONSTANTS
  Places,    \* coordinates, to the six decimals that setPosition writes; as a
             \* text, the display name Nominatim has for them
  Addresses, \* other texts to search for
  Blank,     \* the empty text
  Slots,     \* searches in flight at one time (a bound)
  None,
  Pending    \* no answer yet

\* What Nominatim may do, besides finding a place, and what the proxy makes of it.
\* A session that has ended is a 401 before that.
Upstream == {"nothing", "garbage", "rate_limit", "failure", "timeout", "unreachable", "logged_out"}
Status(u) ==
  CASE u \in {"nothing", "garbage"} -> 404
    [] u = "rate_limit" -> 429
    [] u = "timeout" -> 504
    [] u = "logged_out" -> 401
    [] OTHER -> 500
Refusals == {Status(u) : u \in Upstream}

\* The messages of the form, by what they are about.
Messages == {"no_address", "not_found", "too_many", "failed"}

ASSUME ConstantsAssumption ==
  /\ Places \cap (Refusals \cup {None, Pending}) = {}
  /\ {None, Pending} \cap Refusals = {}
  /\ None # Pending
  /\ Blank \notin Places \cup Addresses

VARIABLES
  marker,    \* where it is
  dragging,  \* the user has hold of it
  fields,    \* createLat and createLng
  address,   \* the text of the address field
  error,     \* the message shown
  disabled,  \* the button reads "Suche..." and does not react
  search,    \* the searches in flight
  latest,    \* history: the last answer, since the last search was started
  untouched  \* history: no other search was in flight then, and since then nobody
             \* has moved the marker or typed

vars == <<marker, dragging, fields, address, error, disabled, search, latest, untouched>>

Texts == Places \cup Addresses
Answers == Places \cup Refusals

TypeOK ==
  /\ marker \in Places
  /\ dragging \in BOOLEAN
  /\ fields \in Places
  /\ address \in Texts \cup {Blank}
  /\ error \in Messages \cup {None}
  /\ disabled \in BOOLEAN
  /\ search \in [Slots -> Answers \cup {Pending, None}]
  /\ latest \in Answers \cup {None}
  /\ untouched \in BOOLEAN

Searching == \E s \in Slots : search[s] # None

Init ==
  /\ marker \in Places
  /\ dragging = FALSE
  /\ fields = marker
  /\ address = Blank
  /\ error = None
  /\ disabled = FALSE
  /\ search = [s \in Slots |-> None]
  /\ latest = None
  /\ untouched = FALSE

--------------------------------------------------------------------------------
(* The user.                                                               *)

\* (variant) The fields keep what they had.
SetMarker(p) == marker' = p /\ UNCHANGED fields

SetPosition(p) == marker' = p /\ fields' = p

Drag(p) ==
  /\ p # marker
  /\ marker' = p
  /\ dragging' = TRUE
  /\ untouched' = FALSE
  /\ UNCHANGED <<fields, address, error, disabled, search, latest>>

DragEnd ==
  /\ dragging
  /\ dragging' = FALSE
  /\ SetPosition(marker)
  /\ untouched' = FALSE
  /\ UNCHANGED <<address, error, disabled, search, latest>>

Click(p) ==
  /\ ~ dragging
  /\ SetPosition(p)
  /\ untouched' = FALSE
  /\ UNCHANGED <<dragging, address, error, disabled, search, latest>>

Type(text) ==
  /\ text # address
  /\ address' = text
  /\ untouched' = FALSE
  /\ UNCHANGED <<marker, dragging, fields, error, disabled, search, latest>>

SearchNothing ==
  /\ address = Blank
  /\ error' = "no_address"
  /\ untouched' = FALSE
  /\ UNCHANGED <<marker, dragging, fields, address, disabled, search, latest>>

\* (variant) An old message stays.
KeepError == UNCHANGED error

HideError == error' = None

\* By the button, when it is not disabled, or by Enter.
Search(s) ==
  /\ address # Blank
  /\ search[s] = None
  /\ HideError
  /\ disabled' = TRUE
  /\ search' = [search EXCEPT ![s] = Pending]
  /\ latest' = None
  /\ untouched' = ~ Searching
  /\ UNCHANGED <<marker, dragging, fields, address>>

--------------------------------------------------------------------------------
(* The answers.                                                            *)

\* geocode_address.
Answer(s) ==
  /\ search[s] = Pending
  /\ \E a \in Answers :
       /\ search' = [search EXCEPT ![s] = a]
       /\ latest' = a
  /\ UNCHANGED <<marker, dragging, fields, address, error, disabled, untouched>>

\* (variant) Whatever the status, the body is taken for a place.
AlwaysOk(a) == a \in Answers

Ok(a) == a \in Places

Ended(s) == search' = [search EXCEPT ![s] = None] /\ disabled' = FALSE

Found(s) ==
  /\ search[s] # None /\ Ok(search[s])
  /\ SetPosition(search[s])
  /\ address' = search[s]
  /\ Ended(s)
  /\ UNCHANGED <<dragging, error, latest, untouched>>

MessageFor(a) == CASE a = 404 -> "not_found" [] a = 429 -> "too_many" [] OTHER -> "failed"

\* (variant) Only a search that has found something ends the loading.
NotFoundLoading(s) ==
  /\ search[s] \in Refusals
  /\ error' = MessageFor(search[s])
  /\ search' = [search EXCEPT ![s] = None]
  /\ UNCHANGED <<marker, dragging, fields, address, disabled, latest, untouched>>

NotFound(s) ==
  /\ search[s] \in Refusals
  /\ error' = MessageFor(search[s])
  /\ Ended(s)
  /\ UNCHANGED <<marker, dragging, fields, address, latest, untouched>>

\* Request or answer are lost.
Lost(s) ==
  /\ search[s] # None
  /\ error' = "failed"
  /\ Ended(s)
  /\ latest' = Status("unreachable")
  /\ UNCHANGED <<marker, dragging, fields, address, untouched>>

--------------------------------------------------------------------------------
Progress(s) == Answer(s) \/ Found(s) \/ NotFound(s)

Next ==
  \/ \E p \in Places : Drag(p) \/ Click(p)
  \/ DragEnd
  \/ \E text \in Texts \cup {Blank} : Type(text)
  \/ SearchNothing
  \/ \E s \in Slots : Search(s) \/ Progress(s) \/ Lost(s)

Spec == Init /\ [][Next]_vars

\* The server answers: its request to Nominatim has a timeout.
FairSpec == Spec /\ \A s \in Slots : WF_vars(Progress(s))

--------------------------------------------------------------------------------
(* Properties.                                                             *)

\* Whatever is clicked, dragged, searched and answered in whatever order, the form
\* submits the place its marker is at, unless the user still has hold of it.
SubmitsWhatItShows == fields = marker \/ dragging

\* When one search is over that nothing has come between, the form shows how it
\* ended: marker, fields and address of the place and no message of an older search,
\* or the reason why there is none.
ShowsLatest ==
  ~ Searching /\ untouched =>
    IF latest \in Places
    THEN marker = latest /\ fields = latest /\ address = latest /\ error = None
    ELSE error = MessageFor(latest)

\* The button never stays disabled: each way a search can end enables it again.
ButtonComesBack == disabled ~> ~ disabled
================================================================================
