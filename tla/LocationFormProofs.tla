--------------------------- MODULE LocationFormProofs ---------------------------
(***************************************************************************)
(* Proofs about LocationForm, for any places and texts and any number of    *)
(* searches at the same time.  OnlySearch says what ShowsLatest rests on    *)
(* while the search is still going on: that nothing has come between it and *)
(* its answer.                                                             *)
(***************************************************************************)
EXTENDS LocationForm, TLAPS

OnlySearch ==
  untouched => \A s \in Slots : search[s] # None =>
    /\ \A t \in Slots : search[t] # None => t = s
    /\ error = None
    /\ search[s] # Pending => latest = search[s]

IInv == TypeOK /\ SubmitsWhatItShows /\ OnlySearch /\ ShowsLatest

\* A status is one of five numbers, and has a message.
LEMMA StatusesAreRefusals ==
  /\ \A u \in Upstream : Status(u) \in Refusals
  /\ \A a : MessageFor(a) \in Messages
BY DEF Refusals, MessageFor, Messages

\* What the user does to marker and text, and a search for nothing.
LEMMA UserStep ==
  ASSUME IInv,
         (\E p \in Places : Drag(p) \/ Click(p)) \/ DragEnd
           \/ (\E text \in Texts \cup {Blank} : Type(text)) \/ SearchNothing
  PROVE  IInv'
<1> USE DEF IInv, TypeOK, SubmitsWhatItShows, OnlySearch, ShowsLatest
<1>1. ASSUME NEW p \in Places, Drag(p) PROVE IInv'
  BY <1>1 DEF Drag
<1>2. ASSUME NEW p \in Places, Click(p) PROVE IInv'
  BY <1>2 DEF Click, SetPosition
<1>3. CASE DragEnd
  BY <1>3 DEF DragEnd, SetPosition
<1>4. ASSUME NEW text \in Texts \cup {Blank}, Type(text) PROVE IInv'
  BY <1>4 DEF Type
<1>5. CASE SearchNothing
  BY <1>5 DEF SearchNothing, Messages
<1> QED
  BY <1>1, <1>2, <1>3, <1>4, <1>5

\* A search begins.
LEMMA SearchStep ==
  ASSUME IInv, NEW s \in Slots, Search(s)
  PROVE  IInv'
<1> USE DEF IInv, TypeOK
<1>1. TypeOK' /\ SubmitsWhatItShows'
  BY DEF Search, HideError, SubmitsWhatItShows, Searching
<1>2. OnlySearch'
  BY DEF Search, HideError, Searching, OnlySearch
<1>3. Searching'
  BY ConstantsAssumption DEF Search, Searching
<1> QED
  BY <1>1, <1>2, <1>3 DEF ShowsLatest

\* It is answered.
LEMMA AnswerStep ==
  ASSUME IInv, NEW s \in Slots, Answer(s)
  PROVE  IInv'
<1> USE DEF IInv, TypeOK
<1>1. TypeOK' /\ SubmitsWhatItShows'
  BY DEF Answer, SubmitsWhatItShows
<1>2. search[s] # None /\ search'[s] # None
  BY ConstantsAssumption DEF Answer, Answers
<1>3. OnlySearch'
  BY <1>2 DEF Answer, OnlySearch
<1> QED
  BY <1>1, <1>2, <1>3 DEF ShowsLatest, Searching

\* It ends: nothing else is in flight if nothing has come between.
LEMMA EndStep ==
  ASSUME IInv, NEW s \in Slots, Found(s) \/ NotFound(s) \/ Lost(s)
  PROVE  IInv'
<1> USE DEF IInv, TypeOK
<1>0. search[s] # None /\ search' = [search EXCEPT ![s] = None]
  BY ConstantsAssumption DEF Found, NotFound, Lost, Ended
<1>1. untouched' = untouched /\ (untouched => \A t \in Slots : search'[t] = None)
  BY <1>0 DEF Found, NotFound, Lost, OnlySearch
<1>2. OnlySearch'
  BY <1>1 DEF OnlySearch
<1>3. CASE Found(s)
  <2>1. TypeOK' /\ SubmitsWhatItShows'
    BY <1>3 DEF Found, Ok, SetPosition, Ended, Texts, SubmitsWhatItShows
  <2>2. untouched => error = None /\ latest = search[s]
    BY <1>0, <1>3, ConstantsAssumption DEF Found, Ok, OnlySearch
  <2>3. ShowsLatest'
    BY <1>1, <1>3, <2>2 DEF ShowsLatest, Found, Ok, SetPosition
  <2> QED
    BY <1>2, <2>1, <2>3
<1>4. CASE NotFound(s)
  <2>1. TypeOK' /\ SubmitsWhatItShows'
    BY <1>4, StatusesAreRefusals DEF NotFound, Ended, SubmitsWhatItShows
  <2>2. untouched => latest = search[s]
    BY <1>0, <1>4, ConstantsAssumption DEF NotFound, OnlySearch
  <2>3. ShowsLatest'
    BY <1>1, <1>4, <2>2, ConstantsAssumption DEF ShowsLatest, NotFound
  <2> QED
    BY <1>2, <2>1, <2>3
<1>5. CASE Lost(s)
  <2>0. Status("unreachable") = 500 /\ Status("unreachable") \in Refusals
    <3>1. Status("unreachable") = 500
      BY DEF Status
    <3>2. Status("unreachable") \in Refusals
      BY DEF Refusals, Upstream
    <3> QED
      BY <3>1, <3>2
  <2>1. TypeOK' /\ SubmitsWhatItShows'
    BY <1>5, <2>0 DEF Lost, Ended, SubmitsWhatItShows, Messages, Answers
  <2>2. MessageFor(500) = "failed"
    BY DEF MessageFor
  <2>3. ShowsLatest'
    BY <1>1, <1>5, <2>0, <2>2, ConstantsAssumption DEF ShowsLatest, Lost
  <2> QED
    BY <1>2, <2>1, <2>3
<1> QED
  BY <1>3, <1>4, <1>5

\* The invariant of the form, by induction over its steps.
THEOREM Invariance == Spec => []IInv
<1>1. Init => IInv
  BY DEF Init, IInv, TypeOK, SubmitsWhatItShows, OnlySearch, ShowsLatest
<1>2. IInv /\ [Next]_vars => IInv'
  <2>1. CASE Next
    BY <2>1, UserStep, SearchStep, AnswerStep, EndStep DEF Next, Progress
  <2>2. CASE UNCHANGED vars
    BY <2>2 DEF vars, IInv, TypeOK, SubmitsWhatItShows, OnlySearch, ShowsLatest, Searching
  <2> QED
    BY <2>1, <2>2
<1> QED
  BY <1>1, <1>2, PTL DEF Spec

\* Marker, fields, texts and searches keep their types.
THEOREM TypeCorrect == Spec => []TypeOK
<1>1. IInv => TypeOK
  BY DEF IInv
<1> QED
  BY <1>1, Invariance, PTL

\* The form submits the place its marker is at.
THEOREM FieldsFollowMarker == Spec => []SubmitsWhatItShows
<1>1. IInv => SubmitsWhatItShows
  BY DEF IInv
<1> QED
  BY <1>1, Invariance, PTL

\* The outcome of a search that nothing has come between is what the form shows.
THEOREM LatestIsShown == Spec => []ShowsLatest
<1>1. IInv => ShowsLatest
  BY DEF IInv
<1> QED
  BY <1>1, Invariance, PTL

\* The button waits for a search: whatever ends the last one, in whatever order they
\* end, leaves it enabled.
DisabledWhileSearching == disabled => Searching

\* While the button is disabled a search is in flight, whatever ends the others: when
\* the last one is over the form can be used again.
THEOREM ButtonWaitsForSearch == Spec => []DisabledWhileSearching
<1>1. Init => DisabledWhileSearching
  BY DEF Init, DisabledWhileSearching
<1>2. TypeOK /\ DisabledWhileSearching /\ [Next]_vars => DisabledWhileSearching'
  <2> SUFFICES ASSUME TypeOK, DisabledWhileSearching, [Next]_vars
               PROVE  DisabledWhileSearching'
    OBVIOUS
  <2> USE DEF TypeOK, DisabledWhileSearching, Searching
  <2>1. ASSUME NEW s \in Slots, Search(s) PROVE DisabledWhileSearching'
    <3>1. search'[s] # None
      BY <2>1, ConstantsAssumption DEF Search
    <3> QED
      BY <3>1
  <2>2. ASSUME NEW s \in Slots, Answer(s) PROVE DisabledWhileSearching'
    <3>1. search'[s] # None /\ \A o \in Slots \ {s} : search'[o] = search[o]
      BY <2>2, ConstantsAssumption DEF Answer, Answers
    <3> QED
      BY <3>1, <2>2 DEF Answer
  <2>3. ASSUME NEW s \in Slots, Found(s) \/ NotFound(s) \/ Lost(s)
        PROVE  DisabledWhileSearching'
    BY <2>3 DEF Found, NotFound, Lost, Ended
  <2>4. ASSUME UNCHANGED <<disabled, search>> PROVE DisabledWhileSearching'
    BY <2>4
  <2> QED
    BY <2>1, <2>2, <2>3, <2>4
    DEF Next, Progress, Drag, Click, DragEnd, Type, SearchNothing, vars
<1> QED
  BY <1>1, <1>2, TypeCorrect, PTL DEF Spec
================================================================================
