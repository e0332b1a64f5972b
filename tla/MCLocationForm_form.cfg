\* Three places to find, and three searches at a time.
SPECIFICATION FairSpec
CONSTANTS
  p1 = p1  p2 = p2  p3 = p3  a1 = a1  q1 = q1  q2 = q2  q3 = q3
  None = None  Pending = Pending  Blank = Blank
  Places <- ThreePlaces
  Addresses <- OneAddress
  Slots <- ThreeSlots
INVARIANTS
  TypeOK
  SubmitsWhatItShows
  ShowsLatest
PROPERTY ButtonComesBack
