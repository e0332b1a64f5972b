\* Two of the requests at the same time, three accounts.
SPECIFICATION Spec
CONSTANTS
  x1 = x1  x2 = x2  x3 = x3  r1 = r1  r2 = r2
  None = None
  Ids <- ThreeIds
  Names <- TwoNames
  Passwords <- TwoNames
  Requests <- TwoRequests
SYMMETRY Symmetry
INVARIANTS
  TypeOK
  NamesAreUnique
PROPERTIES
  LastAdminStays
  OnlyNamedChanges
  AnswersAreTrue
  ImplementsRegister
