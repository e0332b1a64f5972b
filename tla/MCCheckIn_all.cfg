\* Every handler, and a second vehicle to change to.
SPECIFICATION Spec
CONSTANTS
  u1 = u1  u2 = u2  v1 = v1  v2 = v2  r1 = r1  r2 = r2
  None = None
  Users <- MCUsers
  Admins <- OneAdmin
  Vehicles <- MCVehicles
  Requests <- TwoRequests
  RowIds <- MCRowIds
  Handlers <- AllHandlers
SYMMETRY Symmetry
INVARIANTS
  TypeOK
  StoreConsistent
  AnswersWereTrue
  FailuresAreRaces
PROPERTIES
  OnlyNamedRemovals
  ImplementsRegister
