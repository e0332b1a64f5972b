\* Two vehicles and a location, created, changed, assigned and deleted.
SPECIFICATION Spec
CONSTANTS
  v1 = v1  v2 = v2  l1 = l1  l2 = l2  c1 = c1  c2 = c2
  w1 = w1  w2 = w2  r1 = r1  r2 = r2
  None = None
  Vehicles <- TwoVehicles
  Locations <- OneLocation
  Callsigns <- TwoCallsigns
  Values <- TwoValues
  Default = w1
  Requests <- TwoRequests
  Handlers <- RecordHandlers
SYMMETRY Symmetry
INVARIANTS
  TypeOK
  FleetConsistent
  AnswersWereTrue
PROPERTIES
  OnlyNamedColumns
  ImplementsBoard
