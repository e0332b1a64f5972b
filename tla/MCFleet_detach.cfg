\* A vehicle that leaves a location while that is deleted.
SPECIFICATION Spec
CONSTANTS
  v1 = v1  v2 = v2  l1 = l1  l2 = l2  c1 = c1  c2 = c2
  w1 = w1  w2 = w2  r1 = r1  r2 = r2
  None = None
  Vehicles <- OneVehicle
  Locations <- TwoLocations
  Callsigns <- OneCallsign
  Values <- TwoValues
  Default = w1
  Requests <- TwoRequests
  Handlers <- PlaceHandlers
SYMMETRY Symmetry
PROPERTY DetachedWereThere
