\* A vehicle with two statuses and two places, two requests at a time.
SPECIFICATION FairSpec
CONSTANTS
  v1 = v1  p1 = p1  p2 = p2  q1 = q1  q2 = q2
  None = None  Pending = Pending  Error = Error
  Vehicles <- OneVehicle
  Statuses <- TwoStatuses
  Places <- TwoPlaces
  Slots <- TwoSlots
INVARIANTS
  TypeOK
  PageAgrees
PROPERTIES
  Converges
  NearsSync
