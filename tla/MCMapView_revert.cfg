\* A status change that is refused.
SPECIFICATION Spec
CONSTANTS
  v1 = v1  p1 = p1  p2 = p2  q1 = q1  q2 = q2
  None = None  Pending = Pending  Error = Error
  Vehicles <- OneVehicle
  Statuses <- TwoStatuses
  Places <- TwoPlaces
  Slots <- TwoSlots
PROPERTY RevertedOnError
