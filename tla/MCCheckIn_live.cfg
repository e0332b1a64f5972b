\* Waiting for locks ends: the handlers that lock rows, on one vehicle.
SPECIFICATION FairSpec
CONSTANTS
  u1 = u1  u2 = u2  v1 = v1  v2 = v2  r1 = r1  r2 = r2
  None = None
  Users <- MCUsers
  Admins <- OneAdmin
  Vehicles <- OneVehicle
  Requests <- TwoRequests
  RowIds <- MCRowIds
  Handlers <- LockingHandlers
PROPERTIES
  EveryRequestAnswered
