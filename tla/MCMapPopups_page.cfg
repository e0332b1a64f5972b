\* Two vehicles, one station and one incident, two requests at a time.
SPECIFICATION FairSpec
CONSTANTS
  v1 = v1  v2 = v2  s1 = s1  i1 = i1  q1 = q1  q2 = q2
  None = None  Pending = Pending  Error = Error
  Vehicles <- TwoVehicles
  Stations <- OneStation
  Incidents <- OneIncident
  Changing <- OneIncident
  Slots <- TwoSlots
INVARIANTS
  TypeOK
  WatchFollowsCheckin
PROPERTIES
  OpenPopupSurvives
  PopupsCatchUp
  NearsCaughtUp
