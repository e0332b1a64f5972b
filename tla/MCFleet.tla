--------------------------------- MODULE MCFleet ---------------------------------
(* Small instances of Fleet for TLC.                                       *)
EXTENDS Fleet, TLC

CONSTANTS v1, v2, l1, l2, c1, c2, w1, w2, r1, r2

OneVehicle == {v1}
TwoVehicles == {v1, v2}
OneLocation == {l1}
TwoLocations == {l1, l2}
OneCallsign == {c1}
TwoCallsigns == {c1, c2}
TwoValues == {w1, w2}
TwoRequests == {r1, r2}
PlaceHandlers == {"create_vehicle", "update_location"} \cup Deletes
RecordHandlers == PlaceHandlers \cup {"update_vehicle", "update_status", "edit_location", "toggle"}

Symmetry == Permutations(Requests) \cup Permutations(Vehicles) \cup Permutations(Locations)
            \cup Permutations(Callsigns)
================================================================================
