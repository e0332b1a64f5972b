-------------------------------- MODULE MCMapView --------------------------------
(* Small instances of MapView for TLC.                                     *)
EXTENDS MapView, TLC

CONSTANTS v1, p1, p2, q1, q2

OneVehicle == {v1}
TwoStatuses == {1, 2}
TwoPlaces == {p1, p2}
TwoSlots == {q1, q2}
================================================================================
