------------------------------- MODULE MCMapPopups -------------------------------
(* Small instances of MapPopups for TLC.                                   *)
EXTENDS MapPopups, TLC

CONSTANTS v1, v2, s1, i1, q1, q2

TwoVehicles == {v1, v2}
OneStation == {s1}
OneIncident == {i1}
TwoSlots == {q1, q2}
================================================================================
