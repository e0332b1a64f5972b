------------------------------ MODULE MCCheckIn --------------------------------
(* Small instances of CheckIn for TLC.                                     *)
EXTENDS CheckIn, Naturals, TLC

CONSTANTS u1, u2, v1, v2, r1, r2

\* Two crew members or an admin and a crew member, two vehicles.
MCUsers == {u1, u2}
MCVehicles == {v1, v2}
OneVehicle == {v1}
OneAdmin == {u1}
MCRowIds == 1..3
TwoRequests == {r1, r2}

LockingHandlers == {"check_in", "check_out", "delete_vehicle"}

\* Requests are interchangeable, and so are vehicles.
Symmetry == Permutations(Requests) \cup Permutations(Vehicles)
================================================================================
