----------------------------- MODULE MCLocationForm -----------------------------
(* A small instance of LocationForm for TLC.                               *)
EXTENDS LocationForm, TLC

CONSTANTS p1, p2, p3, a1, q1, q2, q3

ThreePlaces == {p1, p2, p3}
OneAddress == {a1}
ThreeSlots == {q1, q2, q3}
================================================================================
