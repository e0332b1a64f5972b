------------------------------- MODULE MCSessions -------------------------------
(* Small instances of Sessions for TLC.                                    *)
EXTENDS Sessions, TLC

CONSTANTS u1, t1, t2, s1, s2, s3, k1, k2, k3, m1

OneUser == {u1}
OneTab == {t1}
TwoTabs == {t1, t2}
ThreeSids == {s1, s2, s3}
ThreeTokens == {k1, k2, k3}
OneMessage == {m1}
NoMessage == {}
NoFaults == {}
Expiry == {"session_expires"}
TabKinds == AllKinds \ {"action"}
LoginKinds == {"login_page", "login", "logout", "page"}

Symmetry ==
  Permutations(Tabs) \cup Permutations(Sids) \cup Permutations(Tokens)
================================================================================
