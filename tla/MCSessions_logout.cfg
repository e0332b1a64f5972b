\* A logout and another tab.
SPECIFICATION Spec
CONSTANTS
  u1 = u1  t1 = t1  t2 = t2  s1 = s1  s2 = s2  s3 = s3
  k1 = k1  k2 = k2  k3 = k3  m1 = m1
  None = None  Keep = Keep
  Users <- OneUser
  Tabs <- TwoTabs
  Sids <- ThreeSids
  Tokens <- ThreeTokens
  Messages <- NoMessage
  Kinds <- LoginKinds
  Faults <- NoFaults
SYMMETRY Symmetry
INVARIANT LogoutInvalidates
