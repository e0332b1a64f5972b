\* One tab, every request and every fault.
SPECIFICATION FairSpec
CONSTANTS
  u1 = u1  t1 = t1  t2 = t2  s1 = s1  s2 = s2  s3 = s3
  k1 = k1  k2 = k2  k3 = k3  m1 = m1
  None = None  Keep = Keep
  Users <- OneUser
  Tabs <- OneTab
  Sids <- ThreeSids
  Tokens <- ThreeTokens
  Messages <- OneMessage
  Kinds <- AllKinds
  Faults <- AllFaults
INVARIANTS
  FlashReadOnce
PROPERTY EveryNavigationEnds
