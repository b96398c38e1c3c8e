SPECIFICATION FairSpec
CONSTANTS
  m1 = m1
  m2 = m2
  l1 = l1
  l2 = l2
  None = None
  Manager <- MCManager
  Lease <- MCLease
  MaxInstalls = 3
  MaxForeign = 1
CHECK_DEADLOCK FALSE
INVARIANTS
  NeverDirect
  HostServed
  OwnersLeave
PROPERTIES
  ShutdownEnds
