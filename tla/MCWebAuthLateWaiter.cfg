SPECIFICATION FairSpec
CONSTANTS
  c1 = c1
  c2 = c2
  Caller <- MCCaller
  NoCaller = NoCaller
CHECK_DEADLOCK FALSE
PROPERTIES
  EveryWaitEnds
