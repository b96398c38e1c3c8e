SPECIFICATION FairSpec
CONSTANTS
  c1 = c1
  c2 = c2
  Caller <- MCCaller
  NoCaller = NoCaller
CHECK_DEADLOCK FALSE
INVARIANTS
  TransitionAlone
  NoLoginDuringTransition
  DisposedForGood
PROPERTIES
  AcceptedOnce
  RequestsProceed
  TimedWaitsEnd
