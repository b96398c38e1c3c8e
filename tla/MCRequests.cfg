SPECIFICATION RequestSpec
CONSTANTS
  m1 = m1
  m2 = m2
  m3 = m3
  s1 = s1
  run = run
  other = other
  Attempt <- MCAttempt
  Lane = {"model", "search"}
  LaneOf <- MCLaneOf
  Scope = {run, other}
  ScopeOf <- MCScopeOf
  MaxConcurrent = 2
  MaxDelay = 2
  n1 = n1
  n2 = n2
  Native <- MCNative
  Trusted <- MCTrusted
  NoRoute = NoRoute
  Proxy = Proxy
  Idle = 2
  Budget = 3
  MaxFetch = 2
CHECK_DEADLOCK FALSE
INVARIANTS
  SlotsAccounted
  DeadHoldNothing
  WithinHostTimeout
  TimeoutIsFinal
PROPERTIES
  NoOvertaking
  EveryAttemptSettles
  RetryAfterHonoured
  ReadsEnd
