SPECIFICATION SpeedSpec
CONSTANTS
  s1 = s1
  s2 = s2
  c1 = c1
  c2 = c2
  c3 = c3
  r1 = r1
  a1 = a1
  NoAccount = NoAccount
  Session <- MCSession
  Client <- MCClient
  Request <- MCRequest
  Account <- MCAccount
  SessionOf <- MCSessionOf
  Starting <- MCStarting
  Limit = 1
  MaxMoves = 1
  MaxGeneration = 2
  MaxRevision = 2
CONSTRAINT Focus
SYMMETRY Symmetry
INVARIANTS
  ModesExclusive
PROPERTIES
  PaidOnlyAsChosen
  NoLostUpdate
