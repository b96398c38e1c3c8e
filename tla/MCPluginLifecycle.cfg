SPECIFICATION FairSpec
CONSTANTS
  search = search
  image = image
  s1 = s1
  s2 = s2
  on = on
  None = None
  Ours = Ours
  Capability <- Capabilities
  Search = search
  Setup <- Setups
  Route = {A, B}
  MaxEvents = 3
INVARIANTS
  OneAtATime
  NothingLeft
  LastChoiceWins
PROPERTIES
  Settles
CHECK_DEADLOCK FALSE
