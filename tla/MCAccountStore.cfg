SPECIFICATION Spec
CONSTANTS
  Accounts = {a, b}
  None = None
  MaxListeners = 2
  MaxOps = 2
  MaxChanges = 1
  MaxFaults = 2
CHECK_DEADLOCK FALSE
INVARIANTS
  OwnStatus
PROPERTIES
  NeverBack
  Converges
