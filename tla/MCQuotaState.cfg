SPECIFICATION Spec
CONSTANTS
  r1 = r1
  r2 = r2
  r3 = r3
  k1 = k1
  k2 = k2
  k3 = k3
  None = None
  Reader <- MCReader
  Key <- MCKey
  Capacity = 2
  MaxFetch = 3
SYMMETRY Symmetry
CHECK_DEADLOCK FALSE
INVARIANTS
  ObservationsCurrent
  RequestsShared
  DisposedForGood
