SPECIFICATION Spec
CONSTANTS
  k1 = k1
  k2 = k2
  k3 = k3
  k4 = k4
  v1 = v1
  v2 = v2
  Key <- MCKey
  Value <- MCValue
  cache_size = 3
INVARIANTS
  RingOK
  NeverStale
  LosslessUntilWrapped
PROPERTIES
  NeverRegrows
  ImplementsLossyMap
CHECK_DEADLOCK FALSE
