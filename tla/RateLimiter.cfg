SPECIFICATION Spec
CONSTANTS
  k1 = k1
  k2 = k2
  None = None
  Keys <- MCKeys
  Limit = 2
  Window = 3
  Second = 2
  MaxTime = 9
INVARIANTS
  WindowBound
  DequeIsRecentPast
PROPERTIES
  RetryHonest
