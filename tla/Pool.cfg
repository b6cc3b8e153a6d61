SPECIFICATION Spec
CONSTANTS
  v1 = v1
  b1 = b1
  p1 = p1
  p2 = p2
  p3 = p3
  Visitors <- MCVisitors
  Returners <- MCReturners
  Phrases <- MCPhrases
  Size = 2
  PoolTimeout = 3
  CallTimeout = 2
  Backoff = 1
  Attempts = 2
SYMMETRY Symmetry
INVARIANTS
  AnsweredInTime
PROPERTIES
  OnlySlowPhrasesHoldUp
