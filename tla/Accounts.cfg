SPECIFICATION FairSpec
CONSTANTS
  g1 = g1
  g2 = g2
  l1 = l1
  x1 = x1
  Seed = Seed
  Nobody = Nobody
  Registers <- MCRegisters
  Logins <- MCLogins
  Logouts <- MCLogouts
  Spellings <- MCSpellings
  Normal <- MCNormal
  AdminSpelling = "root"
  Lifetime = 1
  MaxClock = 2
INVARIANTS
  OneAccountPerAddress
  RefusedHasOwner
PROPERTIES
  ImplementsSessionBook
  EveryRequestAnswered
CHECK_DEADLOCK FALSE
