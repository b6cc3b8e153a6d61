SPECIFICATION Spec
CONSTANTS
  c1 = c1
  c2 = c2
  c3 = c3
  x1 = x1
  x2 = x2
  ann = ann
  bob = bob
  r1 = r1
  r2 = r2
  Nobody = Nobody
  Creates <- MCCreates
  Cancels <- MCOneCancel
  Users <- MCUsers
  Admins <- MCAdmins
  Rooms <- MCRooms
  Inputs <- MCInputs
  Fragile <- MCNobodyFails
  MinClock = 2
  MaxClock = 3
  Hour = 4
  Day = 12
  Slot = 2
  WorkStart = 2
  WorkEnd = 10
  MinLength = 2
  MaxLength = 4
  Horizon = 4
  TzOffset = 1
INVARIANT
  RaceEndsInConflict
