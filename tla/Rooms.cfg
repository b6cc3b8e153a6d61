SPECIFICATION FairSpec
CONSTANTS
  e1 = e1
  e2 = e2
  e3 = e3
  d1 = d1
  d2 = d2
  n1 = n1
  Null = Null
  NoRow = NoRow
  Editors <- MCEditors
  NewRooms <- MCNewRooms
  NewRows <- MCNewRows
  DemoRooms <- MCDemoRooms
  DemoRow <- MCDemoRow
  Offers <- MCOffers
  Strip <- MCStrip
  Patches <- MCPatches
INVARIANTS
  NamesDistinct
  DemoRoomsWhole
PROPERTIES
  OnlyPostedColumns
  EveryRequestAnswered
CHECK_DEADLOCK FALSE
