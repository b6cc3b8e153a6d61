SPECIFICATION Spec
CONSTANTS
  r1 = r1
  r2 = r2
  r3 = r3
  r4 = r4
  NoAsk = NoAsk
  Rooms <- MCRooms
  FirstRows <- MCFirstRows
  Updates <- MCUpdates
  Meetings <- MCMeetings
  Asks <- MCAsks
  MaxAlternatives = 2
  MinClock = 4
  MaxClock = 5
  Hour = 4
  Day = 24
  Slot = 2
  WorkStart = 0
  WorkEnd = 14
  MinLength = 2
  MaxLength = 4
  Horizon = 12
  TzOffset = 1
  Cell = 4
  Weekday0 = 6
INVARIANTS
  OffersKeepRules
  BookingsAreShown
  NoBookableStartWithoutLink
  LinkIsBooking
PROPERTIES
  OffersAreChoices
  NearestAreOffered
  BestRoomsAreOffered
