SPECIFICATION FairSpec
CONSTANTS
  r1 = r1
  r2 = r2
  None = None
  Rooms <- MCRooms
  FirstRows <- MCFirstRows
  Updates <- MCUpdates
  Meetings <- MCMeetings
  Phrases <- MCPhrases
  MaxRetries = 1
  DefaultDuration = 2
  MaxAlternatives = 1
  MinClock = 4
  MaxClock = 5
  Hour = 4
  Day = 12
  Slot = 2
  WorkStart = 2
  WorkEnd = 8
  MinLength = 2
  MaxLength = 4
  Horizon = 12
  TzOffset = 1
INVARIANTS
  RefusalIsNews
  UnreadyHasReason
  ReadyKeepsRules
  OnlyFailuresRepeated
PROPERTIES
  SmallestUnlessResized
  EveryPhraseAnswered
