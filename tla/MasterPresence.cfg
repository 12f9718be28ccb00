CONSTANTS
  controller = controller
  leaf = leaf
  NoMac = NoMac
  Devices <- MCDevices
  Itinerary <- MovedUp
  Own <- Two
  Asked <- Tightened
  Hasty <- Nobody
  Longest = 2
  MaxNodes = 3
  MaxDepth = 2
  OfflineIntervals = 3
  MaxFlight = 2
  MaxLost = 2
  MaxRestarts = 1
SPECIFICATION Spec
INVARIANTS
  TypeOK
  ShownOnce
  PicturePersists
  TreeIsKnown
  NotOfflineForObeying
PROPERTY DeathIsNoticed
