CONSTANTS
  controller = controller
  leaf = leaf
  NoMac = NoMac
  Devices <- MCDevices
  Itinerary <- MovedUp
  Own <- Two
  Asked <- Nothing
  Hasty <- TheLeaf
  Longest = 2
  MaxNodes = 3
  MaxDepth = 2
  OfflineIntervals = 3
  MaxFlight = 2
  MaxLost = 0
  MaxRestarts = 0
SPECIFICATION Spec
INVARIANT TreeIsKnown
