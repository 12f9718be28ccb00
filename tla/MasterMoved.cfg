CONSTANTS
  controller = controller
  leaf = leaf
  NoMac = NoMac
  Devices <- MCDevices
  Itinerary <- MovedDown
  Own <- Two
  Asked <- Nothing
  Hasty <- Nobody
  Longest = 2
  MaxNodes = 3
  MaxDepth = 2
  OfflineIntervals = 3
  MaxFlight = 2
  MaxLost = 0
  MaxRestarts = 1
SPECIFICATION Spec
INVARIANT PicturePersists
