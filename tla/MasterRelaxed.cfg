CONSTANTS
  controller = controller
  leaf = leaf
  NoMac = NoMac
  Devices <- MCDevices
  Itinerary <- StaysPut
  Own <- One
  Asked <- Relaxed
  Hasty <- Nobody
  Longest = 4
  MaxNodes = 3
  MaxDepth = 2
  OfflineIntervals = 3
  MaxFlight = 1
  MaxLost = 0
  MaxRestarts = 0
SPECIFICATION Spec
INVARIANT NotOfflineForObeying
