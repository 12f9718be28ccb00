CONSTANTS
  gateway = gateway
  controller = controller
  thermometer = thermometer
  lamp = lamp
  NoNode = NoNode
  NoChild = NoChild
  NoFrame = NoFrame
  Node <- MCNode
  Battery <- MCBattery
  Topologies <- MCTrees
  Links <- MCLinks
  Commanders <- MCRoot
  Destinations <- MCDeep
  Reporters <- MCLinkReps
  Restarting <- MCNode
  MaxDepth = 3
  MaxChildren = 2
  MaxHop = 3
  SeqMod = 3
  MaxCmds = 2
  MaxFaults = 0
  Prompt = TRUE
SPECIFICATION FairSpec
INVARIANTS
  WiresFollowTheirSource
PROPERTIES
  ImplementsCommands
  EveryCommandEnds
CHECK_DEADLOCK FALSE
