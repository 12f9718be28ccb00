CONSTANTS
  gateway = gateway
  controller = controller
  thermometer = thermometer
  lamp = lamp
  NoNode = NoNode
  NoChild = NoChild
  NoFrame = NoFrame
  Node <- MCNode
  Battery <- MCBattery
  Topologies <- MCAll
  Links <- NoLinks
  Commanders <- MCRoot
  Destinations <- MCPaths
  Reporters <- MCRepCtl
  Restarting <- MCNode
  MaxDepth = 3
  MaxChildren = 2
  MaxHop = 3
  SeqMod = 3
  MaxCmds = 2
  MaxFaults = 1
  Prompt = FALSE
SPECIFICATION Spec
INVARIANTS
  TypeOK
  SourceIsTheWayBack
  RunsWhereAddressed
  RunsAtMostOnce
  RunsInOrder
  RouteErrorNamesTheHop
  AnswersTellTheFate
PROPERTY ImplementsCommands
CHECK_DEADLOCK FALSE
