CONSTANTS
  gateway = gateway
  controller = controller
  lamp = lamp
  NoNode = NoNode
  NoChild = NoChild
  NoPeer = NoPeer
  Plain = Plain
  Node <- MCNode
  MaxDepth = 2
  MaxChildren = 2
  MaxHop = 2
  MaxPeers = 2
  MaxKeys = 2
  Casts <- MCCasts
SPECIFICATION Spec
INVARIANTS
  TypeOK
  ConfirmationFits
  RecordedAsAgreed
  NothingUnsaved
PROPERTY IndexIsKept
CHECK_DEADLOCK FALSE
