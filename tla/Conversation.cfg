CONSTANTS
  Instances <- MCInstances
  MaxLinks = 2
  LinksPerPage = 1
  MaxText = 4
  MaxPayload = 23
  MaxDepth = 1
  MaxInstances = 3
  MaxEntries = 3
  MaxPage = 1
  KeyLen = 2
  MacLen = 2
  MaxSsid = 2
  MaxPass = 2
  MaxUrl = 2
  Magic <- MCMagic
  Version = 1
  DeviceType = 0
  Capabilities = 0
  Interval = 60
  Firmware <- MCFirmware
  NodeNames <- MCNodeNames
  InstanceNames <- MCInstanceNames
  MaxName = 3
  PeerName = 4
  FactoryNames <- MCFactory
  Shown <- MCShown
  Agendas <- MCAgendas
  CanUpdate = TRUE
  MaxUp = 2
  MaxRenames = 2
SPECIFICATION FairSpec
INVARIANTS
  TypeOK
  MeaningSurvives
  PagesTile
  CopyWasTrue
  NamesAreText
  AnsweredRenameIsKept
PROPERTY ChangeIsNoticed
