SPECIFICATION FairSpec
CONSTANTS
  MeshChannels <- MCMeshChannels
  IrcChannels = {"#own", "#shared"}
  ChannelMap <- MCChannelMap
  MaxQueued = 2
  MaxSendAttempts = 3
  MaxLinesPerMessage = 2
  MaxAccepted = 4
  NoLine = NoLine
INVARIANTS
  TypeOK
  EveryLossLogged
  FifoDelivery
  BoundedRetries
  Attributable
PROPERTIES
  WrittenInOrder
  ImplementsRelay
  HeadNeverWedges
