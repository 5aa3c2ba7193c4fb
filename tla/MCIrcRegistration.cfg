SPECIFICATION FairSpec
CONSTANTS
  MaxNickRetries = 2
  ChunkSize = 2
  BlobSizes = {1, 2, 3}
  Servers <- MCServers
  MaxPings = 1
INVARIANTS
  TypeOK
  NoSilentDowngrade
  NickAgreed
  NoFalseRejection
  NoStandoff
PROPERTIES
  HoldsRegistration
  Concludes
CHECK_DEADLOCK FALSE
