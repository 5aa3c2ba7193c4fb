SPECIFICATION FairSpec
CONSTANTS
  MeshChannels <- MCMeshChannels
  IrcChannels = {"#own", "#shared"}
  ChannelMap <- MCChannelMap
  MaxQueued = 2
  MaxSendAttempts = 3
  MaxLinesPerMessage = 1
  MaxAccepted = 4
  NoLine = NoLine
PROPERTY GiveUpAfterOwnFailures
