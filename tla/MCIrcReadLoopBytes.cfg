SPECIFICATION FairSpec
CONSTANTS
  Line <- MCLine
  Oversized = Oversized
  NoPing = NoPing
  Idle = 3
  Timeout = 2
  MaxInbox = 2
PROPERTY AnyByteKeepsAlive
CHECK_DEADLOCK FALSE
