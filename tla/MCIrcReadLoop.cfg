SPECIFICATION FairSpec
CONSTANTS
  Line <- MCLine
  Oversized = Oversized
  NoPing = NoPing
  Idle = 3
  Timeout = 2
  MaxInbox = 2
INVARIANTS
  TypeOK
  DetectedInTime
PROPERTIES
  AnswerKeepsAlive
  
  SilentPeerFound
CHECK_DEADLOCK FALSE
