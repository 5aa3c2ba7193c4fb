SPECIFICATION FairSpec
INVARIANTS
  ReadyIsCurrent
  NoSenderLeftOver
PROPERTIES
  PrivmsgAfterJoin
  LossLeadsToReconnect
  ImplementsService
CHECK_DEADLOCK FALSE
