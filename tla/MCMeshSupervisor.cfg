SPECIFICATION FairSpec
CONSTANTS
  Client = {c1, c2, c3}
  NoClient = NoClient
  InitialDelay = 1
  MaxDelay = 5
  BuiltinTimeout = TRUE
INVARIANTS
  TypeOK
  EveryClientReleased
PROPERTIES
  EndsForAReason
  LossLeadsToReconnect
CHECK_DEADLOCK FALSE
