SPECIFICATION FairSpec
CONSTANTS
  NoConfig = NoConfig
  Raw <- MCRaw
  Client = {c1}
  NoClient = NoClient
  InitialDelay = 1
  MaxDelay = 1
  BuiltinTimeout = TRUE
INVARIANTS
  TypeOK
  AssertionsGuaranteed
  NothingLeftBehind
PROPERTIES
  RadioReleasedOnSignal
  SignalEndsProcess
CHECK_DEADLOCK FALSE
