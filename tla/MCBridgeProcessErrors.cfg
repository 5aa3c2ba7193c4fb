SPECIFICATION FairSpec
CONSTANTS
  NoConfig = NoConfig
  Raw <- MCRaw
  Client = {c1}
  NoClient = NoClient
  InitialDelay = 1
  MaxDelay = 1
  BuiltinTimeout = TRUE
INVARIANT ConfigProblemsReported
CHECK_DEADLOCK FALSE
