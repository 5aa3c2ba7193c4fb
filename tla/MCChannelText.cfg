SPECIFICATION Spec
CONSTANTS
  Texts <- MCTexts
  Prefixes = {0, 1}
  Destinations <- MCDestinations
  MaxLineBytes = 5
  MaxIrcBytes = 19
  MaxChannelLen = 2
INVARIANTS
  RelaysText
  SafeLines
  WithinBudget
  NoNeedlessSplit
  EveryLineSendable
CHECK_DEADLOCK FALSE
