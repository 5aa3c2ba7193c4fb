SPECIFICATION FairSpec
PROPERTY StopAlwaysEndsRun
CHECK_DEADLOCK FALSE
