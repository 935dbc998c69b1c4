SPECIFICATION FairSpec
CONSTANTS
  Environments <- SomeEnvironments
  Retries = 3
CHECK_DEADLOCK TRUE
INVARIANTS StartupTypeOK SoundStart
PROPERTIES StartsInTheEnd
