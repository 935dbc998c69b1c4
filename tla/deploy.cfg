SPECIFICATION Spec
CONSTANTS
  Versions = {1, 2}
  Keep = 2
  MaxReruns = 1
  MaxRollbacks = 1
INVARIANT DeployTypeOK
INVARIANT MigratedBeforeServed
INVARIANT LastRevisionsKept
CHECK_DEADLOCK FALSE
