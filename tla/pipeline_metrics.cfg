SPECIFICATION ObservedFairSpec
CONSTANTS
  r1 = r1
  r2 = r2
  Reqs = {r1, r2}
  ClientIds = {"sent"}
  LogExcludeEndpoints = {"version"}
  SentryIgnoredErrors = {"Exception"}
CHECK_DEADLOCK FALSE
PROPERTY EveryRequestAnswered
INVARIANTS ObservabilityTypeOK ErrorsMatchAnswers SuccessesMetered GaugeNeverOvercounts TracedEverywhere FailuresOnRecord
