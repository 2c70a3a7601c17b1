SPECIFICATION FairSpec
CONSTANTS
  Events = {e1}
  NoEvent = NoEvent
  Workers = {w1, w2}
  FastPaths = {f1}
  MaxAttempts = 2
  Databases = {"postgresql", "sqlite"}
  StoreFaults = TRUE
  DbFaults = FALSE
  MaxCrashes = 0
CHECK_DEADLOCK FALSE
INVARIANTS
  AppliedAtMostOnce
  DecisionShowsVerdict
  StrandedByFailureOnly
PROPERTIES
  EventsSettle
