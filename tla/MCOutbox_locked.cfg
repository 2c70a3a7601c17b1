SPECIFICATION Spec
CONSTANTS
  Events = {e1, e2}
  NoEvent = NoEvent
  Workers = {w1}
  FastPaths = {f1, f2}
  MaxAttempts = 2
  Databases = {"postgresql"}
  StoreFaults = TRUE
  DbFaults = TRUE
  MaxCrashes = 1
CHECK_DEADLOCK FALSE
SYMMETRY OutboxSymmetry
INVARIANTS
  TypeOK
  NothingReportedUnapplied
  OneRunnerPerEvent
  RetriesExhausted
PROPERTIES
  DeliverySpec
