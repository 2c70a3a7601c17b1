SPECIFICATION FairSpec
CONSTANTS
  Events = {e1}
  NoEvent = NoEvent
  Workers = {w1}
  FastPaths = {f1}
  MaxAttempts = 2
  Databases = {"postgresql"}
  StoreFaults = FALSE
  DbFaults = FALSE
  MaxCrashes = 1
CHECK_DEADLOCK FALSE
PROPERTIES
  NoUpdateLost
