SPECIFICATION FairSpec
CONSTANTS
  c1 = c1
  c2 = c2
  acme = acme
  globex = globex
  Requests = {p1, p2}
  Clients = {c1, c2}
  Keys = {k1}
  NoKey = NoKey
  ExternalIds = {x1, x2}
  Bodies = {b1, b2}
  OrgOf <- MCTwoOrgs
  NoRequest = NoRequest
  Faults = TRUE
CHECK_DEADLOCK FALSE
INVARIANTS
  TypeOK
  SameRequestSameDecision
  AcknowledgedIsDurable
  ConflictHasCause
  RetryNeverRescored
  RecoverAlwaysExplains
  TenantsAreSeparate
  NobodyStuck
PROPERTIES
  LedgerSpec
  EveryRequestEnds
