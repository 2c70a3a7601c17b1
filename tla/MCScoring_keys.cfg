SPECIFICATION Spec
CONSTANTS
  c1 = c1
  c2 = c2
  acme = acme
  globex = globex
  Requests = {p1, p2, p3}
  Clients = {c1}
  Keys = {k1}
  NoKey = NoKey
  ExternalIds = {x1, x2}
  Bodies = {b1}
  OrgOf <- MCOneOrg
  NoRequest = NoRequest
  Faults = FALSE
CHECK_DEADLOCK FALSE
INVARIANTS
  KeyAcceptsOnePayload
