SPECIFICATION Spec
CONSTANTS
  Requests = {p1, p2}
  Prefixes = {k1, k2}
  NoKey = NoKey
  Organizations = {o1, o2}
  Nobody = Nobody
  Roles = {"tenant_admin", "analyst"}
  Scopes = {"transaction.score", "integration.manage"}
  Faults = TRUE
  MaxTime = 1
SYMMETRY Symmetry
INVARIANTS
  TypeOK
  RevocationLasts
  DeadKeysOpenNothing
  ScopesNeverWiden
  TenantsManageTheirOwn
PROPERTIES
  AccessSpec
