SPECIFICATION Spec
CONSTANTS
  Requests = {p1, p2, p3}
  Decisions = {d1}
  Cases = {d1}
  Strangers = {}
  Faults = FALSE
CHECK_DEADLOCK FALSE
INVARIANTS
  LastActionDecides
