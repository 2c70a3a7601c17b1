SPECIFICATION Spec
CONSTANTS
  Requests = {p1, p2, p3}
  Decisions = {d1, d2}
  Cases = {d1}
  Strangers = {x1}
  Faults = TRUE
CHECK_DEADLOCK FALSE
SYMMETRY RequestSymmetry
INVARIANTS
  TypeOK
  LabelIsOutcome
  SerialActionsDecide
  ClosedForAReason
PROPERTIES
  RecordSpec
