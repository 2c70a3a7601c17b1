SPECIFICATION Spec
CONSTANTS
  Transactions = {x1, x2, x3}
  Customers = {c1}
  Cards = {k1, k2}
  MaxTime = 4
  Skew = 0
  Window = 2
  Retention = 3
CHECK_DEADLOCK FALSE
SYMMETRY Symmetry
INVARIANTS
  TypeOK
  WindowParity
  HistoryParity
  CountedOnce
  CardNotBehind
