SPECIFICATION Spec
CONSTANTS
  TrainPercent = 60
  ValidationPercent = 20
  FraudLoss = 250
  FalseDeclineCost = 100
  ReviewCost = 4
  MissedReviewCost = 10
  ReviewCapacity = 50
  Steps = 3
  Servers = {s1}
  Clients = {c1}
  Transactions = {x1}
  Frames <- MCFrames
  Scores = {0, 1}
  Models = {lightgbm}
  Limit = 2
  Window = 2
  MaxTime = 2
  MaxTrainings = 2
  MaxStarts = 2
  MaxRequests = 4
  Absent = Absent
  Partial = Partial
  Down = Down
  Nothing = Nothing
CHECK_DEADLOCK FALSE
INVARIANTS
  TypeOK
  SplitIsSound
  
  LimiterIsExact
  DecisionsAreTraceable
