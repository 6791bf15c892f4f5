SPECIFICATION Spec
CONSTANTS
  Replica = {1, 2}
  Issue = {1, 2, 3}
  Baseline = {1}
  MaxFacts = 3
CHECK_DEADLOCK FALSE
INVARIANTS
  TypeOK
  PositionsFollowFacts
  OwnChangesStay
  OrdersConverge
