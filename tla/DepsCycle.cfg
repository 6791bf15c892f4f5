SPECIFICATION Spec
CONSTANTS
  Replica = {1, 2}
  Issue = {1, 2, 3}
  Proposals <- Competing
  Handled = {}
  MaxFacts = 6
CHECK_DEADLOCK FALSE
INVARIANT NoDependencyCycle
