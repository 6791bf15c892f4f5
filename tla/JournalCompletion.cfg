SPECIFICATION Spec
CONSTANTS
  Replica = {1, 2}
  Text = {t1, t2}
  FirstText = t1
  MaxFacts = 3
  MaxWaits = 1
  MaxFailures = 0
CHECK_DEADLOCK FALSE
INVARIANT CompletionUsesRequirements
