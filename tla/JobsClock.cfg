SPECIFICATION Spec
CONSTANTS
  A = A
  B = B
  every = every
  onA = onA
  onB = onB
  next = next
  None = None
  Node <- Two
  Run <- Plain
  Parent <- MCParent
  Target <- MCTarget
  Slow <- Slower
  MaxGeneration <- Handovers
  MaxCrashes = 1
  MaxStops = 1
CHECK_DEADLOCK FALSE
INVARIANT FailureIsRecorded
