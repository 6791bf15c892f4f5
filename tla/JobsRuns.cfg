SPECIFICATION FairSpec
CONSTANTS
  A = A
  B = B
  every = every
  onA = onA
  onB = onB
  next = next
  None = None
  Node <- Two
  Run <- Twice
  Parent <- MCParent
  Target <- MCTarget
  Slow <- NoSlow
  MaxGeneration <- Handovers
  MaxCrashes = 1
  MaxStops = 1
CHECK_DEADLOCK FALSE
INVARIANTS
  TypeOK
  CustodyFenced
  ReportsAcceptable
PROPERTIES
  StopEnds
  ImplementsSingleExecution
