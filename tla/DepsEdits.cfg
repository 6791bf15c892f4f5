SPECIFICATION Spec
CONSTANTS
  Replica = {1, 2}
  Issue = {1, 2, 3}
  Proposals <- Entangled
  Handled = {3}
  MaxFacts = 4
CHECK_DEADLOCK FALSE
INVARIANTS
  TypeOK
  EditsStayAcyclic
  EditsReachDependents
  WithheldOnlyForCycles
  NextEditWins
  ProposalsConverge
