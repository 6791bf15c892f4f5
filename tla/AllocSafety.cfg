SPECIFICATION Spec
CONSTANTS
  A = A
  B = B
  a1 = a1
  a2 = a2
  b1 = b1
  issue = issue
  Null = Null
  Machine <- Two
  Attempt <- OneEach
  Owner <- MCOwner
  Task = {issue}
  TaskOf <- MCTaskOf
  Rank <- MCRank
  Legacy <- NoLegacy
  MaxSequence = 1
  MaxFailures = 1
  Timings <- LateOrKept
CHECK_DEADLOCK FALSE
INVARIANTS
  TypeOK
  OmissionProvesStopped
  TimelyExclusion
PROPERTIES
  LivingAttemptKept
  OnlyLosersStop
  LaunchesFollowKnowledge
  LaunchFence
