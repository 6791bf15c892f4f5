SPECIFICATION FairSpec
CONSTANTS
  A = A
  B = B
  a1 = a1
  a2 = a2
  b1 = b1
  issue = issue
  Null = Null
  Machine <- Two
  Attempt <- OneEach
  Owner <- MCOwner
  Task = {issue}
  TaskOf <- MCTaskOf
  Rank <- MCRank
  Legacy <- OneLegacy
  MaxSequence = 1
  MaxFailures = 0
  Timings <- JustLate
CHECK_DEADLOCK FALSE
PROPERTY ConflictsResolve
