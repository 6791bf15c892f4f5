SPECIFICATION FairSpec
CONSTANTS
  Replica = {1, 2}
  Text = {t1, t2}
  FirstText = t1
  MaxFacts = 3
  MaxWaits = 1
  MaxFailures = 1
CHECK_DEADLOCK FALSE
INVARIANTS
  TypeOK
  JournaledOnce
  OwnEditsStay
PROPERTY EventuallyMerged
