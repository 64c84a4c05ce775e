SPECIFICATION FairSpec
CONSTANTS
  Workers = {w1, w2}
  w1 = w1
  w2 = w2
  MaxBlock = 3
  Validity = 1
  LeaseBlocks = 1
  MaxFaults = 2
INVARIANT TypeOK
INVARIANT OnlyJournaledIsSent
INVARIANT FailedMeansUnpaid
PROPERTY LifecycleSpec
PROPERTY DeathsAreMadeGood
