SPECIFICATION FairSpec
CONSTANTS
  Requests = {r1, r2}
  r1 = r1
  r2 = r2
  MaxBlock = 3
  Validity = 1
  MaxFaults = 2
INVARIANT TypeOK
INVARIANT LiveIsRecorded
PROPERTY LifecycleSpec
PROPERTY RetryBooksPayment
