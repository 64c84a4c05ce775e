SPECIFICATION FairSpec
CONSTANTS
  h = h
  x = x
  Worker = worker
  Requests = {request}
  Holders = {h}
  Claims = {x}
  Leaves <- TwoAndOne
  Place <- HolderFirst
  MaxPasses = 1
  MaxCrashes = 1
INVARIANTS TypeOK PaidMeansOnChain
PROPERTIES HeldBackStays PreparedIsPaid
CHECK_DEADLOCK FALSE
