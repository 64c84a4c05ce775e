SPECIFICATION Spec
CONSTANTS
  h = h
  x = x
  Worker = worker
  Requests = {request}
  Holders = {h}
  Claims = {x}
  Leaves <- TwoAndOne
  Place <- HolderFirst
  MaxPasses = 1
  MaxCrashes = 0
INVARIANT PaidRowHasEvidence
CHECK_DEADLOCK FALSE
