SPECIFICATION FairSpec
CONSTANTS
  f1 = f1
  f2 = f2
  usd = usd
  qa = qa
  Fundings = {f1, f2}
  Amounts = {1}
  Lengths = {1, 2}
  MaxLength = 2
  QaLength = 1
  Policies = {usd, qa}
  Minimum <- SmallerForQa
  PayoutDelay = 0
  MaxTime = 3
  MaxChanges = 2
INVARIANTS TypeOK FundingUsedOnce PreparedPeriodsDisjoint
PROPERTIES ManifestKept ManifestIsPaid
CHECK_DEADLOCK FALSE
