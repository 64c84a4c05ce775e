SPECIFICATION FairSpec
CONSTANTS
    keeper = keeper
    nextKeeper = nextKeeper
    sol = sol
    token = token
    alice = alice
    bob = bob
    cycle1 = cycle1
    cycle2 = cycle2
    Sol = sol
    Recipients <- TwoWallets
    MaxLeaves = 2
    Rent = 1
    Authorities <- TwoKeepers
    Assets <- SolAndToken
    FeeBearing <- NoTax
    CycleIds <- TwoCycles
    Commitments <- Trees
    Totals = {2}
    Deposits = {4}
    MaxBalance = 5
    PayoutTimes = {1}
    MaxNow = 1
    Legacy <- HalfPaid
INVARIANTS TypeOK CommitmentsCovered PaymentsExplainReserves
PROPERTIES CommitmentsFixed 
CHECK_DEADLOCK FALSE
