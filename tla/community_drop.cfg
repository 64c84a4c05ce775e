SPECIFICATION DropSpec
CONSTANTS
    keeper = keeper
    nextKeeper = nextKeeper
    sol = sol
    token = token
    alice = alice
    bob = bob
    cycle1 = cycle1
    Sol = sol
    Recipients <- TwoWallets
    MaxLeaves = 2
    Rent = 1
    Authorities <- OneKeeper
    Assets <- SolAndToken
    FeeBearing <- NoToken
    CycleIds <- OneCycle
    Commitments <- OneTree
    Totals = {1, 2}
    Deposits = {1, 2}
    MaxBalance = 4
    PayoutTimes = {1}
    MaxNow = 4
    Legacy <- NoLegacy
    MintToken = token
    Snapshots <- SomeSnapshots
    MigrationAt = 1
    Windows = {1, 3}
    MaxGift = 3
INVARIANTS DropTypeOK DropCovered EscrowLeavesPromises ClaimsMatchSnapshot
PROPERTIES OnlyClaimsBeforeExpiry
CHECK_DEADLOCK FALSE
