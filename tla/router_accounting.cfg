SPECIFICATION Spec
CONSTANTS
    keeper = keeper
    nextKeeper = nextKeeper
    creator = creator
    ops = ops
    outsider = outsider
    nobody = nobody
    claim1 = claim1
    claim2 = claim2
    pay1 = pay1
    pay2 = pay2
    buy1 = buy1
    Authorities <- OneKeeper
    Wallets <- CreatorAndOps
    Creator = creator
    Unset = nobody
    ClaimIds <- TwoClaims
    WithdrawalIds <- TwoPayments
    BuybackIds <- OneBuyback
    Units <- SmallUnits
    TotalUnits = 20
    DirectedUnits <- DirectedEighths
    DirectedTotal = 8
    RouterRent = 1
    VaultRent = 2
    CreatorOnline = TRUE
    Collections = {0, 1, 6, 20}
    Payments = {0, 1}
    Debits = {1, 2}
    AutomationChoices <- NoChoice
    DonationTargets <- BuybackVault
    MaxRouter = 22
    MaxDonation = 1
SYMMETRY IdSymmetry
INVARIANTS TypeOK VaultsSolvent RecordsExplainBudgets DirectedSharesKept LargeCollectionSettles
PROPERTIES LedgerKept
CHECK_DEADLOCK FALSE
