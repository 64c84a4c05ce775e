SPECIFICATION Spec
CONSTANTS
    keeper = keeper
    nextKeeper = nextKeeper
    creator = creator
    ops = ops
    outsider = outsider
    nobody = nobody
    claim1 = claim1
    claim2 = claim2
    pay1 = pay1
    pay2 = pay2
    buy1 = buy1
    Authorities <- TwoKeepers
    Wallets <- ThreeWallets
    Creator = creator
    Unset = nobody
    ClaimIds <- OneClaim
    WithdrawalIds <- TwoPayments
    BuybackIds <- None
    Units <- SmallUnits
    TotalUnits = 20
    DirectedUnits <- DirectedEighths
    DirectedTotal = 8
    RouterRent = 1
    VaultRent = 2
    CreatorOnline = FALSE
    Collections = {40}
    Payments = {0, 1, 2}
    Debits = {1}
    AutomationChoices <- OpsOrOutsider
    DonationTargets <- None
    MaxRouter = 41
    MaxDonation = 1
SYMMETRY IdSymmetry
INVARIANTS OfflinePayoutsFrozen ApprovalsSpentOnce
PROPERTIES PaidToCurrentVault
CHECK_DEADLOCK FALSE
