---------------------------- MODULE MintRouterV3 ----------------------------
(***************************************************************************)
(* The on-chain fee router of one mint, version 3: the router account that *)
(* collects creator fees, the policy account that splits them into seven   *)
(* category budgets, the seven vaults that hold the budgets, and the       *)
(* accounts that make each operation happen once (claim, approval,         *)
(* withdrawal and buyback records at addresses derived from an id).        *)
(*                                                                         *)
(* An instruction of the program is atomic: it succeeds as a whole or      *)
(* leaves no trace.  So one action models one handler, its guard is the    *)
(* conjunction of every require!, checked_* and account constraint, and    *)
(* the interleavings are those of transactions of different signers.       *)
(***************************************************************************)
EXTENDS CumulativeSplit, FiniteSetsExt

CONSTANTS
    Authorities,      \* keys that can hold the router authority (never the app owner)
    Wallets,          \* system-owned recipients, the creator included
    Creator,          \* policy.creator, fixed when the mint is initialized
    Unset,            \* Pubkey::default()
    ClaimIds, WithdrawalIds, BuybackIds,
    Units,            \* units of the seven categories (the creator's first)
    TotalUnits,       \* TOTAL_UNITS
    DirectedUnits,    \* units of the three creator-directed beneficiaries
    DirectedTotal,    \* DIRECTED_UNITS
    RouterRent,       \* minimum_balance(MINT_ROUTER_DATA_LEN)
    VaultRent,        \* minimum_balance(0)
    CreatorOnline,    \* FALSE: the creator signs nothing after the launch
    Collections,      \* amounts that reach the router and that a settlement names
    Payments,         \* amounts that approvals and disbursements name
    Debits,           \* amounts that buybacks authorise and spend
    AutomationChoices,\* recipient lists an automation record may be created with
    DonationTargets,  \* bound: the vaults third parties send lamports to
    MaxRouter,        \* bound: lamports third parties leave in the router
    MaxDonation       \* bound: lamports third parties leave in a vault

Categories == 0..6
Beneficiaries == 0..2
CreatorDirected == 0
Community == 5
BuybackCategory == 6
Approved == 1..4      \* operations and the three referral levels

(* The sum of a function on Categories.                                    *)
Total7(f) == f[0] + f[1] + f[2] + f[3] + f[4] + f[5] + f[6]

(* The sum of a function on Beneficiaries.                                 *)
Total3(f) == f[0] + f[1] + f[2]

(* The address of the reward vault an authority owns for this mint.        *)
RewardVaultOf(a) == <<"reward-vault", a>>
Recipients == Wallets \cup {RewardVaultOf(a) : a \in Authorities}

ASSUME UnitsAssumption ==
    /\ TotalUnits \in Nat \ {0}
    /\ Units \in [Categories -> Nat]
    /\ Total7(Units) = TotalUnits
ASSUME DirectedAssumption ==
    /\ DirectedTotal \in Nat \ {0}
    /\ DirectedUnits \in [Beneficiaries -> Nat]
    /\ Total3(DirectedUnits) = DirectedTotal
ASSUME LamportAssumption ==
    /\ RouterRent \in Nat
    /\ VaultRent \in Nat
    /\ Collections \subseteq Nat
    /\ Payments \subseteq Nat
    /\ Debits \subseteq Nat
    /\ MaxRouter \in Nat
    /\ MaxDonation \in Nat
(* Ids are 32-byte strings.                                                *)
ASSUME IdsAssumption ==
    /\ IsFiniteSet(ClaimIds)
    /\ IsFiniteSet(WithdrawalIds)
    /\ IsFiniteSet(BuybackIds)
ASSUME PartyAssumption ==
    /\ Creator \in Wallets
    /\ Unset \notin Wallets
    /\ \A a \in Authorities : RewardVaultOf(a) \notin Wallets
    /\ AutomationChoices \subseteq [Approved -> Wallets \cup {Unset}]
    /\ CreatorOnline \in BOOLEAN
    /\ WithdrawalIds \cap BuybackIds = {}
    /\ DonationTargets \subseteq Categories

VARIABLES
    authority,    \* authority in the global router header
    kind,         \* "none", "standard" or "protected": the policy account
    router,       \* lamports of the mint's router account, rent included
    vault,        \* lamports of each category vault, rent included
    settled,      \* policy.settled_lamports
    paid,         \* policy.paid_lamports
    withdrawn,    \* policy.withdrawn_lamports
    released,     \* lamports released to each directed beneficiary
    claims,       \* claim records (total 0: the account does not exist)
    approvals,    \* approval records (amount 0: the account does not exist)
    withdrawals,  \* withdrawal receipts (amount 0: the account does not exist)
    buybacks,     \* lamports of each buyback receipt (0: does not exist)
    automation,   \* recipients of the automation record (all Unset: none)
    rewardVaults  \* authorities whose reward vault for this mint exists

policyVars == <<settled, paid, withdrawn, released>>
recordVars == <<claims, approvals, withdrawals, buybacks>>
vars == <<authority, kind, router, vault, policyVars, recordVars,
          automation, rewardVaults>>

NoClaim == [total |-> 0, parts |-> [c \in Categories |-> 0]]
NoApproval == [category |-> 0, recipient |-> Unset, amount |-> 0, consumed |-> FALSE]
NoWithdrawal == [category |-> 0, recipient |-> Unset, amount |-> 0]
NoAutomation == [c \in Approved |-> Unset]

ClaimRecords == [total : Nat, parts : [Categories -> Nat]]
ApprovalRecords ==
    [category : Categories, recipient : Wallets \cup {Unset}, amount : Nat, consumed : BOOLEAN]
WithdrawalRecords ==
    [category : Categories, recipient : Recipients \cup {Unset}, amount : Nat]

TypeOK ==
    /\ authority \in Authorities
    /\ kind \in {"none", "standard", "protected"}
    /\ router \in Nat
    /\ vault \in [Categories -> Nat]
    /\ settled \in Nat
    /\ paid \in [Categories -> Nat]
    /\ withdrawn \in [Categories -> Nat]
    /\ released \in [Beneficiaries -> Nat]
    /\ claims \in [ClaimIds -> ClaimRecords]
    /\ approvals \in [WithdrawalIds -> ApprovalRecords]
    /\ withdrawals \in [WithdrawalIds -> WithdrawalRecords]
    /\ buybacks \in [BuybackIds -> Nat]
    /\ automation \in [Approved -> Wallets \cup {Unset}]
    /\ rewardVaults \subseteq Authorities

-----------------------------------------------------------------------------
(* The split of the running total into categories and beneficiaries.       *)

(* Cumulative units up to and including category c: the "cumulative" of    *)
(* the loop in category_targets.                                           *)
CategoryEnd == [c \in Categories |->
    Total7([d \in Categories |-> IF d <= c THEN Units[d] ELSE 0])]

CategoryTarget(total, c) ==
    Share(total, IF c = 0 THEN 0 ELSE CategoryEnd[c - 1], CategoryEnd[c], TotalUnits)

CategoryTargets(total) == [c \in Categories |-> CategoryTarget(total, c)]

DirectedEnd == [b \in Beneficiaries |->
    Total3([d \in Beneficiaries |-> IF d <= b THEN DirectedUnits[d] ELSE 0])]

DirectedTarget(total, b) ==
    Share(total, IF b = 0 THEN 0 ELSE DirectedEnd[b - 1], DirectedEnd[b], DirectedTotal)

(* Faults: a wrapping subtraction; an allocation required to be positive.  *)
AllocationExists_Unchecked(targets) == TRUE
AllocationExists_Positive(targets) == \A c \in Categories : targets[c] > paid[c]

(* Every checked_sub(policy.paid_lamports) of a settlement succeeds.       *)
AllocationExists(targets) == \A c \in Categories : targets[c] >= paid[c]

(* Fault: fees are put in the vault without its rent.                      *)
FundedVaults_NoTopUp(allocation) ==
    [c \in Categories |-> vault[c] + allocation[c]]

(* The vaults after a settlement.  Only a vault that receives fees is      *)
(* topped up to its rent reserve, at the authority's expense.              *)
FundedVaults(allocation) == [c \in Categories |->
    IF allocation[c] = 0 THEN vault[c]
    ELSE (IF vault[c] < VaultRent THEN VaultRent ELSE vault[c]) + allocation[c]]

-----------------------------------------------------------------------------
(* Guards shared by the handlers.                                          *)

(* Fault: any key that was or will be an authority may sign.               *)
IsCurrent_AnyKey(signer) == TRUE

(* assert_current_router_authority *)
IsCurrent(signer) == signer = authority

(* Fault: the record authorizes any recipient.                             *)
Authorize_AnyRecipient(creatorSigns, c, recipient) ==
    creatorSigns \/ automation # NoAutomation

(* The creator's signature, or the automation record: for operations and   *)
(* referrals it also fixes the recipient.                                  *)
Authorize(creatorSigns, c, recipient) ==
    \/ creatorSigns
    \/ /\ automation # NoAutomation
       /\ c \in Approved => automation[c] # Unset /\ automation[c] = recipient

Signatures == IF CreatorOnline THEN BOOLEAN ELSE {FALSE}

(* The remaining budget of the category and its vault both cover amount.   *)
InBudget(c, amount) == withdrawn[c] + amount <= paid[c]
InVault(c, amount) == vault[c] >= VaultRent + amount

(* Fault: only the sum of the directed shares is capped.                   *)
SharesWithinTargets_SumOnly(shares) == Total3(shares) <= paid[CreatorDirected]

(* Every directed share stays within its target, as checked for all three  *)
(* whichever of them is being released.                                    *)
SharesWithinTargets(shares) ==
    \A b \in Beneficiaries : shares[b] <= DirectedTarget(paid[CreatorDirected], b)

IsRewardVault(signer, recipient) ==
    /\ signer \in rewardVaults
    /\ recipient = RewardVaultOf(signer)

(* Fault: an existing receipt is opened again.                             *)
FirstUse_Reopened(id) == TRUE

(* The receipt account of this id is created by this instruction.          *)
FirstUse(id) == withdrawals[id] = NoWithdrawal

(* The transfer, the counter and the receipt of a disbursement.            *)
Pay(id, c, recipient, amount) ==
    /\ amount > 0
    /\ FirstUse(id)
    /\ InBudget(c, amount)
    /\ InVault(c, amount)
    /\ vault' = [vault EXCEPT ![c] = @ - amount]
    /\ withdrawn' = [withdrawn EXCEPT ![c] = @ + amount]
    /\ withdrawals' = [withdrawals EXCEPT ![id] =
           [category |-> c, recipient |-> recipient, amount |-> amount]]
    /\ UNCHANGED <<authority, kind, router, settled, paid, claims, buybacks,
                   automation, rewardVaults>>

-----------------------------------------------------------------------------
(* No policy, no records; lamports may already sit at the derived          *)
(* addresses of the router and of the vaults.                              *)
Init ==
    /\ authority \in Authorities
    /\ kind = "none"
    /\ router = 0
    /\ vault = [c \in Categories |-> 0]
    /\ settled = 0
    /\ paid = [c \in Categories |-> 0]
    /\ withdrawn = [c \in Categories |-> 0]
    /\ released = [b \in Beneficiaries |-> 0]
    /\ claims = [id \in ClaimIds |-> NoClaim]
    /\ approvals = [id \in WithdrawalIds |-> NoApproval]
    /\ withdrawals = [id \in WithdrawalIds |-> NoWithdrawal]
    /\ buybacks = [id \in BuybackIds |-> 0]
    /\ automation = NoAutomation
    /\ rewardVaults = {}

(* initialize_mint_v3 and initialize_protected_mint_v3: the creator pays   *)
(* what the router account lacks to its rent and keeps the rest there.     *)
InitializeMint(k) ==
    /\ kind = "none"
    /\ kind' = k
    /\ router' = IF router < RouterRent THEN RouterRent ELSE router
    /\ UNCHANGED <<authority, vault, policyVars, recordVars, automation, rewardVaults>>

(* Creator fees, and lamports anybody sends, arrive at the router.         *)
Deposit(amount) ==
    /\ amount > 0
    /\ router + amount <= MaxRouter
    /\ router' = router + amount
    /\ UNCHANGED <<authority, kind, vault, policyVars, recordVars, automation, rewardVaults>>

(* Anybody can send lamports to a vault's address.                         *)
Donate(c, amount) ==
    /\ amount > 0
    /\ vault[c] + amount <= MaxDonation
    /\ vault' = [vault EXCEPT ![c] = @ + amount]
    /\ UNCHANGED <<authority, kind, router, policyVars, recordVars, automation, rewardVaults>>

(* rotate_authority.  The app owner and both keys sign; a batch may be     *)
(* sent again, when the new key is already in the header.  Version 3       *)
(* accounts are not rewritten.                                             *)
Rotate(old, new) ==
    /\ old # new
    /\ authority \in {old, new}
    /\ authority' = new
    /\ UNCHANGED <<kind, router, vault, policyVars, recordVars, automation, rewardVaults>>

(* initialize_reward_vault: the current authority's vault for this mint.   *)
InitializeRewardVault(signer) ==
    /\ IsCurrent(signer)
    /\ signer \notin rewardVaults
    /\ rewardVaults' = rewardVaults \cup {signer}
    /\ UNCHANGED <<authority, kind, router, vault, policyVars, recordVars, automation>>

(* Fault: a claim record is opened again.                                  *)
FirstClaim_Reopened(id) == TRUE

(* The claim account of this id is created by this instruction.            *)
FirstClaim(id) == claims[id] = NoClaim

(* settle_mint_v3 and settle_mint_v3_auto.  The paid counters become the   *)
(* targets of the new total, category by category.                         *)
Settle(signer, id, amount) ==
    LET targets == CategoryTargets(settled + amount)
        allocation == [c \in Categories |-> targets[c] - paid[c]]
    IN  /\ kind # "none"
        /\ IsCurrent(signer)
        /\ FirstClaim(id)
        /\ amount > 0
        /\ RouterRent + amount <= router
        /\ AllocationExists(targets)
        /\ router' = router - Total7(allocation)
        /\ vault' = FundedVaults(allocation)
        /\ paid' = targets
        /\ settled' = settled + amount
        /\ claims' = [claims EXCEPT ![id] = [total |-> amount, parts |-> allocation]]
        /\ UNCHANGED <<authority, kind, withdrawn, released, approvals, withdrawals,
                       buybacks, automation, rewardVaults>>

(* initialize_mint_automation_v3: once per mint, protected policies only.  *)
InitializeAutomation(signer, recipients) ==
    /\ IsCurrent(signer)
    /\ kind = "protected"
    /\ automation = NoAutomation
    /\ recipients[1] # Unset
    /\ automation' = recipients
    /\ UNCHANGED <<authority, kind, router, vault, policyVars, recordVars, rewardVaults>>

(* approve_protected_withdrawal_v3 *)
Approve(signer, creatorSigns, id, c, recipient, amount) ==
    /\ IsCurrent(signer)
    /\ kind = "protected"
    /\ Authorize(creatorSigns, c, recipient)
    /\ approvals[id] = NoApproval
    /\ amount > 0
    /\ c \in Approved
    /\ recipient # Creator
    /\ approvals' = [approvals EXCEPT ![id] =
           [category |-> c, recipient |-> recipient, amount |-> amount, consumed |-> FALSE]]
    /\ UNCHANGED <<authority, kind, router, vault, policyVars, claims, withdrawals,
                   buybacks, automation, rewardVaults>>

(* disburse_mint_v3: the creator signs every release of an unprotected     *)
(* mint, and only the destination of categories 0 and 5 is constrained.    *)
DisburseStandard(signer, id, c, recipient, amount) ==
    /\ kind = "standard"
    /\ IsCurrent(signer)
    /\ CreatorOnline
    /\ c # BuybackCategory
    /\ \/ c = CreatorDirected /\ recipient = Creator
       \/ c \in {CreatorDirected, Community} /\ IsRewardVault(signer, recipient)
       \/ c \in Approved /\ recipient \in Wallets
    /\ Pay(id, c, recipient, amount)
    /\ UNCHANGED <<released, approvals>>

(* disburse_protected_mint_v3, category 0: "shares" is what each directed  *)
(* beneficiary has been released after it.                                 *)
DisburseDirected(signer, creatorSigns, id, recipient, amount, shares) ==
    /\ kind = "protected"
    /\ IsCurrent(signer)
    /\ Authorize(creatorSigns, CreatorDirected, recipient)
    /\ SharesWithinTargets(shares)
    /\ released' = shares
    /\ Pay(id, CreatorDirected, recipient, amount)
    /\ UNCHANGED approvals

(* beneficiary 0: the creator's own share.                                 *)
DisburseToCreator(signer, creatorSigns, id, amount) ==
    DisburseDirected(signer, creatorSigns, id, Creator, amount,
        [released EXCEPT ![0] = @ + amount])

(* beneficiary 1: the holders' and the X claimants' shares, both held by   *)
(* the reward vault of the current authority.                              *)
DisburseToClaimants(signer, creatorSigns, id, amount, holder) ==
    /\ holder <= amount
    /\ signer \in rewardVaults
    /\ DisburseDirected(signer, creatorSigns, id, RewardVaultOf(signer), amount,
           [released EXCEPT ![1] = @ + holder, ![2] = @ + (amount - holder)])

(* Fault: the approved amount is not compared.                             *)
MatchesApproval_AnyAmount(id, c, recipient, amount) ==
    /\ approvals[id].category = c
    /\ approvals[id].recipient = recipient
    /\ ~approvals[id].consumed

(* categories 1 to 4: against an approval of exactly this payment.         *)
MatchesApproval(id, c, recipient, amount) ==
    approvals[id] =
        [category |-> c, recipient |-> recipient, amount |-> amount, consumed |-> FALSE]

DisburseApproved(signer, creatorSigns, id, c, recipient, amount) ==
    /\ kind = "protected"
    /\ IsCurrent(signer)
    /\ Authorize(creatorSigns, c, recipient)
    /\ c \in Approved
    /\ MatchesApproval(id, c, recipient, amount)
    /\ approvals' = [approvals EXCEPT ![id].consumed = TRUE]
    /\ Pay(id, c, recipient, amount)
    /\ UNCHANGED released

(* category 5: the community budget enters the reward vault.               *)
DisburseCommunity(signer, creatorSigns, id, amount) ==
    /\ kind = "protected"
    /\ IsCurrent(signer)
    /\ Authorize(creatorSigns, Community, RewardVaultOf(signer))
    /\ signer \in rewardVaults
    /\ Pay(id, Community, RewardVaultOf(signer), amount)
    /\ UNCHANGED <<released, approvals>>

(* buyback_mint_v3.  The purchase at PumpSwap decides how much of the      *)
(* authorised debit is spent; what is not spent returns to the vault.      *)
Buyback(signer, id, maxDebit, spent) ==
    /\ kind # "none"
    /\ IsCurrent(signer)
    /\ buybacks[id] = 0
    /\ InBudget(BuybackCategory, maxDebit)
    /\ InVault(BuybackCategory, maxDebit)
    /\ spent > 0
    /\ spent <= maxDebit
    /\ vault' = [vault EXCEPT ![BuybackCategory] = @ - spent]
    /\ withdrawn' = [withdrawn EXCEPT ![BuybackCategory] = @ + spent]
    /\ buybacks' = [buybacks EXCEPT ![id] = spent]
    /\ UNCHANGED <<authority, kind, router, settled, paid, released, claims, approvals,
                   withdrawals, automation, rewardVaults>>

-----------------------------------------------------------------------------
Funding ==
    \/ \E k \in {"standard", "protected"} : InitializeMint(k)
    \/ \E amount \in Collections : Deposit(amount)
    \/ \E c \in DonationTargets, amount \in Payments : Donate(c, amount)
    \/ \E a \in Authorities, id \in ClaimIds, amount \in Collections : Settle(a, id, amount)

Administration ==
    \/ \E old, new \in Authorities : Rotate(old, new)
    \/ \E a \in Authorities : InitializeRewardVault(a)
    \/ \E a \in Authorities, r \in AutomationChoices : InitializeAutomation(a, r)
    \/ \E a \in Authorities, s \in Signatures, id \in WithdrawalIds, c \in Categories,
          w \in Wallets, amount \in Payments : Approve(a, s, id, c, w, amount)

Spending ==
    \/ \E a \in Authorities, id \in WithdrawalIds, c \in Categories, r \in Recipients,
          amount \in Payments : DisburseStandard(a, id, c, r, amount)
    \/ \E a \in Authorities, s \in Signatures, id \in WithdrawalIds, amount \in Payments :
          \/ DisburseToCreator(a, s, id, amount)
          \/ \E holder \in Payments : DisburseToClaimants(a, s, id, amount, holder)
          \/ \E c \in Categories, w \in Wallets : DisburseApproved(a, s, id, c, w, amount)
          \/ DisburseCommunity(a, s, id, amount)
    \/ \E a \in Authorities, id \in BuybackIds, maxDebit, spent \in Debits :
          Buyback(a, id, maxDebit, spent)

Next == Funding \/ Administration \/ Spending

Spec == Init /\ [][Next]_vars

-----------------------------------------------------------------------------
(* What the program promises.                                              *)

(* SplitExact: after any sequence of settlements, however small, the seven *)
(* budgets add up to the lamports settled: none is lost or created         *)
(* (settle_collection, which overwrites paid with the new targets).        *)
SplitExact == Total7(paid) = settled

(* VaultsSolvent: what is left of a funded budget is in its vault, above   *)
(* the rent reserve, whatever was donated, topped up or bought back, so    *)
(* the balance check never refuses a payment the budget check allows.      *)
VaultsSolvent ==
    \A c \in Categories :
        /\ withdrawn[c] <= paid[c]
        /\ paid[c] > 0 => vault[c] >= VaultRent + (paid[c] - withdrawn[c])

(* RecordsExplainBudgets: the records on the chain, which the application  *)
(* reconciles with its own, explain every number of the policy.  The claim *)
(* records add up to the settled total and to every budget, and a category *)
(* has spent what its receipts and, for category 6, the buyback receipts   *)
(* say: no record is missing, and none was opened or written twice.        *)
ClaimsExplainBudgets ==
    /\ settled = SumFunction([id \in ClaimIds |-> claims[id].total])
    /\ \A c \in Categories :
          paid[c] = SumFunction([id \in ClaimIds |-> claims[id].parts[c]])

ReceiptsExplainSpending ==
    \A c \in Categories :
        withdrawn[c] =
            SumFunction([id \in {id \in WithdrawalIds : withdrawals[id].category = c} |->
                            withdrawals[id].amount])
            + IF c = BuybackCategory THEN SumFunction(buybacks) ELSE 0

RecordsExplainBudgets == ClaimsExplainBudgets /\ ReceiptsExplainSpending

(* DirectedSharesKept: of the creator-directed budget no beneficiary is    *)
(* released a whole lamport more than its units are worth, and the three   *)
(* counters account for everything that left the vault.  (The targets      *)
(* themselves are not an upper bound: that of the middle share can shrink  *)
(* by a lamport after a later settlement.)                                 *)
DirectedSharesKept ==
    kind = "protected" =>
        /\ Total3(released) = withdrawn[CreatorDirected]
        /\ \A b \in Beneficiaries :
              DirectedTotal * released[b] < paid[CreatorDirected] * DirectedUnits[b] + DirectedTotal

(* ApprovalsSpentOnce: of a protected mint, an operations or referral      *)
(* receipt and a consumed approval imply each other, with the same         *)
(* category, recipient and amount.                                         *)
ApprovalsSpentOnce ==
    kind = "protected" =>
        \A id \in WithdrawalIds :
            LET a == approvals[id]
                w == withdrawals[id]
            IN  /\ w.category \in Approved <=> a.consumed
                /\ a.consumed => w = [category |-> a.category, recipient |-> a.recipient,
                                      amount |-> a.amount]

(* OfflinePayoutsFrozen: while the creator's key is gone, no authority,    *)
(* past or future, can pay operations or referral money to anybody the     *)
(* automation record does not name (automation_v3::authorize).             *)
OfflinePayoutsFrozen ==
    ~CreatorOnline /\ kind = "protected" =>
        \A id \in WithdrawalIds :
            LET w == withdrawals[id]
            IN  w.category \in Approved => w.recipient = automation[w.category]

(* BudgetsOnlyGrow: a settlement never takes back what a category was      *)
(* already assigned, although a target of the new total may be smaller     *)
(* (a part of LedgerKept that the proofs state by itself).                 *)
BudgetsOnlyGrow == [][\A c \in Categories : paid'[c] >= paid[c]]_vars

(* PaidToCurrentVault: a payment into a reward vault enters the vault of   *)
(* the authority of that moment, never that of a rotated-out key whose     *)
(* cycles can no longer be created.                                        *)
PaidToCurrentVault ==
    [][\A id \in WithdrawalIds, a \in Authorities :
          /\ withdrawals'[id] # withdrawals[id]
          /\ withdrawals'[id].recipient = RewardVaultOf(a)
          => a = authority]_vars

(* LargeCollectionSettles: a collection worth at least one lamport to      *)
(* every category that has units is never refused for rounding, whatever   *)
(* was settled before (checked_sub at settle_collection).                  *)
WorthALamportEverywhere(amount) ==
    \A c \in Categories : Units[c] > 0 => amount * Units[c] >= TotalUnits

LargeCollectionSettles ==
    \A amount \in Collections :
        WorthALamportEverywhere(amount) =>
            AllocationExists(CategoryTargets(settled + amount))

-----------------------------------------------------------------------------
(* The receipts of the ledger: withdrawals and buybacks together.          *)
Receipts == [id \in WithdrawalIds \cup BuybackIds |->
    IF id \in WithdrawalIds
    THEN [category |-> withdrawals[id].category, amount |-> withdrawals[id].amount]
    ELSE [category |-> IF buybacks[id] = 0 THEN 0 ELSE BuybackCategory,
          amount |-> buybacks[id]]]

Ledger == INSTANCE BudgetLedger WITH
    ReceiptIds <- WithdrawalIds \cup BuybackIds, Total <- Total7,
    collected <- settled, funded <- paid, spent <- withdrawn, receipts <- Receipts

(* LedgerKept: a settlement is one assignment of everything collected,     *)
(* every disbursement or buyback spends one category against one unused    *)
(* receipt, and nothing else touches the budgets.                          *)
LedgerKept == Ledger!Spec
=============================================================================
