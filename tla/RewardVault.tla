----------------------------- MODULE RewardVault -----------------------------
(***************************************************************************)
(* The reward vaults of one mint.  A vault belongs to the authority that   *)
(* created it and holds SOL and tokens; a reserve per asset records how    *)
(* much of the balance is promised to published cycles.  A cycle commits   *)
(* to a Merkle tree of payouts and a total; anybody may then submit a leaf *)
(* with its proof, and a payment account at an address derived from the    *)
(* cycle and the recipient makes the payout happen once.                   *)
(*                                                                         *)
(* One action models one handler (an instruction is atomic).  The SOL and  *)
(* token variants of a handler are one action: they differ in the asset    *)
(* and in how the available balance is read.  A tree is the sequence of    *)
(* its leaves; a proof is that the submitted payout is one of them.        *)
(* Leaves name wallets, never a vault.                                     *)
(***************************************************************************)
EXTENDS Integers, Sequences, FiniteSetsExt

CONSTANTS
    Authorities,   \* keys that can hold the router authority
    Assets,        \* the native asset and the token mints
    Sol,           \* Pubkey::default(), the native asset
    FeeBearing,    \* token mints whose transfers deliver less than the amount
    Recipients,    \* wallets that leaves name
    CycleIds,
    Commitments,   \* leaf sequences a cycle may commit to
    MaxLeaves,     \* bound: leaves of a commitment
    Totals,        \* totals a cycle may be created with
    Deposits,      \* amounts that reach a vault
    Rent,          \* minimum_balance of a vault account
    MaxBalance,    \* bound: what deposits leave in a vault, of each asset
    PayoutTimes,   \* values of payout_at
    MaxNow,        \* bound: the clock
    Legacy         \* cycles of the older layout, a function of <<authority, id>>

Keys == Authorities \X CycleIds
Reserves == Authorities \X Assets
Leaves == [to : Recipients, amount : Nat]

CycleRecords ==
    [stage : {"none", "legacy", "reserved"}, asset : Assets, leaves : Seq(Leaves),
     total : Nat, payoutAt : Nat, distributed : Nat, paid : [Recipients -> Nat]]

(* A cycle whose account does not exist.                                   *)
NoCycle ==
    [stage |-> "none", asset |-> Sol, leaves |-> <<>>, total |-> 0, payoutAt |-> 0,
     distributed |-> 0, paid |-> [r \in Recipients |-> 0]]

ASSUME AssetAssumption == Sol \in Assets /\ FeeBearing \subseteq Assets \ {Sol}
(* Keys and ids are 32-byte strings.                                       *)
ASSUME FiniteAssumption ==
    IsFiniteSet(Authorities) /\ IsFiniteSet(CycleIds) /\ IsFiniteSet(Recipients)
ASSUME AmountAssumption ==
    /\ Rent \in Nat
    /\ MaxBalance \in Nat
    /\ MaxNow \in Nat
    /\ Totals \subseteq Nat
    /\ Deposits \subseteq Nat
    /\ PayoutTimes \subseteq Nat \ {0}
ASSUME CommitmentAssumption ==
    /\ MaxLeaves \in Nat
    /\ \A leaves \in Commitments : leaves \in Seq(Leaves) /\ Len(leaves) <= MaxLeaves
ASSUME LegacyAssumption ==
    /\ DOMAIN Legacy \subseteq Keys
    /\ \A k \in DOMAIN Legacy :
          /\ Legacy[k] \in CycleRecords
          /\ Legacy[k].stage = "legacy"
          /\ Legacy[k].distributed <= Legacy[k].total
          /\ Legacy[k].distributed = SumFunction(Legacy[k].paid)
          /\ \A r \in Recipients : Legacy[k].paid[r] > 0 =>
                \E i \in DOMAIN Legacy[k].leaves :
                    Legacy[k].leaves[i] = [to |-> r, amount |-> Legacy[k].paid[r]]

VARIABLES
    now,          \* Clock::unix_timestamp
    authority,    \* authority in the global router header
    vaults,       \* authorities whose vault for this mint exists
    reserves,     \* <<authority, asset>> pairs whose reserve account exists
    balance,      \* lamports (rent included) or token amount of each vault
    outstanding,  \* reserve.outstanding
    cycles        \* cycle accounts, with the payments made under them

vars == <<now, authority, vaults, reserves, balance, outstanding, cycles>>

TypeOK ==
    /\ now \in Nat
    /\ authority \in Authorities
    /\ vaults \subseteq Authorities
    /\ reserves \subseteq Reserves
    /\ balance \in [Reserves -> Nat]
    /\ outstanding \in [Reserves -> Nat]
    /\ cycles \in [Keys -> CycleRecords]

-----------------------------------------------------------------------------
(* What a vault can promise or pay: lamports above the rent reserve        *)
(* (saturating_sub), or the whole token balance.                           *)
Available(v) ==
    IF v[2] # Sol THEN balance[v]
    ELSE IF balance[v] < Rent THEN 0 ELSE balance[v] - Rent

Unpaid(c) == c.total - c.distributed

(* assert_current_router_authority and has_one = authority *)
Owns(signer) == signer = authority /\ signer \in vaults

(* reserve.outstanding.checked_add *)
Committed(v, amount) == outstanding[v] + amount

(* Fault: only the new cycle is compared with the balance.                 *)
Coverable_NewOnly(v, amount) == amount <= Available(v)

(* Everything committed, the new cycle included, is in the vault.          *)
Coverable(v, amount) == Committed(v, amount) <= Available(v)

(* Fault: a cycle account is written again.                                *)
FirstCycle_Reopened(k) == TRUE

(* The cycle account is created by this instruction.                       *)
FirstCycle(k) == cycles[k].stage = "none"

(* Fault: the layout is not compared, a migrated cycle migrates again.     *)
IsLegacy_AnyLayout(k) == cycles[k].stage # "none"

(* The account has the size of the older layout.                           *)
IsLegacy(k) == cycles[k].stage = "legacy"

(* The payment account is created by this instruction.                     *)
FirstPayment(k, r) == cycles[k].paid[r] = 0

(* Fault: the amount of the leaf is paid whatever remains.                 *)
Affordable_Unchecked(c, v, amount) == TRUE


(* The cycle, the reserve and the vault all cover the payment.             *)
Affordable(c, v, amount) ==
    /\ c.distributed + amount <= c.total
    /\ amount <= outstanding[v]
    /\ amount <= Available(v)

-----------------------------------------------------------------------------
Init ==
    /\ now = 0
    /\ authority \in Authorities
    /\ vaults = {k[1] : k \in DOMAIN Legacy}
    /\ reserves = {}
    /\ balance = [v \in Reserves |-> IF v[2] = Sol /\ v[1] \in vaults THEN Rent ELSE 0]
    /\ outstanding = [v \in Reserves |-> 0]
    /\ cycles = [k \in Keys |-> IF k \in DOMAIN Legacy THEN Legacy[k] ELSE NoCycle]

Tick ==
    /\ now < MaxNow
    /\ now' = now + 1
    /\ UNCHANGED <<authority, vaults, reserves, balance, outstanding, cycles>>

(* Disbursements of the router, escrowed launch tokens, anybody's gift.    *)
Fund(v, amount) ==
    /\ amount > 0
    /\ balance[v] + amount <= MaxBalance
    /\ balance' = [balance EXCEPT ![v] = @ + amount]
    /\ UNCHANGED <<now, authority, vaults, reserves, outstanding, cycles>>

(* rotate_authority: vaults, reserves and cycles are not rewritten.        *)
Rotate(new) ==
    /\ authority' = new
    /\ UNCHANGED <<now, vaults, reserves, balance, outstanding, cycles>>

(* initialize_reward_vault: the creation pays what the rent lacks.         *)
InitializeVault(signer) ==
    /\ signer = authority
    /\ signer \notin vaults
    /\ vaults' = vaults \cup {signer}
    /\ balance' = [balance EXCEPT ![<<signer, Sol>>] = IF @ < Rent THEN Rent ELSE @]
    /\ UNCHANGED <<now, authority, reserves, outstanding, cycles>>

(* initialize_reward_reserve *)
InitializeReserve(signer, asset) ==
    /\ Owns(signer)
    /\ <<signer, asset>> \notin reserves
    /\ reserves' = reserves \cup {<<signer, asset>>}
    /\ outstanding' = [outstanding EXCEPT ![<<signer, asset>>] = 0]
    /\ UNCHANGED <<now, authority, vaults, balance, cycles>>

(* create_reward_cycle and create_reward_cycle_token.  The ids of SOL and  *)
(* token cycles are the same addresses.  Nothing compares the total with   *)
(* the leaves.                                                             *)
CreateCycle(signer, id, asset, leaves, total, payoutAt) ==
    LET v == <<signer, asset>>
        k == <<signer, id>>
    IN  /\ Owns(signer)
        /\ v \in reserves
        /\ FirstCycle(k)
        /\ total > 0
        /\ Len(leaves) > 0
        /\ Coverable(v, total)
        /\ outstanding' = [outstanding EXCEPT ![v] = Committed(v, total)]
        /\ cycles' = [cycles EXCEPT ![k] =
               [stage |-> "reserved", asset |-> asset, leaves |-> leaves, total |-> total,
                payoutAt |-> payoutAt, distributed |-> 0, paid |-> [r \in Recipients |-> 0]]]
        /\ UNCHANGED <<now, authority, vaults, reserves, balance>>

(* migrate_reward_cycle_sol and migrate_reward_cycle_token: what a legacy  *)
(* cycle still owes is added to the reserve, and the account is resized.   *)
MigrateCycle(signer, id) ==
    LET k == <<signer, id>>
        v == <<signer, cycles[k].asset>>
    IN  /\ Owns(signer)
        /\ v \in reserves
        /\ IsLegacy(k)
        /\ cycles[k].distributed <= cycles[k].total
        /\ Coverable(v, Unpaid(cycles[k]))
        /\ outstanding' = [outstanding EXCEPT ![v] = Committed(v, Unpaid(cycles[k]))]
        /\ cycles' = [cycles EXCEPT ![k].stage = "reserved"]
        /\ UNCHANGED <<now, authority, vaults, reserves, balance>>

(* payout_reward_sol and payout_reward_token, signed by any payer and for  *)
(* the vault of any authority.  A fee-bearing token fails the check of     *)
(* exact delivery.                                                         *)
Payout(k, i) ==
    LET c == cycles[k]
        v == <<k[1], c.asset>>
        to == c.leaves[i].to
        amount == c.leaves[i].amount
    IN  /\ c.stage = "reserved"
        /\ i \in DOMAIN c.leaves
        /\ v \in reserves
        /\ amount > 0
        /\ now >= c.payoutAt
        /\ FirstPayment(k, to)
        /\ Affordable(c, v, amount)
        /\ c.asset \notin FeeBearing
        /\ cycles' = [cycles EXCEPT ![k].distributed = @ + amount, ![k].paid[to] = amount]
        /\ outstanding' = [outstanding EXCEPT ![v] = @ - amount]
        /\ balance' = [balance EXCEPT ![v] = @ - amount]
        /\ UNCHANGED <<now, authority, vaults, reserves>>

-----------------------------------------------------------------------------
Next ==
    \/ Tick
    \/ \E v \in Reserves, amount \in Deposits : Fund(v, amount)
    \/ \E new \in Authorities \ {authority} : Rotate(new)
    \/ \E a \in Authorities : InitializeVault(a)
    \/ \E a \in Authorities, asset \in Assets : InitializeReserve(a, asset)
    \/ \E a \in Authorities, id \in CycleIds, asset \in Assets, leaves \in Commitments,
          total \in Totals, payoutAt \in PayoutTimes :
          CreateCycle(a, id, asset, leaves, total, payoutAt)
    \/ \E a \in Authorities, id \in CycleIds : MigrateCycle(a, id)
    \/ \E k \in Keys, i \in 1..MaxLeaves : Payout(k, i)

Spec == Init /\ [][Next]_vars

(* The clock advances, and while a cycle can pay a leaf, one is submitted  *)
(* in the end: the instruction is open to everybody, and the reward worker *)
(* resubmits every leaf whose payment account it does not find.            *)
FairSpec ==
    /\ Spec
    /\ WF_vars(Tick)
    /\ \A k \in Keys : WF_vars(\E i \in 1..MaxLeaves : Payout(k, i))

-----------------------------------------------------------------------------
(* CommitmentsCovered: what is promised to published cycles is in the      *)
(* vault above its rent reserve, whatever was created, migrated or paid    *)
(* before, in the vaults of former authorities too.                        *)
CommitmentsCovered == \A v \in Reserves : outstanding[v] <= Available(v)

(* PaymentsMatchLeaves, WithinTotal: every payment is one leaf of its      *)
(* cycle, and a cycle never pays more than its total.                      *)
PaymentsMatchLeaves ==
    \A k \in Keys, r \in Recipients :
        cycles[k].paid[r] > 0 =>
            \E i \in DOMAIN cycles[k].leaves :
                cycles[k].leaves[i] = [to |-> r, amount |-> cycles[k].paid[r]]

WithinTotal == \A k \in Keys : cycles[k].distributed <= cycles[k].total

(* The cycles whose payouts come from the reserve of v.                    *)
ReservedFrom(v) ==
    {k \in Keys : k[1] = v[1] /\ cycles[k].asset = v[2] /\ cycles[k].stage = "reserved"}

(* PaymentsExplainReserves: payments are leaves within the total and add   *)
(* up to the distributed amount, so nobody is paid twice; and the reserve  *)
(* is the sum of what its cycles still owe, so nothing stays reserved for  *)
(* a cycle that has paid its total, and no cycle is reserved twice.        *)
PaymentsExplainReserves ==
    /\ PaymentsMatchLeaves
    /\ WithinTotal
    /\ \A k \in Keys :
          cycles[k].distributed = SumFunction(cycles[k].paid)
    /\ \A v \in Reserves :
          outstanding[v] =
              SumFunction([k \in ReservedFrom(v) |-> Unpaid(cycles[k])])

LeavesWithinTotal(c) ==
    SumFunction([i \in DOMAIN c.leaves |-> c.leaves[i].amount]) <= c.total

(* UnpaidLeavesAffordable: while a published cycle's leaves fit in its     *)
(* total, no payout of it or of another cycle, no migration, rotation or   *)
(* later cycle makes a leaf unpayable: whoever was not paid yet finds the  *)
(* cycle's total, the reserve and the vault sufficient for the leaf (the   *)
(* checks of validate_payment and of the payout handlers all pass).        *)
UnpaidLeavesAffordable ==
    \A k \in Keys :
        LET c == cycles[k]
            v == <<k[1], c.asset>>
        IN  c.stage = "reserved" /\ LeavesWithinTotal(c) =>
            /\ v \in reserves
            /\ \A i \in DOMAIN c.leaves :
                  c.paid[c.leaves[i].to] = 0 => Affordable(c, v, c.leaves[i].amount)

(* CommitmentsFixed: once published, a cycle's asset, leaves, total and    *)
(* payout time never change, and no payment is forgotten, through          *)
(* rotations and migrations.                                               *)
CommitmentsFixed ==
    [][\A k \in Keys :
          cycles[k].stage # "none" =>
            /\ cycles'[k].stage \in {cycles[k].stage, "reserved"}
            /\ cycles'[k].asset = cycles[k].asset
            /\ cycles'[k].leaves = cycles[k].leaves
            /\ cycles'[k].total = cycles[k].total
            /\ cycles'[k].payoutAt = cycles[k].payoutAt
            /\ \A r \in Recipients :
                  cycles[k].paid[r] > 0 => cycles'[k].paid[r] = cycles[k].paid[r]]_vars

(* A cycle the service publishes: one leaf per recipient, whose amounts    *)
(* the total covers, of an asset that can be delivered exactly.            *)
WellFormed(c) ==
    /\ c.stage = "reserved"
    /\ \A i, j \in DOMAIN c.leaves : i # j => c.leaves[i].to # c.leaves[j].to
    /\ LeavesWithinTotal(c)
    /\ c.asset \notin FeeBearing
    /\ c.payoutAt <= MaxNow

AllPaid(c) == \A i \in DOMAIN c.leaves : c.paid[c.leaves[i].to] = c.leaves[i].amount

=============================================================================
