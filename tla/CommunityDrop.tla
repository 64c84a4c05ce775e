---------------------------- MODULE CommunityDrop ----------------------------
(***************************************************************************)
(* The community airdrop of one mint, together with the reward vaults its  *)
(* tokens may come from.  The app owner approves the holder snapshot taken *)
(* at the migration; the current authority opens a drop of exactly that    *)
(* snapshot, with the creator's tokens or with the tokens escrowed in its  *)
(* reward vault; holders are paid until the drop expires; then anybody     *)
(* sends the remainder back to that authority (drop.app_owner).            *)
(*                                                                         *)
(* A step is a step of RewardVault or of the drop; opening a drop from a   *)
(* reward vault is a step of both.                                         *)
(***************************************************************************)
EXTENDS RewardVault

CONSTANTS
    MintToken,     \* the launched token itself
    Snapshots,     \* leaf sequences of snapshots, with their total
    MigrationAt,   \* block time of the migration
    Windows,       \* claim windows: the default and a mint policy's own
    MaxGift        \* bound: tokens third parties leave in a drop's vault

DropRecords ==
    [opened : BOOLEAN, closed : BOOLEAN, leaves : Seq(Leaves), total : Nat, claimed : Nat,
     expiresAt : Nat, paid : [Recipients -> Nat]]

NoDrop ==
    [opened |-> FALSE, closed |-> FALSE, leaves |-> <<>>, total |-> 0, claimed |-> 0,
     expiresAt |-> 0, paid |-> [r \in Recipients |-> 0]]

SnapshotRecords == [leaves : Seq(Leaves), total : Nat]

(* No approval account: every approved total is positive.                  *)
NoSnapshot == [leaves |-> <<>>, total |-> 0]

ASSUME DropAssumption ==
    /\ MintToken \in Assets \ {Sol}
    /\ MigrationAt \in Nat \ {0}
    /\ Windows \subseteq Nat
    /\ MaxGift \in Nat
    /\ Snapshots \subseteq SnapshotRecords
    /\ \A s \in Snapshots : Len(s.leaves) <= MaxLeaves

VARIABLES
    snapshots,   \* the approval account of each authority
    drops,       \* the drop account of each authority, with its payments
    dropVault    \* tokens in the drop's token account

dropVars == <<snapshots, drops, dropVault>>

DropTypeOK ==
    /\ TypeOK
    /\ snapshots \in [Authorities -> SnapshotRecords]
    /\ drops \in [Authorities -> DropRecords]
    /\ dropVault \in [Authorities -> Nat]

-----------------------------------------------------------------------------
(* The migration is past and the window that starts with it is not over.   *)
InWindow(window) == MigrationAt <= now /\ now < MigrationAt + window

(* Fault: the escrow may be larger or smaller than the snapshot.           *)
EscrowMatches_AnyAmount(signer) == balance[<<signer, MintToken>>] > 0

(* The whole escrow is the snapshot's total.                               *)
EscrowMatches(signer) == balance[<<signer, MintToken>>] = snapshots[signer].total

(* Fault: cycles that still owe tokens are not looked at.                  *)
NothingReserved_Unchecked(signer) == TRUE

(* No reserve account for the token (nor lamports at its address), or one  *)
(* that owes nothing.                                                      *)
NothingReserved(signer) ==
    <<signer, MintToken>> \in reserves => outstanding[<<signer, MintToken>>] = 0

(* Fault: the payment account of this holder may exist.                    *)
FirstClaim_Reopened(a, r) == TRUE

(* The payment account is created by this claim.                           *)
FirstClaim(a, r) == drops[a].paid[r] = 0

(* Fault: the amount of the leaf is paid whatever remains.                 *)
Claimable_Unchecked(a, amount) == TRUE

(* The drop's total and its token account both cover the claim.            *)
Claimable(a, amount) ==
    /\ drops[a].claimed + amount <= drops[a].total
    /\ amount <= dropVault[a]

(* Fault: an open drop is closed whatever the time.                        *)
CloseEligible_AnyTime(d) == d.opened /\ ~d.closed

(* close_eligible *)
CloseEligible(d) == d.opened /\ ~d.closed /\ now >= d.expiresAt

(* fill_drop and assert_snapshot_approval: the new drop account, which     *)
(* equals the approved snapshot in every field.                            *)
OpenDrop(signer, window) ==
    /\ signer = authority
    /\ ~drops[signer].opened
    /\ dropVault[signer] = 0
    /\ snapshots[signer] # NoSnapshot
    /\ InWindow(window)
    /\ MintToken \notin FeeBearing
    /\ drops' = [drops EXCEPT ![signer] =
           [opened |-> TRUE, closed |-> FALSE, leaves |-> snapshots[signer].leaves,
            total |-> snapshots[signer].total, claimed |-> 0,
            expiresAt |-> MigrationAt + window, paid |-> [r \in Recipients |-> 0]]]
    /\ UNCHANGED <<now, authority, vaults, reserves, outstanding, cycles, snapshots>>

-----------------------------------------------------------------------------
DropInit ==
    /\ Init
    /\ snapshots = [a \in Authorities |-> NoSnapshot]
    /\ drops = [a \in Authorities |-> NoDrop]
    /\ dropVault = [a \in Authorities |-> 0]

(* approve_community_snapshot, signed by the app owner, once per authority *)
(* (which need not be the current one).                                    *)
ApproveSnapshot(a, s, window) ==
    /\ snapshots[a] = NoSnapshot
    /\ s.total > 0
    /\ Len(s.leaves) > 0
    /\ InWindow(window)
    /\ snapshots' = [snapshots EXCEPT ![a] = s]
    /\ UNCHANGED <<vars, drops, dropVault>>

(* initialize_community_drop: the creator signs and pays.                  *)
OpenFromCreator(signer, window) ==
    /\ OpenDrop(signer, window)
    /\ dropVault' = [dropVault EXCEPT ![signer] = snapshots[signer].total]
    /\ UNCHANGED balance

(* initialize_community_drop_from_reward_vault: all tokens of the vault.   *)
OpenFromRewardVault(signer, window) ==
    /\ signer \in vaults
    /\ NothingReserved(signer)
    /\ EscrowMatches(signer)
    /\ OpenDrop(signer, window)
    /\ dropVault' = [dropVault EXCEPT ![signer] = balance[<<signer, MintToken>>]]
    /\ balance' = [balance EXCEPT ![<<signer, MintToken>>] = 0]

(* Anybody can send tokens to the drop's token account.                    *)
Gift(a, amount) ==
    /\ amount > 0
    /\ dropVault[a] + amount <= MaxGift
    /\ dropVault' = [dropVault EXCEPT ![a] = @ + amount]
    /\ UNCHANGED <<vars, snapshots, drops>>

(* claim_community_drop, signed by any payer.                              *)
Claim(a, i) ==
    LET d == drops[a]
        to == d.leaves[i].to
        amount == d.leaves[i].amount
    IN  /\ d.opened
        /\ ~d.closed
        /\ MigrationAt <= now /\ now < d.expiresAt
        /\ i \in DOMAIN d.leaves
        /\ amount > 0
        /\ FirstClaim(a, to)
        /\ Claimable(a, amount)
        /\ drops' = [drops EXCEPT ![a].claimed = @ + amount, ![a].paid[to] = amount]
        /\ dropVault' = [dropVault EXCEPT ![a] = @ - amount]
        /\ UNCHANGED <<vars, snapshots>>

(* close_community_drop: the remainder goes to drop.app_owner.             *)
Close(a) ==
    /\ CloseEligible(drops[a])
    /\ drops[a].total - drops[a].claimed <= dropVault[a]
    /\ drops' = [drops EXCEPT ![a].closed = TRUE]
    /\ dropVault' = [dropVault EXCEPT ![a] = 0]
    /\ UNCHANGED <<vars, snapshots>>

-----------------------------------------------------------------------------
DropStep ==
    \/ \E a \in Authorities, s \in Snapshots, w \in Windows : ApproveSnapshot(a, s, w)
    \/ \E a \in Authorities, w \in Windows : OpenFromCreator(a, w)
    \/ \E a \in Authorities, w \in Windows : OpenFromRewardVault(a, w)
    \/ \E a \in Authorities, amount \in Deposits : Gift(a, amount)
    \/ \E a \in Authorities, i \in 1..MaxLeaves : Claim(a, i)
    \/ \E a \in Authorities : Close(a)

VaultStep == Next /\ UNCHANGED dropVars

DropNext == VaultStep \/ DropStep

DropSpec == DropInit /\ [][DropNext]_<<vars, dropVars>>

-----------------------------------------------------------------------------
(* DropCovered: until it is closed, an open drop holds every token it has  *)
(* not paid, so the last holder of the snapshot can claim like the first.  *)
DropCovered ==
    \A a \in Authorities :
        drops[a].opened /\ ~drops[a].closed =>
            drops[a].total - drops[a].claimed <= dropVault[a]

(* EscrowLeavesPromises: emptying the vault's tokens into a drop takes     *)
(* nothing from published cycles: of no asset is more promised than held.  *)
EscrowLeavesPromises == CommitmentsCovered

(* ClaimsMatchSnapshot: the holders were paid leaves of the snapshot, each *)
(* holder once, together what the drop counts as claimed, and the drop is  *)
(* the approved snapshot.                                                  *)
ClaimsAreLeaves ==
    \A a \in Authorities :
        LET d == drops[a]
        IN  d.opened =>
            /\ [leaves |-> d.leaves, total |-> d.total] = snapshots[a]
            /\ d.claimed <= d.total
            /\ \A r \in Recipients : d.paid[r] > 0 =>
                  \E i \in DOMAIN d.leaves : d.leaves[i] = [to |-> r, amount |-> d.paid[r]]

ClaimsMatchSnapshot ==
    /\ ClaimsAreLeaves
    /\ \A a \in Authorities :
          drops[a].claimed = SumFunction(drops[a].paid)

(* SnapshotStaysClaimable: while an open drop's leaves fit in its total,   *)
(* every holder who has not claimed finds the total and the token account  *)
(* sufficient, however the others claimed and whatever the vaults did.     *)
SnapshotStaysClaimable ==
    \A a \in Authorities :
        LET d == drops[a]
        IN  d.opened /\ ~d.closed /\ LeavesWithinTotal(d) =>
            \A i \in DOMAIN d.leaves :
                d.paid[d.leaves[i].to] = 0 => Claimable(a, d.leaves[i].amount)

(* OnlyClaimsBeforeExpiry: until the drop expires its tokens leave only to *)
(* holders, and the counter records each of them; the remainder is swept   *)
(* afterwards, and never again.                                            *)
OnlyClaimsBeforeExpiry ==
    [][\A a \in Authorities :
          dropVault'[a] < dropVault[a] =>
            /\ drops[a].opened /\ ~drops[a].closed
            /\ now < drops[a].expiresAt =>
                  drops'[a].claimed - drops[a].claimed = dropVault[a] - dropVault'[a]
            /\ now >= drops[a].expiresAt =>
                  drops'[a].closed /\ drops'[a].claimed = drops[a].claimed]_<<vars, dropVars>>
=============================================================================
