---------------------------- MODULE MCRewardVault ----------------------------
(* Small instances of RewardVault for TLC.                                 *)
EXTENDS RewardVault, TLC

CONSTANTS keeper, nextKeeper, sol, token, alice, bob, cycle1, cycle2

TwoKeepers == {keeper, nextKeeper}
SolAndToken == {sol, token}
NoTax == {}
TwoWallets == {alice, bob}
TwoCycles == {cycle1, cycle2}

Leaf(r, n) == [to |-> r, amount |-> n]

(* Trees for a total of 2: one it covers, and one that names a recipient   *)
(* twice and whose leaves are worth more than the total.                   *)
Trees == {<<Leaf(alice, 1), Leaf(bob, 1)>>,
          <<Leaf(alice, 1), Leaf(alice, 3)>>}

(* A cycle of the older layout that has paid one of its two leaves.        *)
HalfPaid == [k \in {<<keeper, cycle1>>} |->
    [stage |-> "legacy", asset |-> sol, leaves |-> <<Leaf(alice, 1), Leaf(bob, 1)>>,
     total |-> 2, payoutAt |-> 1, distributed |-> 1,
     paid |-> [r \in TwoWallets |-> IF r = alice THEN 1 ELSE 0]]]

=============================================================================
