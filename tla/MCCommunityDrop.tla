--------------------------- MODULE MCCommunityDrop ---------------------------
(* Small instances of CommunityDrop for TLC.                               *)
EXTENDS CommunityDrop, TLC

CONSTANTS keeper, nextKeeper, sol, token, alice, bob, cycle1

TwoKeepers == {keeper, nextKeeper}
OneKeeper == {keeper}
SolAndToken == {sol, token}
NoToken == {}
TwoWallets == {alice, bob}
OneCycle == {cycle1}

Leaf(r, n) == [to |-> r, amount |-> n]

(* One recipient is enough for a cycle that competes for the escrow.       *)
OneTree == {<<Leaf(alice, 1)>>}

(* Two holders with a remainder, a holder in two leaves, and a leaf beyond *)
(* the total.                                                              *)
SomeSnapshots ==
    {[leaves |-> <<Leaf(alice, 1), Leaf(bob, 1)>>, total |-> 3],
     [leaves |-> <<Leaf(alice, 1), Leaf(alice, 2)>>, total |-> 2],
     [leaves |-> <<Leaf(alice, 1), Leaf(bob, 3)>>, total |-> 2]}

NoLegacy == [k \in {} |-> NoCycle]
=============================================================================
