--------------------------- MODULE MCMintRouterV3 ---------------------------
(* Small instances of MintRouterV3 for TLC.                                *)
EXTENDS MintRouterV3, TLC

CONSTANTS keeper, nextKeeper, creator, ops, outsider, nobody,
          claim1, claim2, pay1, pay2, buy1

TwoKeepers == {keeper, nextKeeper}
OneKeeper == {keeper}
CreatorAndOps == {creator, ops}
ThreeWallets == {creator, ops, outsider}
TwoClaims == {claim1, claim2}
OneClaim == {claim1}
TwoPayments == {pay1, pay2}
OneBuyback == {buy1}
None == {}

(* One unit in twenty for operations, level 2, community and buyback: the  *)
(* 80% of the creator and the zero rates a configuration may contain.      *)
SmallUnits == (0 :> 16) @@ (1 :> 1) @@ (2 :> 0) @@ (3 :> 1) @@ (4 :> 0) @@ (5 :> 1) @@ (6 :> 1)

(* Creator 50%, holders 12.5%, X 37.5% of the creator-directed budget.     *)
DirectedEighths == (0 :> 4) @@ (1 :> 1) @@ (2 :> 3)

NoChoice == {NoAutomation}
OpsOrOutsider ==
    {[c \in Approved |-> IF c = 1 THEN w ELSE Unset] : w \in {ops, outsider}}

BuybackVault == {6}

(* Claim and withdrawal ids are interchangeable.                           *)
IdSymmetry == Permutations(ClaimIds) \cup Permutations(WithdrawalIds)
=============================================================================
