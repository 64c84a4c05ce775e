--------------------------- MODULE MCRewardPeriods ---------------------------
(* RewardPeriods for TLC. *)
EXTENDS RewardPeriods, TLC

CONSTANTS usd, qa

(* The quality-assurance policy distributes smaller pools.                 *)
SmallerForQa == (usd :> 2) @@ (qa :> 1)
=============================================================================
