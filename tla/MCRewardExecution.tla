-------------------------- MODULE MCRewardExecution --------------------------
(* RewardExecution for TLC. *)
EXTENDS RewardExecution, TLC

CONSTANTS h, x

(* A holder period of two recipients before the claim of one. *)
TwoAndOne == (h :> 2) @@ (x :> 1)
HolderFirst == (h :> 1) @@ (x :> 2)
=============================================================================
