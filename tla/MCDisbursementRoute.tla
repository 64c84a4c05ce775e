------------------------ MODULE MCDisbursementRoute ------------------------
(* DisbursementRoute for TLC. *)
EXTENDS DisbursementRoute, TLC

RequestSymmetry == Permutations(Requests)
=============================================================================
