-------------------------- MODULE CumulativeSplit --------------------------
(***************************************************************************)
(* The rounding rule of every fee split in the router program.  A running  *)
(* total is cut at cumulative boundaries: boundary k is the floor of       *)
(* total * (units of the first k shares) / (all units), and a share is the *)
(* difference of two neighbouring boundaries.  policy_v3 uses it with      *)
(* seven categories, protected_v3 with the three creator-directed shares,  *)
(* agency_policy_v3 with the agent shares.                                 *)
(*                                                                         *)
(* The code computes the product in u128, where u64 * u32 cannot overflow, *)
(* and narrows the quotient, which is at most the u64 total: the naturals  *)
(* are the same function.                                                  *)
(***************************************************************************)
EXTENDS Naturals

(* The lamports of "total" that lie below the cut after "end" of "whole"   *)
(* units.                                                                  *)
Boundary(total, end, whole) == (total * end) \div whole

(* The lamports of the share between the cuts "start" and "end".           *)
Share(total, start, end, whole) ==
    Boundary(total, end, whole) - Boundary(total, start, whole)

(* The share grows or stays when "amount" more lamports are split: the     *)
(* condition under which checked_sub(paid) succeeds.                       *)
ShareKept(total, amount, start, end, whole) ==
    Share(total + amount, start, end, whole) >= Share(total, start, end, whole)
=============================================================================
