------------------------ MODULE MintRouterV3_proofs ------------------------
(* Theorems about the fee router of one mint, for every choice of its      *)
(* constants.                                                              *)
EXTENDS MintRouterV3, SumTheorems

-----------------------------------------------------------------------------
(* What the cumulative rounding rule guarantees for every total.           *)

(* The quotient the code computes is the floor.                            *)
LEMMA DivisionFloor ==
    ASSUME NEW x \in Nat, NEW whole \in Nat, whole > 0
    PROVE  /\ x \div whole \in Nat
           /\ whole * (x \div whole) <= x
           /\ x < whole * (x \div whole) + whole
  BY SMTT(30)

LEMMA ProductInNat == ASSUME NEW x \in Nat, NEW y \in Nat PROVE x * y \in Nat
  BY SMT

LEMMA MulMonotone ==
    ASSUME NEW x \in Nat, NEW y \in Nat, NEW z \in Nat, x <= y
    PROVE  z * x <= z * y /\ x * z <= y * z
  BY SMT

LEMMA MulDistributes ==
    ASSUME NEW x \in Int, NEW y \in Int, NEW z \in Int
    PROVE  /\ z * (x + y) = z * x + z * y
           /\ z * (x - y) = z * x - z * y
           /\ (x + y) * z = x * z + y * z
           /\ (x - y) * z = x * z - y * z
  BY SMT

(* Cancellation: an inequality of multiples is one of the factors.         *)
LEMMA MulCancel ==
    ASSUME NEW x \in Int, NEW y \in Int, NEW whole \in Nat, whole > 0,
           whole * x < whole * y + whole
    PROVE  x <= y
  BY SMTT(30)

(* A cut is the floor of its exact position.                               *)
LEMMA BoundaryFloor ==
    ASSUME NEW total \in Nat, NEW end \in Nat, NEW whole \in Nat, whole > 0
    PROVE  /\ Boundary(total, end, whole) \in Nat
           /\ whole * Boundary(total, end, whole) <= total * end
           /\ total * end < whole * Boundary(total, end, whole) + whole
  <1>1. total * end \in Nat
    BY ProductInNat
  <1> QED
    BY <1>1, DivisionFloor DEF Boundary

(* No units lie below the first cut and all lamports below the last one:   *)
(* the shares between successive cuts add up to the total.                 *)
LEMMA BoundaryEnds ==
    ASSUME NEW total \in Nat, NEW whole \in Nat, whole > 0
    PROVE  /\ Boundary(total, 0, whole) = 0
           /\ Boundary(total, whole, whole) = total
  <1>1. total * 0 = 0
    BY SMT
  <1>2. 0 \div whole = 0
    BY SMT
  <1>3. (total * whole) \div whole = total
    <2> DEFINE q == (total * whole) \div whole
    <2>1. /\ total * whole \in Nat
          /\ total * whole = whole * total
      BY SMT
    <2>2. q \in Nat /\ whole * q <= whole * total /\ whole * total < whole * q + whole
      BY <2>1, DivisionFloor
    <2> HIDE DEF q
    <2>3. q <= total
      <3>1. whole * q < whole * total + whole
        <4>1. whole * q \in Int /\ whole * total \in Int
          BY <2>2
        <4> QED BY <2>2, <4>1
      <3> QED BY <2>2, <3>1, MulCancel
    <2>4. total <= q
      BY <2>2, MulCancel
    <2>5. q = total
      BY <2>2, <2>3, <2>4
    <2> QED BY <2>5 DEF q
  <1> QED
    BY <1>1, <1>2, <1>3 DEF Boundary

(* A later cut is not below an earlier one.                                *)
LEMMA BoundaryOrdered ==
    ASSUME NEW total \in Nat, NEW start \in Nat, NEW end \in Nat, NEW whole \in Nat,
           whole > 0, start <= end
    PROVE  Boundary(total, start, whole) <= Boundary(total, end, whole)
  <1> DEFINE s == Boundary(total, start, whole)
             e == Boundary(total, end, whole)
  <1>1. /\ s \in Nat /\ e \in Nat
        /\ whole * s <= total * start
        /\ total * end < whole * e + whole
    BY BoundaryFloor
  <1>2. total * start <= total * end
    BY MulMonotone
  <1> HIDE DEF s, e
  <1>3. whole * s \in Int /\ whole * e \in Int /\ total * start \in Int /\ total * end \in Int
    BY <1>1
  <1>4. whole * s < whole * e + whole
    BY <1>1, <1>2, <1>3
  <1>5. s <= e
    BY <1>1, <1>4, MulCancel
  <1> QED BY <1>5 DEF s, e

(* A share differs from its exact worth by less than one lamport, either   *)
(* way.                                                                    *)
LEMMA ShareWithinOneLamport ==
    ASSUME NEW total \in Nat, NEW start \in Nat, NEW end \in Nat, NEW whole \in Nat,
           whole > 0, start <= end
    PROVE  /\ Share(total, start, end, whole) \in Nat
           /\ whole * Share(total, start, end, whole) < total * (end - start) + whole
           /\ total * (end - start) < whole * Share(total, start, end, whole) + whole
  <1> DEFINE s == Boundary(total, start, whole)
             e == Boundary(total, end, whole)
  <1>1. /\ s \in Nat /\ e \in Nat
        /\ whole * s <= total * start
        /\ total * start < whole * s + whole
        /\ whole * e <= total * end
        /\ total * end < whole * e + whole
    BY BoundaryFloor
  <1>2. s <= e
    BY BoundaryOrdered
  <1>3. Share(total, start, end, whole) = e - s
    BY DEF Share
  <1> HIDE DEF s, e
  <1>4. /\ whole * (e - s) = whole * e - whole * s
        /\ total * (end - start) = total * end - total * start
    BY <1>1, MulDistributes
  <1>5. whole * s \in Int /\ whole * e \in Int /\ total * start \in Int /\ total * end \in Int
    BY <1>1
  <1>6. /\ whole * (e - s) < total * (end - start) + whole
        /\ total * (end - start) < whole * (e - s) + whole
    BY <1>1, <1>4, <1>5
  <1>7. e - s \in Nat
    BY <1>1, <1>2
  <1> QED
    BY <1>3, <1>6, <1>7

(* THE condition under which a settlement cannot be refused: when the new  *)
(* amount is worth a lamport to a share, the share does not shrink.  (With *)
(* a smaller amount it can, by one lamport.)                               *)
LEMMA LargeAmountKeepsShare ==
    ASSUME NEW total \in Nat, NEW amount \in Nat, NEW start \in Nat, NEW end \in Nat,
           NEW whole \in Nat, whole > 0, start <= end,
           amount * (end - start) >= whole
    PROVE  ShareKept(total, amount, start, end, whole)
  <1> DEFINE old == Share(total, start, end, whole)
             new == Share(total + amount, start, end, whole)
             width == end - start
  <1>0. total + amount \in Nat /\ width \in Nat
    BY DEF width
  <1>1. /\ old \in Nat
        /\ whole * old < total * width + whole
    BY ShareWithinOneLamport
  <1>2. /\ new \in Nat
        /\ (total + amount) * width < whole * new + whole
    BY <1>0, ShareWithinOneLamport
  <1>3. amount * width >= whole
    OBVIOUS
  <1> HIDE DEF old, new, width
  <1>4. (total + amount) * width = total * width + amount * width
    BY <1>0, MulDistributes
  <1>5. /\ whole * old \in Int /\ whole * new \in Int
        /\ total * width \in Int /\ amount * width \in Int
    BY <1>0, <1>1, <1>2
  <1>6. whole * old < whole * new + whole
    BY <1>1, <1>2, <1>3, <1>4, <1>5
  <1>7. old <= new
    BY <1>1, <1>2, <1>6, MulCancel
  <1> QED
    BY <1>1, <1>2, <1>7 DEF ShareKept, old, new

(* An empty share stays empty.                                             *)
LEMMA EmptyShare ==
    ASSUME NEW total \in Nat, NEW cut \in Nat, NEW whole \in Nat, whole > 0
    PROVE  Share(total, cut, cut, whole) = 0
  <1>1. Boundary(total, cut, whole) \in Nat
    BY BoundaryFloor
  <1> QED
    BY <1>1 DEF Share

-----------------------------------------------------------------------------
(* The cuts of the seven categories and of the three directed shares.      *)

LEMMA CategoryCuts ==
    /\ CategoryEnd \in [Categories -> Nat]
    /\ CategoryEnd[0] = Units[0]
    /\ \A c \in 1..6 : CategoryEnd[c] = CategoryEnd[c - 1] + Units[c]
    /\ CategoryEnd[6] = TotalUnits
  <1>1. \A c \in Categories : Units[c] \in Nat
    BY UnitsAssumption
  <1>2. /\ CategoryEnd[0] = Units[0]
        /\ CategoryEnd[1] = Units[0] + Units[1]
        /\ CategoryEnd[2] = Units[0] + Units[1] + Units[2]
        /\ CategoryEnd[3] = Units[0] + Units[1] + Units[2] + Units[3]
        /\ CategoryEnd[4] = Units[0] + Units[1] + Units[2] + Units[3] + Units[4]
        /\ CategoryEnd[5] = Units[0] + Units[1] + Units[2] + Units[3] + Units[4] + Units[5]
        /\ CategoryEnd[6] = Total7(Units)
    BY <1>1 DEF CategoryEnd, Total7, Categories
  <1>3. \A c \in Categories : c \in {0, 1, 2, 3, 4, 5, 6}
    BY DEF Categories
  <1>4. DOMAIN CategoryEnd = Categories /\ CategoryEnd = [c \in Categories |-> CategoryEnd[c]]
    BY DEF CategoryEnd
  <1>5. \A c \in Categories : CategoryEnd[c] \in Nat
    BY <1>1, <1>2, <1>3, UnitsAssumption DEF Categories
  <1>6. \A c \in 1..6 : c \in {1, 2, 3, 4, 5, 6}
    OBVIOUS
  <1>7. \A c \in 1..6 : CategoryEnd[c] = CategoryEnd[c - 1] + Units[c]
    BY <1>1, <1>2, <1>6 DEF Categories, Total7
  <1> QED
    BY <1>2, <1>4, <1>5, <1>7, UnitsAssumption

LEMMA DirectedCuts ==
    /\ DirectedEnd \in [Beneficiaries -> Nat]
    /\ DirectedEnd[0] = DirectedUnits[0]
    /\ \A b \in 1..2 : DirectedEnd[b] = DirectedEnd[b - 1] + DirectedUnits[b]
  <1>1. \A b \in Beneficiaries : DirectedUnits[b] \in Nat
    BY DirectedAssumption
  <1>2. /\ DirectedEnd[0] = DirectedUnits[0]
        /\ DirectedEnd[1] = DirectedUnits[0] + DirectedUnits[1]
        /\ DirectedEnd[2] = DirectedUnits[0] + DirectedUnits[1] + DirectedUnits[2]
    BY <1>1 DEF DirectedEnd, Total3, Beneficiaries
  <1>3. DOMAIN DirectedEnd = Beneficiaries /\ DirectedEnd = [b \in Beneficiaries |-> DirectedEnd[b]]
    BY DEF DirectedEnd
  <1>4. \A b \in Beneficiaries : DirectedEnd[b] \in Nat
    BY <1>1, <1>2 DEF Beneficiaries
  <1>5. \A b \in 1..2 : DirectedEnd[b] = DirectedEnd[b - 1] + DirectedUnits[b]
    BY <1>1, <1>2 DEF Beneficiaries
  <1> QED
    BY <1>2, <1>3, <1>4, <1>5

(* The seven targets of a total are naturals and add up to it exactly.     *)
LEMMA TargetsExact ==
    ASSUME NEW total \in Nat
    PROVE  /\ CategoryTargets(total) \in [Categories -> Nat]
           /\ Total7(CategoryTargets(total)) = total
  <1> DEFINE cut(c) == Boundary(total, CategoryEnd[c], TotalUnits)
  <1>1. TotalUnits \in Nat /\ TotalUnits > 0
    BY UnitsAssumption
  <1>2. \A c \in Categories : CategoryEnd[c] \in Nat
    BY CategoryCuts
  <1>3. \A c \in Categories : cut(c) \in Nat
    BY <1>1, <1>2, BoundaryFloor
  <1>4. ASSUME NEW c \in 1..6
        PROVE  cut(c - 1) <= cut(c)
    <2>1. c \in Categories /\ c - 1 \in Categories
      BY DEF Categories
    <2>2. CategoryEnd[c - 1] <= CategoryEnd[c]
      BY <1>2, <2>1, CategoryCuts, UnitsAssumption
    <2> QED
      BY <1>1, <1>2, <2>1, <2>2, BoundaryOrdered
  <1>5. cut(6) = total
    BY <1>1, CategoryCuts, BoundaryEnds
  <1>6. /\ CategoryTarget(total, 0) = cut(0)
        /\ \A c \in 1..6 : CategoryTarget(total, c) = cut(c) - cut(c - 1)
    <2>1. Boundary(total, 0, TotalUnits) = 0
      BY <1>1, BoundaryEnds
    <2>2. cut(0) \in Nat
      BY <1>3 DEF Categories
    <2> QED
      BY <2>1, <2>2 DEF CategoryTarget, Share
  <1> HIDE DEF cut
  <1>7. ASSUME NEW c \in Categories
        PROVE  CategoryTarget(total, c) \in Nat
    <2>1. CASE c = 0
      BY <1>3, <1>6, <2>1
    <2>2. CASE c # 0
      <3>1. c \in 1..6 /\ c - 1 \in Categories
        BY <2>2 DEF Categories
      <3>2. cut(c) \in Nat /\ cut(c - 1) \in Nat /\ cut(c - 1) <= cut(c)
        BY <1>3, <1>4, <3>1
      <3> QED
        BY <1>6, <3>1, <3>2
    <2> QED BY <2>1, <2>2
  <1>8. Total7(CategoryTargets(total)) =
          cut(0) + (cut(1) - cut(0)) + (cut(2) - cut(1)) + (cut(3) - cut(2))
          + (cut(4) - cut(3)) + (cut(5) - cut(4)) + (cut(6) - cut(5))
    BY <1>6 DEF Total7, CategoryTargets, Categories
  <1>9. /\ cut(0) \in Nat /\ cut(1) \in Nat /\ cut(2) \in Nat /\ cut(3) \in Nat
        /\ cut(4) \in Nat /\ cut(5) \in Nat /\ cut(6) \in Nat
    BY <1>3 DEF Categories
  <1> QED
    BY <1>5, <1>7, <1>8, <1>9 DEF CategoryTargets

(* A beneficiary's target stays below its exact worth plus one lamport.    *)
LEMMA DirectedTargetBound ==
    ASSUME NEW total \in Nat, NEW b \in Beneficiaries
    PROVE  /\ DirectedTarget(total, b) \in Nat
           /\ DirectedTotal * DirectedTarget(total, b)
                < total * DirectedUnits[b] + DirectedTotal
  <1> DEFINE start == IF b = 0 THEN 0 ELSE DirectedEnd[b - 1]
  <1>1. DirectedTotal \in Nat /\ DirectedTotal > 0
    BY DirectedAssumption
  <1>2. /\ start \in Nat /\ DirectedEnd[b] \in Nat /\ DirectedUnits[b] \in Nat
        /\ DirectedEnd[b] - start = DirectedUnits[b]
        /\ start <= DirectedEnd[b]
    <2>1. \A d \in Beneficiaries : DirectedEnd[d] \in Nat /\ DirectedUnits[d] \in Nat
      BY DirectedCuts, DirectedAssumption
    <2>2. CASE b = 0
      BY <2>1, <2>2, DirectedCuts
    <2>3. CASE b # 0
      <3>1. b \in 1..2 /\ b - 1 \in Beneficiaries
        BY <2>3 DEF Beneficiaries
      <3> QED BY <2>1, <2>3, <3>1, DirectedCuts
    <2> QED BY <2>2, <2>3
  <1>3. DirectedTarget(total, b) = Share(total, start, DirectedEnd[b], DirectedTotal)
    BY DEF DirectedTarget
  <1> HIDE DEF start
  <1>4. /\ Share(total, start, DirectedEnd[b], DirectedTotal) \in Nat
        /\ DirectedTotal * Share(total, start, DirectedEnd[b], DirectedTotal)
             < total * (DirectedEnd[b] - start) + DirectedTotal
    BY <1>1, <1>2, ShareWithinOneLamport
  <1> QED
    BY <1>2, <1>3, <1>4

-----------------------------------------------------------------------------
(* Type correctness.  TypeOK is not inductive by itself: that the router's *)
(* balance stays a natural needs the targets to add up to the settled      *)
(* total, hence the paid counters to be the targets of that total.         *)
PaidFollowsSettled == paid = CategoryTargets(settled)
Accounted == TypeOK /\ PaidFollowsSettled

(* Every disbursement is a payment of a category that is not the buyback,  *)
(* to one of the known recipients.                                         *)
Disbursement(id, c, r, amount) ==
    /\ id \in WithdrawalIds
    /\ c \in Categories \ {BuybackCategory}
    /\ r \in Recipients
    /\ amount \in Nat
    /\ Pay(id, c, r, amount)

LEMMA SpendingCases ==
    ASSUME Spending
    PROVE  \/ \E a \in Authorities, id \in BuybackIds, maxDebit, spent \in Nat :
                Buyback(a, id, maxDebit, spent)
           \/ \E id \in WithdrawalIds, amount \in Nat :
                \/ \E a \in Authorities, c \in Categories, r \in Recipients :
                      DisburseStandard(a, id, c, r, amount)
                \/ \E a \in Authorities, s \in Signatures : DisburseToCreator(a, s, id, amount)
                \/ \E a \in Authorities, s \in Signatures, holder \in Nat :
                      DisburseToClaimants(a, s, id, amount, holder)
                \/ \E a \in Authorities, s \in Signatures, c \in Categories, w \in Wallets :
                      DisburseApproved(a, s, id, c, w, amount)
                \/ \E a \in Authorities, s \in Signatures :
                      DisburseCommunity(a, s, id, amount)
  BY LamportAssumption DEF Spending

(* Naturals that add up to zero are zero.                                   *)
LEMMA ZeroSum ==
    ASSUME NEW f \in [Categories -> Nat], Total7(f) = 0
    PROVE  \A c \in Categories : f[c] = 0
  <1>1. /\ f[0] \in Nat /\ f[1] \in Nat /\ f[2] \in Nat /\ f[3] \in Nat
        /\ f[4] \in Nat /\ f[5] \in Nat /\ f[6] \in Nat
    BY DEF Categories
  <1>2. /\ f[0] = 0 /\ f[1] = 0 /\ f[2] = 0 /\ f[3] = 0
        /\ f[4] = 0 /\ f[5] = 0 /\ f[6] = 0
    <2>1. f[0] + f[1] + f[2] + f[3] + f[4] + f[5] + f[6] = 0
      BY DEF Total7
    <2>2. \A x, y \in Nat : x + y = 0 => x = 0 /\ y = 0
      OBVIOUS
    <2>3. /\ f[6] = 0 /\ f[0] + f[1] + f[2] + f[3] + f[4] + f[5] = 0
      BY <1>1, <2>1, <2>2
    <2>4. /\ f[5] = 0 /\ f[0] + f[1] + f[2] + f[3] + f[4] = 0
      BY <1>1, <2>2, <2>3
    <2>5. /\ f[4] = 0 /\ f[0] + f[1] + f[2] + f[3] = 0
      BY <1>1, <2>2, <2>4
    <2>6. /\ f[3] = 0 /\ f[0] + f[1] + f[2] = 0
      BY <1>1, <2>2, <2>5
    <2>7. /\ f[2] = 0 /\ f[0] + f[1] = 0
      BY <1>1, <2>2, <2>6
    <2>8. /\ f[1] = 0 /\ f[0] = 0
      BY <1>1, <2>2, <2>7
    <2> QED BY <2>3, <2>4, <2>5, <2>6, <2>7, <2>8
  <1> QED BY <1>2 DEF Categories

LEMMA InitAccounted == Init => Accounted
  <1> SUFFICES ASSUME Init PROVE Accounted
    OBVIOUS
  <1>1. TypeOK
    BY PartyAssumption DEF Init, TypeOK, NoClaim, NoApproval, NoWithdrawal, NoAutomation,
       ClaimRecords, ApprovalRecords, WithdrawalRecords, Categories, Approved
  <1>2. \A c \in Categories : CategoryTarget(0, c) = 0
    <2>1. Total7(CategoryTargets(0)) = 0 /\ CategoryTargets(0) \in [Categories -> Nat]
      BY TargetsExact
    <2>2. \A c \in Categories : CategoryTargets(0)[c] = 0
      BY <2>1, ZeroSum
    <2> QED
      BY <2>2 DEF CategoryTargets
  <1> QED
    BY <1>1, <1>2 DEF Accounted, PaidFollowsSettled, CategoryTargets, Init

(* Only a settlement touches the two counters.                             *)
LEMMA SameTargets ==
    ASSUME Accounted, UNCHANGED <<settled, paid>>, TypeOK'
    PROVE  Accounted'
  BY DEF Accounted, PaidFollowsSettled, CategoryTargets, CategoryTarget, CategoryEnd

(* A payment keeps the types: the balance covers the amount.               *)
LEMMA PayAccounted ==
    ASSUME Accounted,
           NEW id \in WithdrawalIds, NEW c \in Categories, NEW r \in Recipients,
           NEW amount \in Nat, Disbursement(id, c, r, amount),
           released' \in [Beneficiaries -> Nat],
           approvals' \in [WithdrawalIds -> ApprovalRecords]
    PROVE  Accounted'
  <1>1. vault[c] \in Nat /\ withdrawn[c] \in Nat /\ vault[c] - amount \in Nat
    BY LamportAssumption DEF Accounted, TypeOK, Disbursement, Pay, InVault
  <1>2. [category |-> c, recipient |-> r, amount |-> amount] \in WithdrawalRecords
    BY DEF WithdrawalRecords
  <1>3. /\ vault' \in [Categories -> Nat]
        /\ withdrawn' \in [Categories -> Nat]
        /\ withdrawals' \in [WithdrawalIds -> WithdrawalRecords]
        /\ UNCHANGED <<authority, kind, router, settled, paid, claims, buybacks,
                       automation, rewardVaults>>
    <2>1. /\ vault' = [vault EXCEPT ![c] = vault[c] - amount]
          /\ withdrawn' = [withdrawn EXCEPT ![c] = withdrawn[c] + amount]
          /\ withdrawals' = [withdrawals EXCEPT ![id] =
                 [category |-> c, recipient |-> r, amount |-> amount]]
          /\ UNCHANGED <<authority, kind, router, settled, paid, claims, buybacks,
                         automation, rewardVaults>>
      BY DEF Disbursement, Pay
    <2>2. /\ vault \in [Categories -> Nat]
          /\ withdrawn \in [Categories -> Nat]
          /\ withdrawals \in [WithdrawalIds -> WithdrawalRecords]
      BY DEF Accounted, TypeOK
    <2>3. withdrawn[c] + amount \in Nat
      BY <1>1
    <2> QED
      BY <1>1, <1>2, <2>1, <2>2, <2>3
  <1>4. TypeOK'
    BY <1>3 DEF Accounted, TypeOK
  <1> QED
    BY <1>3, <1>4, SameTargets

(* The amounts a settlement moves: each share is non-negative because the  *)
(* checked subtraction succeeded, and together they are the collection.    *)
LEMMA AllocationExact ==
    ASSUME Accounted, NEW amount \in Nat,
           NEW targets, targets = CategoryTargets(settled + amount),
           NEW allocation, allocation = [c \in Categories |-> targets[c] - paid[c]],
           AllocationExists(targets)
    PROVE  /\ allocation \in [Categories -> Nat]
           /\ targets \in [Categories -> Nat]
           /\ Total7(allocation) = amount
  <1>1. settled \in Nat /\ settled + amount \in Nat
    BY DEF Accounted, TypeOK
  <1>2. /\ targets \in [Categories -> Nat] /\ Total7(targets) = settled + amount
        /\ paid \in [Categories -> Nat] /\ Total7(paid) = settled
    BY <1>1, TargetsExact DEF Accounted, PaidFollowsSettled
  <1>3. \A c \in Categories : targets[c] - paid[c] \in Nat
    BY <1>2 DEF AllocationExists
  <1>4. \A c \in Categories : allocation[c] = targets[c] - paid[c]
    OBVIOUS
  <1>5. Total7(allocation) = Total7(targets) - Total7(paid)
    <2>1. /\ targets[0] \in Nat /\ targets[1] \in Nat /\ targets[2] \in Nat
          /\ targets[3] \in Nat /\ targets[4] \in Nat /\ targets[5] \in Nat
          /\ targets[6] \in Nat
          /\ paid[0] \in Nat /\ paid[1] \in Nat /\ paid[2] \in Nat /\ paid[3] \in Nat
          /\ paid[4] \in Nat /\ paid[5] \in Nat /\ paid[6] \in Nat
      BY <1>2 DEF Categories
    <2>2. /\ allocation[0] = targets[0] - paid[0] /\ allocation[1] = targets[1] - paid[1]
          /\ allocation[2] = targets[2] - paid[2] /\ allocation[3] = targets[3] - paid[3]
          /\ allocation[4] = targets[4] - paid[4] /\ allocation[5] = targets[5] - paid[5]
          /\ allocation[6] = targets[6] - paid[6]
      BY <1>4 DEF Categories
    <2> QED
      BY <2>1, <2>2 DEF Total7
  <1> QED
    BY <1>1, <1>2, <1>3, <1>5

LEMMA SettleAccounted ==
    ASSUME Accounted, NEW a \in Authorities, NEW id \in ClaimIds, NEW amount \in Nat,
           Settle(a, id, amount)
    PROVE  Accounted'
  <1> DEFINE targets == CategoryTargets(settled + amount)
             allocation == [c \in Categories |-> targets[c] - paid[c]]
  <1>1. /\ AllocationExists(targets)
        /\ RouterRent + amount <= router
        /\ router' = router - Total7(allocation)
        /\ vault' = FundedVaults(allocation)
        /\ paid' = targets
        /\ settled' = settled + amount
        /\ claims' = [claims EXCEPT ![id] = [total |-> amount, parts |-> allocation]]
        /\ UNCHANGED <<authority, kind, withdrawn, released, approvals, withdrawals,
                       buybacks, automation, rewardVaults>>
    BY DEF Settle
  <1>2. /\ allocation \in [Categories -> Nat]
        /\ targets \in [Categories -> Nat]
        /\ Total7(allocation) = amount
    BY <1>1, AllocationExact
  <1>3. PaidFollowsSettled'
    BY <1>1 DEF PaidFollowsSettled, CategoryTargets, CategoryTarget, CategoryEnd
  <1> HIDE DEF targets, allocation
  <1>4. router' \in Nat
    BY <1>1, <1>2, LamportAssumption DEF Accounted, TypeOK
  <1>5. vault' \in [Categories -> Nat]
    <2>1. \A c \in Categories : vault[c] \in Nat /\ allocation[c] \in Nat
      BY <1>2 DEF Accounted, TypeOK
    <2> QED
      BY <1>1, <2>1, LamportAssumption DEF FundedVaults
  <1>6. [total |-> amount, parts |-> allocation] \in ClaimRecords
    BY <1>2 DEF ClaimRecords
  <1>7. claims' \in [ClaimIds -> ClaimRecords]
    BY <1>1, <1>6 DEF Accounted, TypeOK
  <1> QED
    BY <1>1, <1>2, <1>3, <1>4, <1>5, <1>7 DEF Accounted, TypeOK

LEMMA BuybackAccounted ==
    ASSUME Accounted, NEW a \in Authorities, NEW id \in BuybackIds,
           NEW maxDebit \in Nat, NEW spent \in Nat, Buyback(a, id, maxDebit, spent)
    PROVE  Accounted'
  <1>1. BuybackCategory \in Categories
    BY DEF BuybackCategory, Categories
  <1>2. /\ vault[BuybackCategory] \in Nat /\ withdrawn[BuybackCategory] \in Nat
        /\ vault[BuybackCategory] - spent \in Nat
    BY <1>1, LamportAssumption DEF Accounted, TypeOK, Buyback, InVault
  <1>3. TypeOK'
    BY <1>1, <1>2 DEF Accounted, TypeOK, Buyback
  <1> QED
    BY <1>3, SameTargets DEF Buyback

LEMMA FundingAccounted == ASSUME Accounted, Funding PROVE Accounted'
  <1> USE DEF policyVars, recordVars
  <1>1. ASSUME NEW k \in {"standard", "protected"}, InitializeMint(k)
        PROVE  Accounted'
    <2>1. TypeOK'
      BY <1>1, LamportAssumption DEF Accounted, TypeOK, InitializeMint
    <2> QED
      BY <1>1, <2>1, SameTargets DEF InitializeMint
  <1>2. ASSUME NEW amount \in Collections, Deposit(amount)
        PROVE  Accounted'
    <2>1. TypeOK'
      BY <1>2, LamportAssumption DEF Accounted, TypeOK, Deposit
    <2> QED
      BY <1>2, <2>1, SameTargets DEF Deposit
  <1>3. ASSUME NEW c \in DonationTargets, NEW amount \in Payments, Donate(c, amount)
        PROVE  Accounted'
    <2>1. c \in Categories /\ amount \in Nat
      BY LamportAssumption, PartyAssumption
    <2>2. TypeOK'
      BY <1>3, <2>1 DEF Accounted, TypeOK, Donate
    <2> QED
      BY <1>3, <2>2, SameTargets DEF Donate
  <1>4. ASSUME NEW a \in Authorities, NEW id \in ClaimIds, NEW amount \in Collections,
               Settle(a, id, amount)
        PROVE  Accounted'
    BY <1>4, LamportAssumption, SettleAccounted
  <1> QED
    BY <1>1, <1>2, <1>3, <1>4 DEF Funding

LEMMA AdministrationAccounted == ASSUME Accounted, Administration PROVE Accounted'
  <1> USE DEF policyVars, recordVars
  <1>1. ASSUME NEW old \in Authorities, NEW new \in Authorities, Rotate(old, new)
        PROVE  Accounted'
    <2>1. TypeOK'
      BY <1>1 DEF Accounted, TypeOK, Rotate
    <2> QED
      BY <1>1, <2>1, SameTargets DEF Rotate
  <1>2. ASSUME NEW a \in Authorities, InitializeRewardVault(a)
        PROVE  Accounted'
    <2>1. TypeOK'
      BY <1>2 DEF Accounted, TypeOK, InitializeRewardVault
    <2> QED
      BY <1>2, <2>1, SameTargets DEF InitializeRewardVault
  <1>3. ASSUME NEW a \in Authorities, NEW r \in AutomationChoices, InitializeAutomation(a, r)
        PROVE  Accounted'
    <2>1. TypeOK'
      BY <1>3, PartyAssumption DEF Accounted, TypeOK, InitializeAutomation
    <2> QED
      BY <1>3, <2>1, SameTargets DEF InitializeAutomation
  <1>4. ASSUME NEW a \in Authorities, NEW s \in Signatures, NEW id \in WithdrawalIds,
               NEW c \in Categories, NEW w \in Wallets, NEW amount \in Payments,
               Approve(a, s, id, c, w, amount)
        PROVE  Accounted'
    <2>1. [category |-> c, recipient |-> w, amount |-> amount, consumed |-> FALSE]
            \in ApprovalRecords
      BY LamportAssumption DEF ApprovalRecords
    <2>2. TypeOK'
      BY <1>4, <2>1 DEF Accounted, TypeOK, Approve
    <2> QED
      BY <1>4, <2>2, SameTargets DEF Approve
  <1> QED
    BY <1>1, <1>2, <1>3, <1>4 DEF Administration

LEMMA SpendingAccounted == ASSUME Accounted, Spending PROVE Accounted'
  <1>1. ASSUME NEW a \in Authorities, NEW id \in BuybackIds, NEW maxDebit \in Nat,
               NEW spent \in Nat, Buyback(a, id, maxDebit, spent)
        PROVE  Accounted'
    BY <1>1, BuybackAccounted
  <1>2. ASSUME NEW id \in WithdrawalIds, NEW amount \in Nat, NEW a \in Authorities,
               NEW c \in Categories, NEW r \in Recipients, DisburseStandard(a, id, c, r, amount)
        PROVE  Accounted'
    <2>1. Disbursement(id, c, r, amount) /\ UNCHANGED <<released, approvals>>
      BY <1>2 DEF Disbursement, DisburseStandard
    <2> QED
      BY <2>1, PayAccounted DEF Accounted, TypeOK
  <1>3. ASSUME NEW id \in WithdrawalIds, NEW amount \in Nat, NEW a \in Authorities,
               NEW s \in Signatures, DisburseToCreator(a, s, id, amount)
        PROVE  Accounted'
    <2>1. Disbursement(id, CreatorDirected, Creator, amount) /\ UNCHANGED approvals
      BY <1>3, PartyAssumption DEF Disbursement, DisburseToCreator, DisburseDirected,
         Recipients, CreatorDirected, BuybackCategory, Categories
    <2>2. released' \in [Beneficiaries -> Nat]
      BY <1>3 DEF DisburseToCreator, DisburseDirected, Accounted, TypeOK, Beneficiaries
    <2>3. CreatorDirected \in Categories /\ Creator \in Recipients
      BY PartyAssumption DEF Recipients, CreatorDirected, Categories
    <2>4. approvals' \in [WithdrawalIds -> ApprovalRecords]
      BY <2>1 DEF Accounted, TypeOK
    <2> QED
      BY <2>1, <2>2, <2>3, <2>4, PayAccounted
  <1>4. ASSUME NEW id \in WithdrawalIds, NEW amount \in Nat, NEW a \in Authorities,
               NEW s \in Signatures, NEW holder \in Nat,
               DisburseToClaimants(a, s, id, amount, holder)
        PROVE  Accounted'
    <2>1. Disbursement(id, CreatorDirected, RewardVaultOf(a), amount) /\ UNCHANGED approvals
      BY <1>4 DEF Disbursement, DisburseToClaimants, DisburseDirected,
         Recipients, CreatorDirected, BuybackCategory, Categories
    <2>2. released' \in [Beneficiaries -> Nat]
      BY <1>4 DEF DisburseToClaimants, DisburseDirected, Accounted, TypeOK, Beneficiaries
    <2>3. CreatorDirected \in Categories /\ RewardVaultOf(a) \in Recipients
      BY DEF Recipients, CreatorDirected, Categories
    <2>4. approvals' \in [WithdrawalIds -> ApprovalRecords]
      BY <2>1 DEF Accounted, TypeOK
    <2> QED
      BY <2>1, <2>2, <2>3, <2>4, PayAccounted
  <1>5. ASSUME NEW id \in WithdrawalIds, NEW amount \in Nat, NEW a \in Authorities,
               NEW s \in Signatures, NEW c \in Categories, NEW w \in Wallets,
               DisburseApproved(a, s, id, c, w, amount)
        PROVE  Accounted'
    <2>1. Disbursement(id, c, w, amount) /\ UNCHANGED released
      BY <1>5 DEF Disbursement, DisburseApproved, Recipients, Approved, BuybackCategory
    <2>2. approvals' \in [WithdrawalIds -> ApprovalRecords]
      BY <1>5 DEF DisburseApproved, Accounted, TypeOK, ApprovalRecords
    <2> QED
      BY <2>1, <2>2, PayAccounted DEF Accounted, TypeOK, Recipients
  <1>6. ASSUME NEW id \in WithdrawalIds, NEW amount \in Nat, NEW a \in Authorities,
               NEW s \in Signatures, DisburseCommunity(a, s, id, amount)
        PROVE  Accounted'
    <2>1. /\ Disbursement(id, Community, RewardVaultOf(a), amount)
          /\ UNCHANGED <<released, approvals>>
      BY <1>6 DEF Disbursement, DisburseCommunity, Recipients, Community, BuybackCategory,
         Categories
    <2>2. Community \in Categories /\ RewardVaultOf(a) \in Recipients
      BY DEF Recipients, Community, Categories
    <2>3. /\ released' \in [Beneficiaries -> Nat]
          /\ approvals' \in [WithdrawalIds -> ApprovalRecords]
      BY <2>1 DEF Accounted, TypeOK
    <2> QED
      BY <2>1, <2>2, <2>3, PayAccounted
  <1> QED
    BY <1>1, <1>2, <1>3, <1>4, <1>5, <1>6, SpendingCases

LEMMA StepAccounted == Accounted /\ [Next]_vars => Accounted'
  <1>1. ASSUME Accounted, UNCHANGED vars PROVE Accounted'
    <2>1. TypeOK'
      BY <1>1 DEF vars, policyVars, recordVars, Accounted, TypeOK
    <2> QED
      BY <1>1, <2>1, SameTargets DEF vars, policyVars
  <1> QED
    BY <1>1, FundingAccounted, AdministrationAccounted, SpendingAccounted DEF Next

(* TypeCorrect: every reachable state of the router is well typed; no      *)
(* balance or counter is ever driven below zero.                           *)
THEOREM TypeCorrect == Spec => []TypeOK
  <1>1. Accounted => TypeOK
    BY DEF Accounted
  <1> QED
    BY <1>1, InitAccounted, StepAccounted, PTL DEF Spec

(* SplitIsExact: the seven budgets always add up to the lamports settled.  *)
THEOREM SplitIsExact == Spec => []SplitExact
  <1>1. Accounted => SplitExact
    BY TargetsExact DEF Accounted, TypeOK, PaidFollowsSettled, SplitExact
  <1> QED
    BY <1>1, InitAccounted, StepAccounted, PTL DEF Spec

(* LargeCollectionsSettle: in every reachable state, whatever was settled  *)
(* before, a collection worth a lamport to each category with units passes *)
(* the checked subtractions of the settlement.                             *)
THEOREM LargeCollectionsSettle == Spec => []LargeCollectionSettles
  <1>1. ASSUME Accounted, NEW amount \in Collections, WorthALamportEverywhere(amount),
               NEW c \in Categories
        PROVE  CategoryTargets(settled + amount)[c] >= paid[c]
    <2> DEFINE start == IF c = 0 THEN 0 ELSE CategoryEnd[c - 1]
               end == CategoryEnd[c]
    <2>1. settled \in Nat /\ amount \in Nat /\ TotalUnits \in Nat /\ TotalUnits > 0
      BY <1>1, LamportAssumption, UnitsAssumption DEF Accounted, TypeOK
    <2>2. /\ start \in Nat /\ end \in Nat /\ Units[c] \in Nat
          /\ end = start + Units[c] /\ start <= end /\ end - start = Units[c]
      <3>1. \A d \in Categories : CategoryEnd[d] \in Nat /\ Units[d] \in Nat
        BY CategoryCuts, UnitsAssumption
      <3>2. CASE c = 0
        BY <3>1, <3>2, CategoryCuts
      <3>3. CASE c # 0
        <4>1. c \in 1..6 /\ c - 1 \in Categories
          BY <3>3 DEF Categories
        <4> QED BY <3>1, <3>3, <4>1, CategoryCuts
      <3> QED BY <3>2, <3>3
    <2>3. /\ CategoryTargets(settled + amount)[c] = Share(settled + amount, start, end, TotalUnits)
          /\ paid[c] = Share(settled, start, end, TotalUnits)
      BY <1>1 DEF CategoryTargets, CategoryTarget, Accounted, PaidFollowsSettled
    <2> HIDE DEF start, end
    <2>4. CASE Units[c] = 0
      <3>1. end = start
        BY <2>2, <2>4
      <3>2. settled + amount \in Nat
        BY <2>1
      <3> QED
        BY <2>1, <2>2, <2>3, <3>1, <3>2, EmptyShare
    <2>5. CASE Units[c] > 0
      <3>1. amount * (end - start) >= TotalUnits
        BY <1>1, <2>2, <2>5 DEF WorthALamportEverywhere
      <3>2. ShareKept(settled, amount, start, end, TotalUnits)
        BY <2>1, <2>2, <3>1, LargeAmountKeepsShare
      <3> QED
        BY <2>3, <3>2 DEF ShareKept
    <2> QED
      BY <2>2, <2>4, <2>5
  <1>2. Accounted => LargeCollectionSettles
    BY <1>1 DEF LargeCollectionSettles, AllocationExists
  <1> QED
    BY <1>2, InitAccounted, StepAccounted, PTL DEF Spec

-----------------------------------------------------------------------------
(* Solvency of the vaults.                                                 *)

(* The five ways a step can touch the money in the vaults.                 *)
LEMMA VaultCases ==
    ASSUME [Next]_vars
    PROVE  \/ UNCHANGED <<vault, settled, paid, withdrawn, claims, withdrawals, buybacks>>
           \/ \E c \in DonationTargets, amount \in Payments : Donate(c, amount)
           \/ \E a \in Authorities, id \in ClaimIds, amount \in Collections :
                 Settle(a, id, amount)
           \/ \E a \in Authorities, id \in BuybackIds, maxDebit, spent \in Nat :
                 Buyback(a, id, maxDebit, spent)
           \/ \E id \in WithdrawalIds, c \in Categories, r \in Recipients, amount \in Nat :
                 Disbursement(id, c, r, amount)
  <1> DEFINE Paying == \E id \in WithdrawalIds, c \in Categories, r \in Recipients, amount \in Nat :
                           Disbursement(id, c, r, amount)
  <1>0. /\ CreatorDirected \in Categories \ {BuybackCategory}
        /\ Community \in Categories \ {BuybackCategory}
        /\ Approved \subseteq Categories \ {BuybackCategory}
        /\ Creator \in Recipients /\ Wallets \subseteq Recipients
        /\ \A a \in Authorities : RewardVaultOf(a) \in Recipients
    BY PartyAssumption DEF CreatorDirected, Community, Approved, BuybackCategory, Categories,
       Recipients
  <1>1. CASE UNCHANGED vars
    BY <1>1 DEF vars, policyVars, recordVars
  <1>2. CASE Funding
    BY <1>2 DEF Funding, InitializeMint, Deposit, policyVars, recordVars
  <1>3. CASE Administration
    BY <1>3 DEF Administration, Rotate, InitializeRewardVault, InitializeAutomation, Approve,
       policyVars, recordVars
  <1>4. CASE Spending
    <2>1. ASSUME NEW id \in WithdrawalIds, NEW amount \in Nat, NEW a \in Authorities,
                 NEW c \in Categories, NEW r \in Recipients, DisburseStandard(a, id, c, r, amount)
          PROVE  Paying
      BY <2>1 DEF Disbursement, DisburseStandard
    <2>2. ASSUME NEW id \in WithdrawalIds, NEW amount \in Nat, NEW a \in Authorities,
                 NEW s \in Signatures, DisburseToCreator(a, s, id, amount)
          PROVE  Paying
      BY <1>0, <2>2 DEF Disbursement, DisburseToCreator, DisburseDirected
    <2>3. ASSUME NEW id \in WithdrawalIds, NEW amount \in Nat, NEW a \in Authorities,
                 NEW s \in Signatures, NEW holder \in Nat,
                 DisburseToClaimants(a, s, id, amount, holder)
          PROVE  Paying
      BY <1>0, <2>3 DEF Disbursement, DisburseToClaimants, DisburseDirected
    <2>4. ASSUME NEW id \in WithdrawalIds, NEW amount \in Nat, NEW a \in Authorities,
                 NEW s \in Signatures, NEW c \in Categories, NEW w \in Wallets,
                 DisburseApproved(a, s, id, c, w, amount)
          PROVE  Paying
      BY <1>0, <2>4 DEF Disbursement, DisburseApproved
    <2>5. ASSUME NEW id \in WithdrawalIds, NEW amount \in Nat, NEW a \in Authorities,
                 NEW s \in Signatures, DisburseCommunity(a, s, id, amount)
          PROVE  Paying
      BY <1>0, <2>5 DEF Disbursement, DisburseCommunity
    <2> HIDE DEF Paying
    <2>6. \/ Paying
          \/ \E a \in Authorities, id \in BuybackIds, maxDebit, spent \in Nat :
                Buyback(a, id, maxDebit, spent)
      BY <1>4, <2>1, <2>2, <2>3, <2>4, <2>5, SpendingCases
    <2> QED BY <2>6 DEF Paying
  <1> QED
    BY <1>1, <1>2, <1>3, <1>4 DEF Next

LEMMA SettleSolvent ==
    ASSUME Accounted, VaultsSolvent, NEW a \in Authorities, NEW id \in ClaimIds,
           NEW amount \in Nat, Settle(a, id, amount)
    PROVE  VaultsSolvent'
  <1> DEFINE targets == CategoryTargets(settled + amount)
             allocation == [c \in Categories |-> targets[c] - paid[c]]
  <1>1. /\ AllocationExists(targets)
        /\ vault' = FundedVaults(allocation)
        /\ paid' = targets
        /\ withdrawn' = withdrawn
    BY DEF Settle
  <1>2. /\ allocation \in [Categories -> Nat]
        /\ targets \in [Categories -> Nat]
    BY <1>1, AllocationExact
  <1>3. \A c \in Categories : allocation[c] = targets[c] - paid[c]
    OBVIOUS
  <1> HIDE DEF targets, allocation
  <1> SUFFICES ASSUME NEW c \in Categories
               PROVE  /\ withdrawn'[c] <= paid'[c]
                      /\ paid'[c] > 0 => vault'[c] >= VaultRent + (paid'[c] - withdrawn'[c])
    BY DEF VaultsSolvent
  <1>4. /\ vault[c] \in Nat /\ paid[c] \in Nat /\ withdrawn[c] \in Nat
        /\ allocation[c] \in Nat /\ targets[c] \in Nat /\ VaultRent \in Nat
        /\ targets[c] = paid[c] + allocation[c]
    BY <1>2, <1>3, LamportAssumption DEF Accounted, TypeOK
  <1>5. /\ withdrawn[c] <= paid[c]
        /\ paid[c] > 0 => vault[c] >= VaultRent + (paid[c] - withdrawn[c])
    BY DEF VaultsSolvent
  <1>6. vault'[c] = IF allocation[c] = 0 THEN vault[c]
                    ELSE (IF vault[c] < VaultRent THEN VaultRent ELSE vault[c]) + allocation[c]
    BY <1>1 DEF FundedVaults
  <1>7. CASE allocation[c] = 0
    BY <1>1, <1>4, <1>5, <1>6, <1>7
  <1>8. CASE allocation[c] # 0
    BY <1>1, <1>4, <1>5, <1>6, <1>8
  <1> QED
    BY <1>7, <1>8

LEMMA StepSolvent == Accounted /\ VaultsSolvent /\ [Next]_vars => VaultsSolvent'
  <1> SUFFICES ASSUME Accounted, VaultsSolvent, [Next]_vars PROVE VaultsSolvent'
    OBVIOUS
  <1>0. /\ \A c \in Categories : vault[c] \in Nat /\ paid[c] \in Nat /\ withdrawn[c] \in Nat
        /\ vault \in [Categories -> Nat] /\ withdrawn \in [Categories -> Nat]
        /\ VaultRent \in Nat
    BY LamportAssumption DEF Accounted, TypeOK
  <1>1. CASE UNCHANGED <<vault, paid, withdrawn>>
    BY <1>1 DEF VaultsSolvent
  <1>2. ASSUME NEW d \in DonationTargets, NEW amount \in Payments, Donate(d, amount)
        PROVE  VaultsSolvent'
    BY <1>0, <1>2, LamportAssumption, PartyAssumption DEF VaultsSolvent, Donate, policyVars
  <1>3. ASSUME NEW a \in Authorities, NEW id \in ClaimIds, NEW amount \in Collections,
               Settle(a, id, amount)
        PROVE  VaultsSolvent'
    BY <1>3, SettleSolvent, LamportAssumption
  <1>4. ASSUME NEW a \in Authorities, NEW id \in BuybackIds, NEW maxDebit \in Nat,
               NEW spent \in Nat, Buyback(a, id, maxDebit, spent)
        PROVE  VaultsSolvent'
    <2>1. /\ vault' = [vault EXCEPT ![BuybackCategory] = @ - spent]
          /\ withdrawn' = [withdrawn EXCEPT ![BuybackCategory] = @ + spent]
          /\ paid' = paid
          /\ withdrawn[BuybackCategory] + maxDebit <= paid[BuybackCategory]
          /\ spent <= maxDebit
      BY <1>4 DEF Buyback, InBudget
    <2> QED
      BY <1>0, <2>1 DEF VaultsSolvent
  <1>5. ASSUME NEW id \in WithdrawalIds, NEW c \in Categories, NEW r \in Recipients,
               NEW amount \in Nat, Disbursement(id, c, r, amount)
        PROVE  VaultsSolvent'
    <2>1. /\ vault' = [vault EXCEPT ![c] = @ - amount]
          /\ withdrawn' = [withdrawn EXCEPT ![c] = @ + amount]
          /\ paid' = paid
          /\ withdrawn[c] + amount <= paid[c]
      BY <1>5 DEF Disbursement, Pay, InBudget
    <2> QED
      BY <1>0, <2>1 DEF VaultsSolvent
  <1> QED
    BY <1>1, <1>2, <1>3, <1>4, <1>5, VaultCases

(* Solvent: in every reachable state each vault holds, above its rent,     *)
(* what is left of the category's budget.                                  *)
THEOREM Solvent == Spec => []VaultsSolvent
  <1>1. Init => VaultsSolvent
    BY DEF Init, VaultsSolvent, Categories
  <1> QED
    BY <1>1, InitAccounted, StepAccounted, StepSolvent, PTL DEF Spec

-----------------------------------------------------------------------------
(* Action properties.                                                      *)

(* BudgetsGrow: no step takes a lamport back from a category's budget.     *)
THEOREM BudgetsGrow == Spec => BudgetsOnlyGrow
  <1>1. ASSUME Accounted, [Next]_vars
        PROVE  \A c \in Categories : paid'[c] >= paid[c]
    <2>0. \A c \in Categories : paid[c] \in Nat
      BY <1>1 DEF Accounted, TypeOK
    <2>1. CASE paid' = paid
      BY <2>0, <2>1
    <2>2. ASSUME NEW a \in Authorities, NEW id \in ClaimIds, NEW amount \in Collections,
                 Settle(a, id, amount)
          PROVE  \A c \in Categories : paid'[c] >= paid[c]
      BY <2>2 DEF Settle, AllocationExists
    <2>3. \/ paid' = paid
          \/ \E a \in Authorities, id \in ClaimIds, amount \in Collections :
                Settle(a, id, amount)
      BY <1>1, VaultCases DEF Donate, Buyback, Disbursement, Pay, policyVars
    <2> QED BY <2>1, <2>2, <2>3
  <1>2. Accounted /\ [Next]_vars => [\A c \in Categories : paid'[c] >= paid[c]]_vars
    BY <1>1
  <1> QED
    BY <1>2, InitAccounted, StepAccounted, PTL DEF Spec, BudgetsOnlyGrow

-----------------------------------------------------------------------------
(* Receipts, approvals and the three directed shares.                      *)

(* Where each disbursement may send money and what else it changes.        *)
LEMMA ReceiptCases ==
    ASSUME [Next]_vars
    PROVE  \/ UNCHANGED <<withdrawals, released>> /\ UNCHANGED withdrawn[CreatorDirected]
           \/ \E a \in Authorities, id \in WithdrawalIds, c \in Categories, r \in Recipients,
                amount \in Nat : DisburseStandard(a, id, c, r, amount)
           \/ \E a \in Authorities, s \in Signatures, id \in WithdrawalIds, amount \in Nat :
                DisburseToCreator(a, s, id, amount)
           \/ \E a \in Authorities, s \in Signatures, id \in WithdrawalIds,
                amount, holder \in Nat : DisburseToClaimants(a, s, id, amount, holder)
           \/ \E a \in Authorities, s \in Signatures, id \in WithdrawalIds, c \in Categories,
                w \in Wallets, amount \in Nat : DisburseApproved(a, s, id, c, w, amount)
           \/ \E a \in Authorities, s \in Signatures, id \in WithdrawalIds, amount \in Nat :
                DisburseCommunity(a, s, id, amount)
  <1>1. CASE UNCHANGED vars
    BY <1>1 DEF vars, policyVars, recordVars
  <1>2. CASE Funding
    BY <1>2 DEF Funding, InitializeMint, Deposit, Donate, Settle, policyVars, recordVars
  <1>3. CASE Administration
    BY <1>3 DEF Administration, Rotate, InitializeRewardVault, InitializeAutomation, Approve,
       policyVars, recordVars
  <1>4. CASE Spending
    <2>1. ASSUME NEW a \in Authorities, NEW id \in BuybackIds, NEW maxDebit \in Nat,
                 NEW spent \in Nat, Buyback(a, id, maxDebit, spent)
          PROVE  /\ UNCHANGED <<withdrawals, released>>
                 /\ UNCHANGED withdrawn[CreatorDirected]
      BY <2>1 DEF Buyback, BuybackCategory, CreatorDirected
    <2> QED
      BY <1>4, <2>1, SpendingCases
  <1> QED
    BY <1>1, <1>2, <1>3, <1>4 DEF Next

(* CurrentVaultPaid: no step pays into a rotated-out authority's vault.    *)
THEOREM CurrentVaultPaid == Spec => PaidToCurrentVault
  <1> DEFINE Good == \A id \in WithdrawalIds, a \in Authorities :
                        /\ withdrawals'[id] # withdrawals[id]
                        /\ withdrawals'[id].recipient = RewardVaultOf(a)
                        => a = authority
  <1>1. ASSUME Accounted, NEW id \in WithdrawalIds, NEW c \in Categories,
               NEW r \in Wallets \cup {RewardVaultOf(authority)}, NEW amount \in Nat,
               Pay(id, c, r, amount)
        PROVE  Good
    <2>1. withdrawals \in [WithdrawalIds -> WithdrawalRecords]
      BY <1>1 DEF Accounted, TypeOK
    <2>2. withdrawals' = [withdrawals EXCEPT ![id] =
             [category |-> c, recipient |-> r, amount |-> amount]]
      BY <1>1 DEF Pay
    <2>3. ASSUME NEW i \in WithdrawalIds, NEW a \in Authorities,
                 withdrawals'[i] # withdrawals[i],
                 withdrawals'[i].recipient = RewardVaultOf(a)
          PROVE  a = authority
      <3>1. i = id /\ r = RewardVaultOf(a)
        BY <2>1, <2>2, <2>3
      <3>2. r = RewardVaultOf(authority)
        BY <3>1, PartyAssumption
      <3> QED
        BY <3>1, <3>2 DEF RewardVaultOf
    <2> QED BY <2>3
  <1>2. ASSUME Accounted, [Next]_vars PROVE Good
    <2>0. /\ Creator \in Wallets /\ CreatorDirected \in Categories /\ Community \in Categories
      BY PartyAssumption DEF CreatorDirected, Community, Categories
    <2>1. CASE UNCHANGED withdrawals
      BY <2>1
    <2>2. ASSUME NEW a \in Authorities, NEW id \in WithdrawalIds, NEW c \in Categories,
                 NEW r \in Recipients, NEW amount \in Nat, DisburseStandard(a, id, c, r, amount)
          PROVE  Good
      <3>1. r \in Wallets \cup {RewardVaultOf(authority)} /\ Pay(id, c, r, amount)
        BY <2>0, <2>2 DEF DisburseStandard, IsCurrent, IsRewardVault
      <3> QED BY <1>1, <1>2, <3>1
    <2>3. ASSUME NEW a \in Authorities, NEW s \in Signatures, NEW id \in WithdrawalIds,
                 NEW amount \in Nat, DisburseToCreator(a, s, id, amount)
          PROVE  Good
      BY <1>1, <1>2, <2>0, <2>3 DEF DisburseToCreator, DisburseDirected
    <2>4. ASSUME NEW a \in Authorities, NEW s \in Signatures, NEW id \in WithdrawalIds,
                 NEW amount \in Nat, NEW holder \in Nat,
                 DisburseToClaimants(a, s, id, amount, holder)
          PROVE  Good
      <3>1. Pay(id, CreatorDirected, RewardVaultOf(authority), amount)
        BY <2>4 DEF DisburseToClaimants, DisburseDirected, IsCurrent
      <3> QED BY <1>1, <1>2, <2>0, <3>1
    <2>5. ASSUME NEW a \in Authorities, NEW s \in Signatures, NEW id \in WithdrawalIds,
                 NEW c \in Categories, NEW w \in Wallets, NEW amount \in Nat,
                 DisburseApproved(a, s, id, c, w, amount)
          PROVE  Good
      BY <1>1, <1>2, <2>5 DEF DisburseApproved
    <2>6. ASSUME NEW a \in Authorities, NEW s \in Signatures, NEW id \in WithdrawalIds,
                 NEW amount \in Nat, DisburseCommunity(a, s, id, amount)
          PROVE  Good
      <3>1. Pay(id, Community, RewardVaultOf(authority), amount)
        BY <2>6 DEF DisburseCommunity, IsCurrent
      <3> QED BY <1>1, <1>2, <2>0, <3>1
    <2> HIDE DEF Good
    <2> QED
      BY <1>2, <2>1, <2>2, <2>3, <2>4, <2>5, <2>6, ReceiptCases
  <1>3. Accounted /\ [Next]_vars => [Good]_vars
    BY <1>2
  <1> QED
    BY <1>3, InitAccounted, StepAccounted, PTL DEF Spec, PaidToCurrentVault

(* The strengthening the next three theorems share: before the launch      *)
(* nothing was spent or approved, and the payouts of an absent creator     *)
(* were made under an automation record that exists.                       *)
NothingBeforeLaunch ==
    kind = "none" =>
        /\ withdrawn[CreatorDirected] = 0
        /\ released = [b \in Beneficiaries |-> 0]
        /\ withdrawals = [id \in WithdrawalIds |-> NoWithdrawal]
        /\ approvals = [id \in WithdrawalIds |-> NoApproval]

PayoutsUnderRecord ==
    ~CreatorOnline /\ kind = "protected" =>
        \A id \in WithdrawalIds :
            withdrawals[id].category \in Approved =>
                /\ automation # NoAutomation
                /\ withdrawals[id].recipient = automation[withdrawals[id].category]

ReceiptInv ==
    NothingBeforeLaunch /\ PayoutsUnderRecord /\ ApprovalsSpentOnce /\ DirectedSharesKept

LEMMA InitReceipts == Init => ReceiptInv
  BY DEF Init, ReceiptInv, NothingBeforeLaunch, PayoutsUnderRecord, ApprovalsSpentOnce,
     DirectedSharesKept, CreatorDirected, Categories

(* A receipt is of an approved category exactly when the approval of its   *)
(* id is consumed.                                                         *)
LEMMA ApprovedReceipt ==
    ASSUME ReceiptInv, kind = "protected", NEW id \in WithdrawalIds
    PROVE  withdrawals[id].category \in Approved <=> approvals[id].consumed
  BY Zenon DEF ReceiptInv, ApprovalsSpentOnce

(* The receipt a payment writes, and the ones it leaves alone.             *)
LEMMA PayReceipt ==
    ASSUME Accounted, NEW id \in WithdrawalIds, NEW c, NEW r, NEW amount, Pay(id, c, r, amount)
    PROVE  /\ withdrawals'[id] = [category |-> c, recipient |-> r, amount |-> amount]
           /\ \A i \in WithdrawalIds : i # id => withdrawals'[i] = withdrawals[i]
           /\ UNCHANGED <<kind, automation, paid>>
  BY DEF Accounted, TypeOK, Pay

LEMMA FundingReceipts ==
    ASSUME Accounted, Accounted', ReceiptInv, Funding
    PROVE  ReceiptInv'
  <1> USE DEF policyVars, recordVars
  <1>1. ASSUME NEW k \in {"standard", "protected"}, InitializeMint(k)
        PROVE  ReceiptInv'
    <2>1. /\ withdrawn[CreatorDirected] = 0
          /\ released = [b \in Beneficiaries |-> 0]
          /\ withdrawals = [id \in WithdrawalIds |-> NoWithdrawal]
          /\ approvals = [id \in WithdrawalIds |-> NoApproval]
          /\ UNCHANGED <<withdrawn, released, withdrawals, approvals, paid>>
          /\ kind' # "none"
      BY <1>1 DEF InitializeMint, ReceiptInv, NothingBeforeLaunch
    <2>2. NothingBeforeLaunch' /\ PayoutsUnderRecord' /\ ApprovalsSpentOnce'
      BY <2>1 DEF NothingBeforeLaunch, PayoutsUnderRecord, ApprovalsSpentOnce, NoWithdrawal,
         NoApproval, Approved
    <2>3. \A b \in Beneficiaries :
            DirectedTotal * released'[b]
              < paid'[CreatorDirected] * DirectedUnits[b] + DirectedTotal
      <3>1. \A b \in Beneficiaries : DirectedTotal * released'[b] = 0
        BY <2>1, DirectedAssumption
      <3>2. \A b \in Beneficiaries : paid'[CreatorDirected] * DirectedUnits[b] \in Nat
        BY DirectedAssumption DEF Accounted, TypeOK, CreatorDirected, Categories
      <3> QED
        BY <3>1, <3>2, DirectedAssumption
    <2>4. DirectedSharesKept'
      BY <2>1, <2>3 DEF DirectedSharesKept, Total3, Beneficiaries
    <2> QED
      BY <2>2, <2>4 DEF ReceiptInv
  <1>2. ASSUME UNCHANGED <<kind, withdrawn, released, withdrawals, approvals, automation>>,
               paid'[CreatorDirected] >= paid[CreatorDirected]
        PROVE  ReceiptInv'
    <2>1. NothingBeforeLaunch' /\ PayoutsUnderRecord' /\ ApprovalsSpentOnce'
      BY <1>2 DEF ReceiptInv, NothingBeforeLaunch, PayoutsUnderRecord, ApprovalsSpentOnce
    <2>2. ASSUME NEW b \in Beneficiaries,
                 DirectedTotal * released[b]
                   < paid[CreatorDirected] * DirectedUnits[b] + DirectedTotal
          PROVE  DirectedTotal * released'[b]
                   < paid'[CreatorDirected] * DirectedUnits[b] + DirectedTotal
      <3>1. /\ paid[CreatorDirected] \in Nat /\ paid'[CreatorDirected] \in Nat
            /\ DirectedUnits[b] \in Nat /\ released[b] \in Nat /\ DirectedTotal \in Nat
        BY DirectedAssumption DEF Accounted, TypeOK, CreatorDirected, Categories
      <3>2. paid[CreatorDirected] * DirectedUnits[b] <= paid'[CreatorDirected] * DirectedUnits[b]
        BY <1>2, <3>1, MulMonotone
      <3>3. /\ DirectedTotal * released[b] \in Nat
            /\ paid[CreatorDirected] * DirectedUnits[b] \in Nat
            /\ paid'[CreatorDirected] * DirectedUnits[b] \in Nat
        BY <3>1, ProductInNat
      <3>4. released'[b] = released[b]
        BY <1>2
      <3> QED
        BY <2>2, <3>1, <3>2, <3>3, <3>4
    <2>3. DirectedSharesKept'
      BY <1>2, <2>2 DEF ReceiptInv, DirectedSharesKept, Total3
    <2> QED
      BY <2>1, <2>3 DEF ReceiptInv
  <1>3. paid[CreatorDirected] \in Nat /\ CreatorDirected \in Categories
    BY DEF Accounted, TypeOK, CreatorDirected, Categories
  <1>4. ASSUME NEW amount \in Collections, Deposit(amount) PROVE ReceiptInv'
    BY <1>2, <1>3, <1>4 DEF Deposit
  <1>5. ASSUME NEW c \in DonationTargets, NEW amount \in Payments, Donate(c, amount)
        PROVE  ReceiptInv'
    BY <1>2, <1>3, <1>5 DEF Donate
  <1>6. ASSUME NEW a \in Authorities, NEW id \in ClaimIds, NEW amount \in Collections,
               Settle(a, id, amount)
        PROVE  ReceiptInv'
    <2>1. /\ UNCHANGED <<kind, withdrawn, released, withdrawals, approvals, automation>>
          /\ paid'[CreatorDirected] >= paid[CreatorDirected]
      BY <1>3, <1>6 DEF Settle, AllocationExists
    <2> QED BY <1>2, <2>1
  <1> QED
    BY <1>1, <1>4, <1>5, <1>6 DEF Funding

LEMMA AdministrationReceipts ==
    ASSUME Accounted, ReceiptInv, Administration
    PROVE  ReceiptInv'
  <1> USE DEF policyVars, recordVars
  <1>1. ASSUME UNCHANGED <<kind, paid, withdrawn, released, withdrawals>>
        PROVE  DirectedSharesKept'
    BY <1>1 DEF ReceiptInv, DirectedSharesKept, Total3
  <1>2. ASSUME UNCHANGED <<kind, paid, withdrawn, released, withdrawals, approvals, automation>>
        PROVE  ReceiptInv'
    BY <1>1, <1>2 DEF ReceiptInv, NothingBeforeLaunch, PayoutsUnderRecord, ApprovalsSpentOnce
  <1>3. ASSUME NEW old \in Authorities, NEW new \in Authorities, Rotate(old, new)
        PROVE  ReceiptInv'
    BY <1>2, <1>3 DEF Rotate
  <1>4. ASSUME NEW a \in Authorities, InitializeRewardVault(a) PROVE ReceiptInv'
    BY <1>2, <1>4 DEF InitializeRewardVault
  <1>5. ASSUME NEW a \in Authorities, NEW r \in AutomationChoices, InitializeAutomation(a, r)
        PROVE  ReceiptInv'
    <2>1. /\ kind = "protected" /\ automation = NoAutomation
          /\ UNCHANGED <<kind, paid, withdrawn, released, withdrawals, approvals>>
      BY <1>5 DEF InitializeAutomation
    <2>2. PayoutsUnderRecord'
      BY <2>1 DEF ReceiptInv, PayoutsUnderRecord
    <2> QED
      BY <1>1, <2>1, <2>2 DEF ReceiptInv, NothingBeforeLaunch, ApprovalsSpentOnce
  <1>6. ASSUME NEW a \in Authorities, NEW s \in Signatures, NEW id \in WithdrawalIds,
               NEW c \in Categories, NEW w \in Wallets, NEW amount \in Payments,
               Approve(a, s, id, c, w, amount)
        PROVE  ReceiptInv'
    <2>1. /\ kind = "protected" /\ approvals[id] = NoApproval
          /\ approvals' = [approvals EXCEPT ![id] =
                [category |-> c, recipient |-> w, amount |-> amount, consumed |-> FALSE]]
          /\ UNCHANGED <<kind, paid, withdrawn, released, withdrawals, automation>>
      BY <1>6 DEF Approve
    <2>2. \A i \in WithdrawalIds : i # id => approvals'[i] = approvals[i]
      BY <2>1 DEF Accounted, TypeOK
    <2>3. ~approvals'[id].consumed
      BY <2>1 DEF Accounted, TypeOK
    <2>4. withdrawals[id].category \notin Approved
      <3>1. ~approvals[id].consumed
        BY <2>1 DEF NoApproval
      <3> QED
        BY <2>1, <3>1, ApprovedReceipt
    <2>5. ApprovalsSpentOnce'
      BY <2>1, <2>2, <2>3, <2>4 DEF ReceiptInv, ApprovalsSpentOnce
    <2> QED
      BY <1>1, <2>1, <2>5 DEF ReceiptInv, NothingBeforeLaunch, PayoutsUnderRecord
  <1> QED
    BY <1>3, <1>4, <1>5, <1>6 DEF Administration

(* A release that passed the share check leaves every share within one     *)
(* lamport of its worth.                                                   *)
LEMMA ReleaseKeepsShares ==
    ASSUME Accounted, NEW shares \in [Beneficiaries -> Nat], SharesWithinTargets(shares)
    PROVE  \A b \in Beneficiaries :
             DirectedTotal * shares[b] < paid[CreatorDirected] * DirectedUnits[b] + DirectedTotal
  <1> SUFFICES ASSUME NEW b \in Beneficiaries
               PROVE  DirectedTotal * shares[b]
                        < paid[CreatorDirected] * DirectedUnits[b] + DirectedTotal
    OBVIOUS
  <1> DEFINE p == paid[CreatorDirected]
             t == DirectedTarget(p, b)
  <1>1. p \in Nat
    BY DEF Accounted, TypeOK, CreatorDirected, Categories
  <1>2. t \in Nat /\ DirectedTotal * t < p * DirectedUnits[b] + DirectedTotal
    BY <1>1, DirectedTargetBound
  <1>3. shares[b] <= t
    BY DEF SharesWithinTargets
  <1>4. /\ shares[b] \in Nat /\ DirectedTotal \in Nat /\ DirectedUnits[b] \in Nat
    BY DirectedAssumption
  <1> HIDE DEF t, p
  <1>5. DirectedTotal * shares[b] <= DirectedTotal * t
    BY <1>2, <1>3, <1>4, MulMonotone
  <1>6. /\ DirectedTotal * shares[b] \in Nat /\ DirectedTotal * t \in Nat
        /\ p * DirectedUnits[b] \in Nat
    BY <1>1, <1>2, <1>4, ProductInNat
  <1>7. DirectedTotal * shares[b] < p * DirectedUnits[b] + DirectedTotal
    BY <1>2, <1>4, <1>5, <1>6
  <1> QED
    BY <1>7 DEF p

(* A category-0 release of a protected mint.                               *)
LEMMA DirectedReceipts ==
    ASSUME Accounted, ReceiptInv, NEW a \in Authorities, NEW s \in Signatures,
           NEW id \in WithdrawalIds, NEW r, NEW amount \in Nat,
           NEW shares \in [Beneficiaries -> Nat],
           Total3(shares) = Total3(released) + amount,
           DisburseDirected(a, s, id, r, amount, shares)
    PROVE  ReceiptInv'
  <1>1. /\ kind = "protected" /\ SharesWithinTargets(shares) /\ released' = shares
        /\ Pay(id, CreatorDirected, r, amount) /\ approvals' = approvals
    BY DEF DisburseDirected
  <1>2. /\ withdrawals'[id] = [category |-> CreatorDirected, recipient |-> r, amount |-> amount]
        /\ \A i \in WithdrawalIds : i # id => withdrawals'[i] = withdrawals[i]
        /\ UNCHANGED <<kind, automation, paid>>
    BY <1>1, PayReceipt
  <1>3. withdrawn'[CreatorDirected] = withdrawn[CreatorDirected] + amount
    BY <1>1 DEF Pay, Accounted, TypeOK, CreatorDirected, Categories
  <1>4. DirectedSharesKept'
    BY <1>1, <1>2, <1>3, ReleaseKeepsShares DEF ReceiptInv, DirectedSharesKept, Total3
  <1>5. withdrawals[id] = NoWithdrawal
    BY <1>1 DEF Pay, FirstUse
  <1>6. CreatorDirected \notin Approved
    BY DEF CreatorDirected, Approved
  <1>7. ~approvals[id].consumed
    <2>1. withdrawals[id].category \notin Approved
      BY <1>5 DEF NoWithdrawal, Approved
    <2> QED
      BY <1>1, <2>1, ApprovedReceipt
  <1>8. ApprovalsSpentOnce'
    BY <1>1, <1>2, <1>6, <1>7 DEF ReceiptInv, ApprovalsSpentOnce
  <1>9. PayoutsUnderRecord'
    BY <1>1, <1>2, <1>6 DEF ReceiptInv, PayoutsUnderRecord
  <1> QED
    BY <1>1, <1>2, <1>4, <1>8, <1>9 DEF ReceiptInv, NothingBeforeLaunch

LEMMA SpendingReceipts ==
    ASSUME Accounted, ReceiptInv, Spending
    PROVE  ReceiptInv'
  <1>0. /\ released \in [Beneficiaries -> Nat]
        /\ released[0] \in Nat /\ released[1] \in Nat /\ released[2] \in Nat
    BY DEF Accounted, TypeOK, Beneficiaries
  <1>1. ASSUME NEW a \in Authorities, NEW id \in BuybackIds, NEW maxDebit \in Nat,
               NEW spent \in Nat, Buyback(a, id, maxDebit, spent)
        PROVE  ReceiptInv'
    <2>1. /\ UNCHANGED <<kind, paid, released, withdrawals, approvals, automation>>
          /\ withdrawn'[CreatorDirected] = withdrawn[CreatorDirected]
      BY <1>1 DEF Buyback, BuybackCategory, CreatorDirected
    <2> QED
      BY <2>1 DEF ReceiptInv, NothingBeforeLaunch, PayoutsUnderRecord, ApprovalsSpentOnce,
         DirectedSharesKept, Total3
  <1>2. ASSUME NEW a \in Authorities, NEW id \in WithdrawalIds, NEW c \in Categories,
               NEW r \in Recipients, NEW amount \in Nat, DisburseStandard(a, id, c, r, amount)
        PROVE  ReceiptInv'
    <2>1. kind = "standard" /\ kind' = kind
      BY <1>2 DEF DisburseStandard, Pay
    <2> QED
      BY <2>1 DEF ReceiptInv, NothingBeforeLaunch, PayoutsUnderRecord, ApprovalsSpentOnce,
         DirectedSharesKept
  <1>3. ASSUME NEW a \in Authorities, NEW s \in Signatures, NEW id \in WithdrawalIds,
               NEW amount \in Nat, DisburseToCreator(a, s, id, amount)
        PROVE  ReceiptInv'
    <2> DEFINE shares == [released EXCEPT ![0] = @ + amount]
    <2>1. /\ shares \in [Beneficiaries -> Nat]
          /\ Total3(shares) = Total3(released) + amount
      BY <1>0 DEF Total3, Beneficiaries
    <2>2. DisburseDirected(a, s, id, Creator, amount, shares)
      BY <1>3 DEF DisburseToCreator
    <2> HIDE DEF shares
    <2> QED BY <2>1, <2>2, DirectedReceipts
  <1>4. ASSUME NEW a \in Authorities, NEW s \in Signatures, NEW id \in WithdrawalIds,
               NEW amount \in Nat, NEW holder \in Nat,
               DisburseToClaimants(a, s, id, amount, holder)
        PROVE  ReceiptInv'
    <2> DEFINE shares == [released EXCEPT ![1] = @ + holder, ![2] = @ + (amount - holder)]
    <2>1. holder <= amount /\ amount - holder \in Nat
      BY <1>4 DEF DisburseToClaimants
    <2>2. /\ shares \in [Beneficiaries -> Nat]
          /\ Total3(shares) = Total3(released) + amount
      BY <1>0, <2>1 DEF Total3, Beneficiaries
    <2>3. DisburseDirected(a, s, id, RewardVaultOf(a), amount, shares)
      BY <1>4 DEF DisburseToClaimants
    <2> HIDE DEF shares
    <2> QED BY <2>2, <2>3, DirectedReceipts
  <1>5. ASSUME NEW a \in Authorities, NEW s \in Signatures, NEW id \in WithdrawalIds,
               NEW c \in Categories, NEW w \in Wallets, NEW amount \in Nat,
               DisburseApproved(a, s, id, c, w, amount)
        PROVE  ReceiptInv'
    <2>1. /\ kind = "protected" /\ c \in Approved
          /\ Authorize(s, c, w)
          /\ approvals[id] = [category |-> c, recipient |-> w, amount |-> amount,
                              consumed |-> FALSE]
          /\ approvals' = [approvals EXCEPT ![id].consumed = TRUE]
          /\ released' = released
          /\ Pay(id, c, w, amount)
      BY <1>5 DEF DisburseApproved, MatchesApproval
    <2>2. /\ withdrawals'[id] = [category |-> c, recipient |-> w, amount |-> amount]
          /\ \A i \in WithdrawalIds : i # id => withdrawals'[i] = withdrawals[i]
          /\ UNCHANGED <<kind, automation, paid>>
      BY <2>1, PayReceipt
    <2>3. /\ approvals'[id].category = c
          /\ approvals'[id].recipient = w
          /\ approvals'[id].amount = amount
          /\ approvals'[id].consumed
          /\ \A i \in WithdrawalIds : i # id => approvals'[i] = approvals[i]
      <3>1. approvals \in [WithdrawalIds -> ApprovalRecords]
        BY DEF Accounted, TypeOK
      <3>2. approvals[id] \in ApprovalRecords
        BY <3>1
      <3>3. approvals'[id] = [approvals[id] EXCEPT !.consumed = TRUE]
        BY <2>1, <3>1
      <3>4. approvals[id].category = c /\ approvals[id].recipient = w /\ approvals[id].amount = amount
        BY <2>1
      <3>5. /\ approvals'[id].category = c
            /\ approvals'[id].recipient = w
            /\ approvals'[id].amount = amount
        BY <3>2, <3>3, <3>4 DEF ApprovalRecords
      <3>6. approvals'[id].consumed = TRUE
        BY <3>2, <3>3 DEF ApprovalRecords
      <3>7. \A i \in WithdrawalIds : i # id => approvals'[i] = approvals[i]
        BY <2>1, <3>1
      <3> QED
        BY <3>5, <3>6, <3>7
    <2>4. withdrawn'[CreatorDirected] = withdrawn[CreatorDirected]
      BY <2>1 DEF Pay, Approved, CreatorDirected, Accounted, TypeOK, Categories
    <2>5. ApprovalsSpentOnce'
      BY <2>1, <2>2, <2>3 DEF ReceiptInv, ApprovalsSpentOnce
    <2>6. PayoutsUnderRecord'
      <3>1. ~CreatorOnline => automation # NoAutomation /\ automation[c] = w
        BY <2>1 DEF Authorize, Signatures
      <3> QED
        BY <2>1, <2>2, <3>1 DEF ReceiptInv, PayoutsUnderRecord
    <2>7. DirectedSharesKept'
      BY <2>1, <2>2, <2>4 DEF ReceiptInv, DirectedSharesKept, Total3
    <2> QED
      BY <2>1, <2>2, <2>5, <2>6, <2>7 DEF ReceiptInv, NothingBeforeLaunch
  <1>6. ASSUME NEW a \in Authorities, NEW s \in Signatures, NEW id \in WithdrawalIds,
               NEW amount \in Nat, DisburseCommunity(a, s, id, amount)
        PROVE  ReceiptInv'
    <2>1. /\ kind = "protected" /\ UNCHANGED <<released, approvals>>
          /\ Pay(id, Community, RewardVaultOf(a), amount)
          /\ withdrawals[id] = NoWithdrawal
          /\ Community \notin Approved
      BY <1>6 DEF DisburseCommunity, Pay, FirstUse, Community, Approved
    <2>2. /\ withdrawals'[id] = [category |-> Community, recipient |-> RewardVaultOf(a),
                                 amount |-> amount]
          /\ \A i \in WithdrawalIds : i # id => withdrawals'[i] = withdrawals[i]
          /\ UNCHANGED <<kind, automation, paid>>
      BY <2>1, PayReceipt
    <2>3. ~approvals[id].consumed
      <3>1. withdrawals[id].category \notin Approved
        BY <2>1 DEF NoWithdrawal, Approved
      <3> QED
        BY <2>1, <3>1, ApprovedReceipt
    <2>4. withdrawn'[CreatorDirected] = withdrawn[CreatorDirected]
      BY <2>1 DEF Pay, Community, CreatorDirected, Accounted, TypeOK, Categories
    <2>5. ApprovalsSpentOnce'
      BY <2>1, <2>2, <2>3 DEF ReceiptInv, ApprovalsSpentOnce
    <2>6. PayoutsUnderRecord'
      BY <2>1, <2>2 DEF ReceiptInv, PayoutsUnderRecord
    <2>7. DirectedSharesKept'
      BY <2>1, <2>2, <2>4 DEF ReceiptInv, DirectedSharesKept, Total3
    <2> QED
      BY <2>1, <2>2, <2>5, <2>6, <2>7 DEF ReceiptInv, NothingBeforeLaunch
  <1> QED
    BY <1>1, <1>2, <1>3, <1>4, <1>5, <1>6, SpendingCases

LEMMA StepReceipts == Accounted /\ Accounted' /\ ReceiptInv /\ [Next]_vars => ReceiptInv'
  <1>1. ASSUME ReceiptInv, UNCHANGED vars PROVE ReceiptInv'
    BY <1>1 DEF ReceiptInv, NothingBeforeLaunch, PayoutsUnderRecord, ApprovalsSpentOnce,
       DirectedSharesKept, Total3, vars, policyVars, recordVars
  <1> QED
    BY <1>1, FundingReceipts, AdministrationReceipts, SpendingReceipts DEF Next

(* ApprovalsAreSpentOnce: a protected mint pays operations and referrals   *)
(* exactly once per approval, to the approved wallet, the approved amount. *)
THEOREM ApprovalsAreSpentOnce == Spec => []ApprovalsSpentOnce
  <1>1. ReceiptInv => ApprovalsSpentOnce
    BY DEF ReceiptInv
  <1> QED
    BY <1>1, InitAccounted, StepAccounted, InitReceipts, StepReceipts, PTL DEF Spec

(* DirectedSharesAreKept: no directed beneficiary is ever released a whole *)
(* lamport above the worth of its units, and the counters explain every    *)
(* lamport that left the creator-directed vault.                           *)
THEOREM DirectedSharesAreKept == Spec => []DirectedSharesKept
  <1>1. ReceiptInv => DirectedSharesKept
    BY DEF ReceiptInv
  <1> QED
    BY <1>1, InitAccounted, StepAccounted, InitReceipts, StepReceipts, PTL DEF Spec

(* OfflinePayoutsAreFrozen: without the creator's key every operations and *)
(* referral payment went to the wallet the automation record names.        *)
THEOREM OfflinePayoutsAreFrozen == Spec => []OfflinePayoutsFrozen
  <1>1. ReceiptInv => OfflinePayoutsFrozen
    BY DEF ReceiptInv, PayoutsUnderRecord, OfflinePayoutsFrozen
  <1> QED
    BY <1>1, InitAccounted, StepAccounted, InitReceipts, StepReceipts, PTL DEF Spec

-----------------------------------------------------------------------------
(* The records and the counters.  A sum over ids changes by what one step  *)
(* writes at one id, because the record at that id was empty before.       *)

(* Sums over all ids of what the claim records say of a category, and of   *)
(* what the withdrawal receipts say of it: a receipt of another category   *)
(* counts as 0.                                                            *)
ClaimedTotals == [id \in ClaimIds |-> claims[id].total]
ClaimedParts(c) == [id \in ClaimIds |-> claims[id].parts[c]]
ReceiptAmounts(c) ==
    [id \in WithdrawalIds |-> IF withdrawals[id].category = c THEN withdrawals[id].amount ELSE 0]
ReceiptSum(c) == SumFunctionOnSet(ReceiptAmounts(c), WithdrawalIds)

(* The sum over the receipts of one category is that sum, for the receipts *)
(* of any state.                                                           *)
LEMMA CategorySum ==
    ASSUME NEW w \in [WithdrawalIds -> WithdrawalRecords], NEW c
    PROVE  LET all == [id \in WithdrawalIds |-> IF w[id].category = c THEN w[id].amount ELSE 0]
               ofC == [id \in {id \in WithdrawalIds : w[id].category = c} |-> w[id].amount]
           IN  /\ SumFunction(ofC) = SumFunctionOnSet(all, WithdrawalIds)
               /\ SumFunctionOnSet(all, WithdrawalIds) \in Nat
  <1> DEFINE Ids == {id \in WithdrawalIds : w[id].category = c}
             amounts == [id \in Ids |-> w[id].amount]
             f == [id \in WithdrawalIds |-> IF w[id].category = c THEN w[id].amount ELSE 0]
  <1>1. \A id \in WithdrawalIds : w[id].amount \in Nat
    BY DEF WithdrawalRecords
  <1>2. /\ \A id \in WithdrawalIds : f[id] \in Nat
        /\ \A id \in WithdrawalIds \ Ids : f[id] = 0
        /\ \A id \in Ids : amounts[id] = f[id]
        /\ Ids \in SUBSET WithdrawalIds
        /\ DOMAIN amounts = Ids
    BY <1>1
  <1>3. IsFiniteSet(WithdrawalIds) /\ IsFiniteSet(Ids)
    BY <1>2, IdsAssumption, FS_Subset
  <1> HIDE DEF Ids, amounts, f
  <1>4. SumFunctionOnSet(amounts, Ids) = SumFunctionOnSet(f, Ids)
    BY <1>2, <1>3, SumSame
  <1>5. SumFunctionOnSet(f, WithdrawalIds) = SumFunctionOnSet(f, Ids)
    BY <1>2, <1>3, SumSupport
  <1>6. SumFunctionOnSet(f, WithdrawalIds) \in Nat
    BY <1>2, <1>3, SumType
  <1>7. SumFunction(amounts) = SumFunctionOnSet(amounts, Ids)
    BY <1>2 DEF SumFunction
  <1> QED BY <1>4, <1>5, <1>6, <1>7 DEF Ids, amounts, f

LEMMA CategoryReceipts ==
    ASSUME TypeOK, NEW c \in Categories
    PROVE  /\ SumFunction([id \in {id \in WithdrawalIds : withdrawals[id].category = c} |->
                              withdrawals[id].amount]) = ReceiptSum(c)
           /\ ReceiptSum(c) \in Nat
  BY CategorySum DEF TypeOK, ReceiptSum, ReceiptAmounts

(* What a category has spent, in these terms.                              *)
LEMMA SpendingExplained ==
    ASSUME TypeOK
    PROVE  ReceiptsExplainSpending <=>
             \A c \in Categories :
                withdrawn[c] = ReceiptSum(c) + IF c = BuybackCategory THEN SumFunction(buybacks) ELSE 0
  BY CategoryReceipts DEF ReceiptsExplainSpending

LEMMA ClaimsExplained ==
    ClaimsExplainBudgets <=>
        /\ settled = SumFunctionOnSet(ClaimedTotals, ClaimIds)
        /\ \A c \in Categories : paid[c] = SumFunctionOnSet(ClaimedParts(c), ClaimIds)
  BY DEF ClaimsExplainBudgets, ClaimedTotals, ClaimedParts, SumFunction

LEMMA BuybackSum ==
    ASSUME TypeOK
    PROVE  /\ SumFunction(buybacks) = SumFunctionOnSet(buybacks, BuybackIds)
           /\ SumFunction(buybacks) \in Nat
  <1>1. buybacks \in [BuybackIds -> Nat]
    BY DEF TypeOK
  <1>2. SumFunctionOnSet(buybacks, BuybackIds) \in Nat
    BY <1>1, IdsAssumption, SumType
  <1> QED BY <1>1, <1>2 DEF SumFunction

LEMMA RecordsInit == Init => RecordsExplainBudgets
  <1> SUFFICES ASSUME Init PROVE RecordsExplainBudgets
    OBVIOUS
  <1>0. TypeOK
    BY InitAccounted DEF Accounted
  <1>1. SumFunctionOnSet(ClaimedTotals, ClaimIds) = 0
    <2>1. \A id \in ClaimIds : ClaimedTotals[id] = 0
      BY DEF Init, ClaimedTotals, NoClaim
    <2> QED BY <2>1, IdsAssumption, SumZero
  <1>2. ASSUME NEW c \in Categories
        PROVE  SumFunctionOnSet(ClaimedParts(c), ClaimIds) = 0 /\ ReceiptSum(c) = 0
    <2>1. \A id \in ClaimIds : ClaimedParts(c)[id] = 0
      BY DEF Init, ClaimedParts, NoClaim
    <2>2. \A id \in WithdrawalIds : ReceiptAmounts(c)[id] = 0
      BY DEF Init, ReceiptAmounts, NoWithdrawal
    <2> QED BY <2>1, <2>2, IdsAssumption, SumZero DEF ReceiptSum
  <1>3. SumFunction(buybacks) = 0
    <2>1. \A id \in BuybackIds : buybacks[id] = 0
      BY DEF Init
    <2>2. SumFunctionOnSet(buybacks, BuybackIds) = 0
      BY <2>1, IdsAssumption, SumZero
    <2> QED BY <1>0, <2>2, BuybackSum
  <1>4. settled = 0 /\ \A c \in Categories : paid[c] = 0 /\ withdrawn[c] = 0
    BY DEF Init
  <1>5. ClaimsExplainBudgets
    BY <1>1, <1>2, <1>4, ClaimsExplained
  <1>6. ReceiptsExplainSpending
    BY <1>0, <1>2, <1>3, <1>4, SpendingExplained
  <1> QED BY <1>5, <1>6 DEF RecordsExplainBudgets

(* A settlement writes one claim record, empty before, with the amount and *)
(* what it adds to each budget.                                            *)
LEMMA SettleRecords ==
    ASSUME Accounted, Accounted', RecordsExplainBudgets, NEW a \in Authorities, NEW id \in ClaimIds,
           NEW amount \in Nat, Settle(a, id, amount)
    PROVE  RecordsExplainBudgets'
  <1> DEFINE targets == CategoryTargets(settled + amount)
             allocation == [c \in Categories |-> targets[c] - paid[c]]
  <1>1. /\ claims[id] = NoClaim
        /\ claims' = [claims EXCEPT ![id] = [total |-> amount, parts |-> allocation]]
        /\ settled' = settled + amount
        /\ paid' = targets
        /\ UNCHANGED <<withdrawn, withdrawals, buybacks>>
    BY DEF Settle, FirstClaim
  <1>2. \A c \in Categories : allocation[c] = targets[c] - paid[c]
    OBVIOUS
  <1> HIDE DEF targets, allocation
  <1>3. /\ claims \in [ClaimIds -> ClaimRecords] /\ claims' \in [ClaimIds -> ClaimRecords]
        /\ settled \in Nat /\ \A c \in Categories : paid[c] \in Nat /\ paid'[c] \in Nat
    BY DEF Accounted, TypeOK
  <1>4. /\ claims'[id].total = amount /\ claims'[id].parts = allocation
        /\ claims[id].total = 0 /\ \A c \in Categories : claims[id].parts[c] = 0
        /\ \A other \in ClaimIds \ {id} : claims'[other] = claims[other]
    BY <1>1, <1>3 DEF NoClaim
  <1>5. settled' = SumFunctionOnSet(ClaimedTotals', ClaimIds)
    <2> DEFINE f == ClaimedTotals
               g == ClaimedTotals'
    <2>1. /\ \A x \in ClaimIds : f[x] \in Int /\ g[x] \in Int
          /\ \A x \in ClaimIds \ {id} : g[x] = f[x]
          /\ f[id] = 0 /\ g[id] = amount
      BY <1>3, <1>4 DEF ClaimedTotals, ClaimRecords
    <2>2. settled = SumFunctionOnSet(f, ClaimIds)
      BY ClaimsExplained DEF RecordsExplainBudgets
    <2> HIDE DEF f, g
    <2>3. SumFunctionOnSet(g, ClaimIds) = SumFunctionOnSet(f, ClaimIds) + (g[id] - f[id])
      BY <2>1, IdsAssumption, SumChange
    <2>4. settled' = SumFunctionOnSet(g, ClaimIds)
      BY <1>1, <1>3, <2>1, <2>2, <2>3
    <2> QED BY <2>4 DEF g
  <1>6. ASSUME NEW c \in Categories
        PROVE  paid'[c] = SumFunctionOnSet(ClaimedParts(c)', ClaimIds)
    <2> DEFINE f == ClaimedParts(c)
               g == ClaimedParts(c)'
    <2>1. /\ \A x \in ClaimIds : f[x] \in Int /\ g[x] \in Int
          /\ \A x \in ClaimIds \ {id} : g[x] = f[x]
          /\ f[id] = 0 /\ g[id] = allocation[c]
      BY <1>3, <1>4 DEF ClaimedParts, ClaimRecords
    <2>2. paid[c] = SumFunctionOnSet(f, ClaimIds)
      BY ClaimsExplained DEF RecordsExplainBudgets
    <2> HIDE DEF f, g
    <2>3. SumFunctionOnSet(g, ClaimIds) = SumFunctionOnSet(f, ClaimIds) + (g[id] - f[id])
      BY <2>1, IdsAssumption, SumChange
    <2>4. paid'[c] = SumFunctionOnSet(g, ClaimIds)
      <3>1. paid'[c] = targets[c] /\ allocation[c] = paid'[c] - paid[c]
        BY <1>1, <1>2
      <3> QED BY <1>3, <2>1, <2>2, <2>3, <3>1
    <2> QED BY <2>4 DEF g
  <1>7. ClaimsExplainBudgets'
    BY <1>5, <1>6 DEF ClaimsExplainBudgets, ClaimedTotals, ClaimedParts, SumFunction
  <1>8. ReceiptsExplainSpending'
    BY <1>1 DEF RecordsExplainBudgets, ReceiptsExplainSpending
  <1> QED BY <1>7, <1>8 DEF RecordsExplainBudgets

(* A payment writes one receipt, empty before, with its category and       *)
(* amount.                                                                 *)
LEMMA PayRecords ==
    ASSUME Accounted, Accounted', RecordsExplainBudgets, NEW id \in WithdrawalIds, NEW c \in Categories,
           NEW r \in Recipients, NEW amount \in Nat, Disbursement(id, c, r, amount)
    PROVE  RecordsExplainBudgets'
  <1>1. /\ withdrawals[id] = NoWithdrawal
        /\ withdrawn' = [withdrawn EXCEPT ![c] = @ + amount]
        /\ withdrawals' = [withdrawals EXCEPT ![id] =
               [category |-> c, recipient |-> r, amount |-> amount]]
        /\ UNCHANGED <<settled, paid, claims, buybacks>>
    BY DEF Disbursement, Pay, FirstUse
  <1>2. /\ TypeOK /\ TypeOK'
        /\ withdrawals \in [WithdrawalIds -> WithdrawalRecords]
        /\ withdrawals' \in [WithdrawalIds -> WithdrawalRecords]
        /\ withdrawn \in [Categories -> Nat]
    BY DEF Accounted, TypeOK
  <1>3. /\ withdrawals'[id].category = c /\ withdrawals'[id].amount = amount
        /\ withdrawals[id].amount = 0
        /\ \A other \in WithdrawalIds \ {id} : withdrawals'[other] = withdrawals[other]
    BY <1>1, <1>2 DEF NoWithdrawal
  <1>4. ASSUME NEW d \in Categories
        PROVE  ReceiptSum(d)' = ReceiptSum(d) + IF d = c THEN amount ELSE 0
    <2> DEFINE f == ReceiptAmounts(d)
               g == ReceiptAmounts(d)'
    <2>1. /\ \A x \in WithdrawalIds : f[x] \in Int /\ g[x] \in Int
          /\ \A x \in WithdrawalIds \ {id} : g[x] = f[x]
          /\ f[id] = 0 /\ g[id] = IF d = c THEN amount ELSE 0
      BY <1>2, <1>3 DEF ReceiptAmounts, WithdrawalRecords
    <2>2. ReceiptSum(d) = SumFunctionOnSet(f, WithdrawalIds)
      BY DEF ReceiptSum
    <2>3. ReceiptSum(d)' = SumFunctionOnSet(g, WithdrawalIds)
      BY DEF ReceiptSum
    <2>4. ReceiptSum(d) \in Nat
      BY <1>2, CategoryReceipts
    <2> HIDE DEF f, g
    <2>5. SumFunctionOnSet(g, WithdrawalIds) =
              SumFunctionOnSet(f, WithdrawalIds) + (g[id] - f[id])
      BY <2>1, IdsAssumption, SumChange
    <2> QED BY <2>1, <2>2, <2>3, <2>4, <2>5
  <1>5. ASSUME NEW d \in Categories
        PROVE  withdrawn'[d] =
                 ReceiptSum(d)' + IF d = BuybackCategory THEN SumFunction(buybacks) ELSE 0
    <2>1. withdrawn[d] = ReceiptSum(d) + IF d = BuybackCategory THEN SumFunction(buybacks) ELSE 0
      BY <1>2, SpendingExplained DEF RecordsExplainBudgets
    <2>2. withdrawn'[d] = withdrawn[d] + IF d = c THEN amount ELSE 0
      BY <1>1, <1>2
    <2>3. ReceiptSum(d) \in Nat /\ SumFunction(buybacks) \in Nat
      BY <1>2, CategoryReceipts, BuybackSum
    <2> QED BY <1>4, <2>1, <2>2, <2>3
  <1>6. ASSUME NEW d \in Categories
        PROVE  SumFunction([i \in {i \in WithdrawalIds : withdrawals'[i].category = d} |->
                              withdrawals'[i].amount]) = ReceiptSum(d)'
    BY <1>2, CategorySum DEF ReceiptSum, ReceiptAmounts
  <1>7. ReceiptsExplainSpending'
    BY <1>1, <1>5, <1>6 DEF ReceiptsExplainSpending
  <1>8. ClaimsExplainBudgets'
    BY <1>1 DEF RecordsExplainBudgets, ClaimsExplainBudgets
  <1> QED BY <1>7, <1>8 DEF RecordsExplainBudgets

(* A buyback writes one receipt, empty before, with what it spent.         *)
LEMMA BuybackRecords ==
    ASSUME Accounted, Accounted', RecordsExplainBudgets, NEW a \in Authorities, NEW id \in BuybackIds,
           NEW maxDebit \in Nat, NEW spent \in Nat, Buyback(a, id, maxDebit, spent)
    PROVE  RecordsExplainBudgets'
  <1>1. /\ buybacks[id] = 0
        /\ withdrawn' = [withdrawn EXCEPT ![BuybackCategory] = @ + spent]
        /\ buybacks' = [buybacks EXCEPT ![id] = spent]
        /\ UNCHANGED <<settled, paid, claims, withdrawals>>
    BY DEF Buyback
  <1>2. /\ TypeOK /\ TypeOK'
        /\ buybacks \in [BuybackIds -> Nat] /\ buybacks' \in [BuybackIds -> Nat]
        /\ withdrawn \in [Categories -> Nat]
    BY DEF Accounted, TypeOK
  <1>3. SumFunction(buybacks') = SumFunction(buybacks) + spent
    <2>1. /\ \A x \in BuybackIds : buybacks[x] \in Int /\ buybacks'[x] \in Int
          /\ \A x \in BuybackIds \ {id} : buybacks'[x] = buybacks[x]
          /\ buybacks[id] = 0 /\ buybacks'[id] = spent
      BY <1>1, <1>2
    <2>2. SumFunctionOnSet(buybacks', BuybackIds) =
              SumFunctionOnSet(buybacks, BuybackIds) + (buybacks'[id] - buybacks[id])
      BY <2>1, IdsAssumption, SumChange
    <2>3. /\ SumFunction(buybacks) = SumFunctionOnSet(buybacks, BuybackIds)
          /\ SumFunction(buybacks') = SumFunctionOnSet(buybacks', BuybackIds)
      BY <1>2 DEF SumFunction
    <2> QED BY <2>1, <2>2, <2>3
  <1>4. ASSUME NEW d \in Categories
        PROVE  withdrawn'[d] =
                 ReceiptSum(d) + IF d = BuybackCategory THEN SumFunction(buybacks') ELSE 0
    <2>1. withdrawn[d] = ReceiptSum(d) + IF d = BuybackCategory THEN SumFunction(buybacks) ELSE 0
      BY <1>2, SpendingExplained DEF RecordsExplainBudgets
    <2>2. withdrawn'[d] = withdrawn[d] + IF d = BuybackCategory THEN spent ELSE 0
      BY <1>1, <1>2
    <2>3. ReceiptSum(d) \in Nat /\ SumFunction(buybacks) \in Nat
      BY <1>2, CategoryReceipts, BuybackSum
    <2> QED BY <1>3, <2>1, <2>2, <2>3
  <1>5. ReceiptsExplainSpending'
    BY <1>1, <1>2, <1>4, CategoryReceipts DEF ReceiptsExplainSpending
  <1>6. ClaimsExplainBudgets'
    BY <1>1 DEF RecordsExplainBudgets, ClaimsExplainBudgets
  <1> QED BY <1>5, <1>6 DEF RecordsExplainBudgets

LEMMA StepRecords == Accounted /\ Accounted' /\ RecordsExplainBudgets /\ [Next]_vars => RecordsExplainBudgets'
  <1> SUFFICES ASSUME Accounted, Accounted', RecordsExplainBudgets, [Next]_vars PROVE RecordsExplainBudgets'
    OBVIOUS
  <1>1. CASE UNCHANGED <<vault, settled, paid, withdrawn, claims, withdrawals, buybacks>>
    BY <1>1 DEF RecordsExplainBudgets, ClaimsExplainBudgets, ReceiptsExplainSpending
  <1>2. ASSUME NEW c \in DonationTargets, NEW amount \in Payments, Donate(c, amount)
        PROVE  RecordsExplainBudgets'
    BY <1>2 DEF Donate, policyVars, recordVars, RecordsExplainBudgets, ClaimsExplainBudgets,
       ReceiptsExplainSpending
  <1>3. ASSUME NEW a \in Authorities, NEW id \in ClaimIds, NEW amount \in Collections,
               Settle(a, id, amount)
        PROVE  RecordsExplainBudgets'
    <2>1. amount \in Nat
      BY LamportAssumption
    <2> QED BY <1>3, <2>1, SettleRecords
  <1>4. ASSUME NEW a \in Authorities, NEW id \in BuybackIds, NEW maxDebit \in Nat,
               NEW spent \in Nat, Buyback(a, id, maxDebit, spent)
        PROVE  RecordsExplainBudgets'
    BY <1>4, BuybackRecords
  <1>5. ASSUME NEW id \in WithdrawalIds, NEW c \in Categories, NEW r \in Recipients,
               NEW amount \in Nat, Disbursement(id, c, r, amount)
        PROVE  RecordsExplainBudgets'
    BY <1>5, PayRecords
  <1> QED
    BY <1>1, <1>2, <1>3, <1>4, <1>5, VaultCases

(* RecordsExplain: however settlements, disbursements and buybacks         *)
(* interleave, for any finite set of ids, the settled total and every      *)
(* budget are the sums of the claim records, and what a category has spent *)
(* is the sum of its receipts (settle_collection, the disbursement         *)
(* handlers and buyback_mint_v3).                                          *)
THEOREM RecordsExplain == Spec => []RecordsExplainBudgets
  <1> QED
    BY InitAccounted, StepAccounted, RecordsInit, StepRecords, PTL DEF Spec

(* Every lamport ever settled is in a budget or named by a receipt.  The   *)
(* receipts are added up category by category.                             *)
EveryLamportAccounted ==
    settled = (Total7(paid) - Total7(withdrawn))
              + SumFunction([id \in WithdrawalIds |-> withdrawals[id].amount])
              + SumFunction(buybacks)

ReceiptsUpTo(c) ==
    [id \in WithdrawalIds |-> IF withdrawals[id].category <= c THEN withdrawals[id].amount ELSE 0]

LEMMA OneCategoryMore ==
    ASSUME TypeOK, NEW c \in Categories \ {0}
    PROVE  SumFunctionOnSet(ReceiptsUpTo(c), WithdrawalIds)
             = SumFunctionOnSet(ReceiptsUpTo(c - 1), WithdrawalIds) + ReceiptSum(c)
  <1> DEFINE f == ReceiptsUpTo(c - 1)
             g == ReceiptAmounts(c)
             h == ReceiptsUpTo(c)
  <1>1. \A id \in WithdrawalIds :
           withdrawals[id].category \in 0 .. 6 /\ withdrawals[id].amount \in Nat
    BY DEF TypeOK, WithdrawalRecords, Categories
  <1>2. \A id \in WithdrawalIds : f[id] \in Int /\ g[id] \in Int /\ h[id] = f[id] + g[id]
    BY <1>1 DEF ReceiptsUpTo, ReceiptAmounts, Categories
  <1> HIDE DEF f, g, h
  <1>3. SumFunctionOnSet(h, WithdrawalIds)
          = SumFunctionOnSet(f, WithdrawalIds) + SumFunctionOnSet(g, WithdrawalIds)
    BY <1>2, IdsAssumption, SumAdd
  <1> QED BY <1>3 DEF f, g, h, ReceiptSum

LEMMA ReceiptsByCategory ==
    ASSUME TypeOK
    PROVE  SumFunction([id \in WithdrawalIds |-> withdrawals[id].amount])
             = Total7([c \in Categories |-> ReceiptSum(c)])
  <1> DEFINE amounts == [id \in WithdrawalIds |-> withdrawals[id].amount]
             upTo(c) == SumFunctionOnSet(ReceiptsUpTo(c), WithdrawalIds)
  <1>1. \A id \in WithdrawalIds :
           withdrawals[id].category \in 0 .. 6 /\ withdrawals[id].amount \in Nat
    BY DEF TypeOK, WithdrawalRecords, Categories
  <1>2. SumFunction(amounts) = upTo(6)
    <2>1. \A id \in WithdrawalIds : amounts[id] = ReceiptsUpTo(6)[id] /\ amounts[id] \in Int
      BY <1>1 DEF ReceiptsUpTo
    <2>2. SumFunctionOnSet(amounts, WithdrawalIds) = upTo(6)
      <3> HIDE DEF amounts
      <3> QED BY <2>1, IdsAssumption, SumSame
    <2> QED BY <2>2 DEF SumFunction
  <1>3. upTo(0) = ReceiptSum(0)
    <2>1. \A id \in WithdrawalIds :
             ReceiptsUpTo(0)[id] = ReceiptAmounts(0)[id] /\ ReceiptsUpTo(0)[id] \in Int
      BY <1>1 DEF ReceiptsUpTo, ReceiptAmounts
    <2> QED BY <2>1, IdsAssumption, SumSame DEF ReceiptSum
  <1>4. /\ upTo(1) = upTo(0) + ReceiptSum(1) /\ upTo(2) = upTo(1) + ReceiptSum(2)
        /\ upTo(3) = upTo(2) + ReceiptSum(3) /\ upTo(4) = upTo(3) + ReceiptSum(4)
        /\ upTo(5) = upTo(4) + ReceiptSum(5) /\ upTo(6) = upTo(5) + ReceiptSum(6)
    <2>1. /\ upTo(1) = upTo(1 - 1) + ReceiptSum(1) /\ upTo(2) = upTo(2 - 1) + ReceiptSum(2)
          /\ upTo(3) = upTo(3 - 1) + ReceiptSum(3) /\ upTo(4) = upTo(4 - 1) + ReceiptSum(4)
          /\ upTo(5) = upTo(5 - 1) + ReceiptSum(5) /\ upTo(6) = upTo(6 - 1) + ReceiptSum(6)
      BY OneCategoryMore DEF Categories
    <2>2. 1 - 1 = 0 /\ 2 - 1 = 1 /\ 3 - 1 = 2 /\ 4 - 1 = 3 /\ 5 - 1 = 4 /\ 6 - 1 = 5
      OBVIOUS
    <2> QED BY <2>1, <2>2
  <1>5. \A c \in Categories : ReceiptSum(c) \in Nat
    BY CategoryReceipts
  <1> HIDE DEF amounts, upTo
  <1>6. SumFunction(amounts) = Total7([c \in Categories |-> ReceiptSum(c)])
    BY <1>2, <1>3, <1>4, <1>5 DEF Total7, Categories
  <1> QED BY <1>6 DEF amounts

(* NoLamportLost: however settlements and payments interleave, the settled *)
(* lamports are the unspent budgets and the amounts of all receipts; what  *)
(* SplitIsExact and RecordsExplain say category by category, added up.     *)
THEOREM NoLamportLost == Spec => []EveryLamportAccounted
  <1>1. ASSUME Accounted, SplitExact, RecordsExplainBudgets
        PROVE  EveryLamportAccounted
    <2>1. TypeOK
      BY <1>1 DEF Accounted
    <2>2. \A c \in Categories : ReceiptSum(c) \in Nat
      BY <2>1, CategoryReceipts
    <2>3. SumFunction(buybacks) \in Nat
      BY <2>1, BuybackSum
    <2>4. \A c \in Categories :
             withdrawn[c] = ReceiptSum(c) + IF c = BuybackCategory THEN SumFunction(buybacks) ELSE 0
      BY <1>1, <2>1, SpendingExplained DEF RecordsExplainBudgets
    <2>5. /\ withdrawn[0] = ReceiptSum(0) /\ withdrawn[1] = ReceiptSum(1)
          /\ withdrawn[2] = ReceiptSum(2) /\ withdrawn[3] = ReceiptSum(3)
          /\ withdrawn[4] = ReceiptSum(4) /\ withdrawn[5] = ReceiptSum(5)
          /\ withdrawn[6] = ReceiptSum(6) + SumFunction(buybacks)
      BY <2>2, <2>4 DEF Categories, BuybackCategory
    <2>6. Total7([c \in Categories |-> ReceiptSum(c)]) + SumFunction(buybacks) = Total7(withdrawn)
      BY <2>2, <2>3, <2>5 DEF Total7, Categories
    <2>7. Total7(paid) = settled /\ settled \in Nat
      BY <1>1, <2>1 DEF SplitExact, TypeOK
    <2>8. Total7([c \in Categories |-> ReceiptSum(c)]) \in Nat
      BY <2>2 DEF Total7, Categories
    <2> QED BY <2>1, <2>3, <2>6, <2>7, <2>8, ReceiptsByCategory DEF EveryLamportAccounted
  <1> QED
    BY <1>1, InitAccounted, StepAccounted, SplitIsExact, RecordsExplain, PTL DEF Spec

-----------------------------------------------------------------------------
(* The router implements the budget ledger.                                *)

LEMMA LedgerInit == Init => Ledger!Init
  BY DEF Init, Ledger!Init, Ledger!Unused, Receipts, NoWithdrawal

(* A payment uses one unused receipt for one category.                     *)
LEMMA PaymentSpends ==
    ASSUME Accounted, NEW id \in WithdrawalIds, NEW c \in Categories, NEW r \in Recipients,
           NEW amount \in Nat, Disbursement(id, c, r, amount)
    PROVE  Ledger!Spend(id, c)
  <1> DEFINE receipt == [category |-> c, amount |-> amount]
  <1>1. /\ withdrawn \in [Categories -> Nat] /\ paid \in [Categories -> Nat]
        /\ withdrawals \in [WithdrawalIds -> WithdrawalRecords]
    BY DEF Accounted, TypeOK
  <1>2. /\ withdrawals[id] = NoWithdrawal
        /\ amount > 0
        /\ withdrawn[c] + amount <= paid[c]
        /\ withdrawn' = [withdrawn EXCEPT ![c] = @ + amount]
        /\ withdrawals' = [withdrawals EXCEPT ![id] =
               [category |-> c, recipient |-> r, amount |-> amount]]
        /\ UNCHANGED <<settled, paid, buybacks>>
    BY DEF Disbursement, Pay, FirstUse, InBudget
  <1>3. withdrawn'[c] - withdrawn[c] = amount /\ withdrawn'[c] <= paid[c]
    BY <1>1, <1>2
  <1>4. Receipts[id] = Ledger!Unused
    BY <1>2 DEF Receipts, NoWithdrawal, Ledger!Unused
  <1>5. Receipts' = [Receipts EXCEPT ![id] = receipt]
    <2>1. \A i \in WithdrawalIds : i # id => withdrawals'[i] = withdrawals[i]
      BY <1>1, <1>2
    <2>2. /\ withdrawals'[id].category = c /\ withdrawals'[id].amount = amount
      BY <1>1, <1>2
    <2> QED BY <1>2, <2>1, <2>2 DEF Receipts
  <1> QED
    BY <1>2, <1>3, <1>4, <1>5 DEF Ledger!Spend

(* A buyback uses one unused receipt for the buyback category.             *)
LEMMA BuybackSpends ==
    ASSUME Accounted, NEW a \in Authorities, NEW id \in BuybackIds,
           NEW maxDebit \in Nat, NEW spent \in Nat, Buyback(a, id, maxDebit, spent)
    PROVE  Ledger!Spend(id, BuybackCategory)
  <1> DEFINE c == BuybackCategory
             receipt == [category |-> c, amount |-> spent]
  <1>1. /\ withdrawn \in [Categories -> Nat] /\ paid \in [Categories -> Nat]
        /\ buybacks \in [BuybackIds -> Nat] /\ c \in Categories
        /\ id \notin WithdrawalIds
    BY PartyAssumption DEF Accounted, TypeOK, BuybackCategory, Categories
  <1>2. /\ buybacks[id] = 0
        /\ spent > 0
        /\ withdrawn[c] + maxDebit <= paid[c] /\ spent <= maxDebit
        /\ withdrawn' = [withdrawn EXCEPT ![c] = @ + spent]
        /\ buybacks' = [buybacks EXCEPT ![id] = spent]
        /\ UNCHANGED <<settled, paid, withdrawals>>
    BY DEF Buyback, InBudget
  <1> HIDE DEF c
  <1>3. withdrawn'[c] - withdrawn[c] = spent /\ withdrawn'[c] <= paid[c]
    BY <1>1, <1>2
  <1>4. Receipts[id] = Ledger!Unused
    BY <1>1, <1>2 DEF Receipts, Ledger!Unused
  <1>5. Receipts' = [Receipts EXCEPT ![id] = receipt]
    <2>1. \A i \in BuybackIds : i # id => buybacks'[i] = buybacks[i]
      BY <1>1, <1>2
    <2>2. buybacks'[id] = spent /\ spent # 0
      BY <1>1, <1>2
    <2> QED BY <1>1, <1>2, <2>1, <2>2 DEF Receipts, c
  <1>6. Ledger!Spend(id, c)
    BY <1>2, <1>3, <1>4, <1>5 DEF Ledger!Spend
  <1> QED BY <1>6 DEF c

(* A settlement assigns everything collected and takes nothing back.       *)
LEMMA SettleCollects ==
    ASSUME Accounted, Accounted', NEW a \in Authorities, NEW id \in ClaimIds,
           NEW amount \in Collections, Settle(a, id, amount)
    PROVE  Ledger!Collect
  <1>1. settled' > settled
    BY LamportAssumption DEF Settle, Accounted, TypeOK
  <1>2. \A c \in Categories : paid'[c] >= paid[c]
    BY DEF Settle, AllocationExists
  <1>3. Total7(paid') = settled'
    <2>1. settled' \in Nat /\ paid' = CategoryTargets(settled')
      BY DEF Accounted, TypeOK, PaidFollowsSettled, CategoryTargets, CategoryTarget, CategoryEnd
    <2> QED BY <2>1, TargetsExact
  <1>4. UNCHANGED <<withdrawn, Receipts>>
    BY DEF Settle, Receipts
  <1> QED BY <1>1, <1>2, <1>3, <1>4 DEF Ledger!Collect

LEMMA LedgerStep ==
    ASSUME Accounted, Accounted', [Next]_vars
    PROVE  [Ledger!Next]_(Ledger!vars)
  <1>1. CASE UNCHANGED <<settled, paid, withdrawn, withdrawals, buybacks>>
    BY <1>1 DEF Ledger!vars, Receipts
  <1>2. ASSUME NEW a \in Authorities, NEW id \in ClaimIds, NEW amount \in Collections,
               Settle(a, id, amount)
        PROVE  Ledger!Next
    BY <1>2, SettleCollects DEF Ledger!Next
  <1>3. ASSUME NEW a \in Authorities, NEW id \in BuybackIds, NEW maxDebit \in Nat,
               NEW spent \in Nat, Buyback(a, id, maxDebit, spent)
        PROVE  Ledger!Next
    <2>1. BuybackCategory \in Categories
      BY DEF BuybackCategory, Categories
    <2>2. Ledger!Spend(id, BuybackCategory)
      BY <1>3, BuybackSpends
    <2> QED BY <2>1, <2>2 DEF Ledger!Next
  <1>4. ASSUME NEW id \in WithdrawalIds, NEW c \in Categories, NEW r \in Recipients,
               NEW amount \in Nat, Disbursement(id, c, r, amount)
        PROVE  Ledger!Next
    BY <1>4, PaymentSpends DEF Ledger!Next
  <1>5. ASSUME NEW c \in DonationTargets, NEW amount \in Payments, Donate(c, amount)
        PROVE  UNCHANGED <<settled, paid, withdrawn, withdrawals, buybacks>>
    BY <1>5 DEF Donate, policyVars, recordVars
  <1> QED
    BY <1>1, <1>2, <1>3, <1>4, <1>5, VaultCases

(* RouterImplementsLedger: the accounts of the router, whatever the rates, *)
(* keys and interleaving, are a budget ledger: everything collected is     *)
(* assigned once and spent at most once, each receipt used once.           *)
THEOREM RouterImplementsLedger == Spec => LedgerKept
  <1>1. Accounted /\ Accounted' /\ [Next]_vars => [Ledger!Next]_(Ledger!vars)
    BY LedgerStep
  <1>2. Spec => []Accounted
    BY InitAccounted, StepAccounted, PTL DEF Spec
  <1> QED
    BY <1>1, <1>2, LedgerInit, PTL DEF Spec, LedgerKept, Ledger!Spec
=============================================================================
