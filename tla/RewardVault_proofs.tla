-------------------------- MODULE RewardVault_proofs --------------------------
(***************************************************************************)
(* What holds of reward vaults for all authorities, assets, cycles, trees  *)
(* and amounts, and of the airdrop that may take its tokens from one.      *)
(*                                                                         *)
(* CommitmentsCovered is inductive once types are known: every handler     *)
(* that raises outstanding compares the new value with what is available,  *)
(* and every payout lowers both by the same amount.  The facts about       *)
(* payments are inductive cycle by cycle.  The reserve of an asset is the  *)
(* sum of what its cycles owe, because a step writes one cycle and changes *)
(* outstanding by what that cycle's debt changes.  From these three it     *)
(* follows that a leaf that fits in its cycle can be paid.                 *)
(*                                                                         *)
(* A step of the vaults leaves the drop alone, so these lemmas carry over  *)
(* to CommunityDrop: of the drop's steps only OpenFromRewardVault touches  *)
(* a vault, and it takes tokens of which none is promised.  The inductive  *)
(* invariant adds to the checked properties that a drop is only opened     *)
(* under an approval, so the approval cannot be replaced afterwards.       *)
(***************************************************************************)
EXTENDS CommunityDrop, SumTheorems

-----------------------------------------------------------------------------
(* The cycle that CreateCycle writes, and a cycle after a payout, have the *)
(* type of a cycle account.                                                *)
LEMMA NoCycleType == NoCycle \in CycleRecords
BY AssetAssumption DEF NoCycle, CycleRecords, Leaves

LEMMA CreatedCycleType ==
    ASSUME NEW asset \in Assets, NEW leaves \in Commitments, NEW total \in Nat, NEW t \in Nat
    PROVE  [stage |-> "reserved", asset |-> asset, leaves |-> leaves, total |-> total,
            payoutAt |-> t, distributed |-> 0, paid |-> [r \in Recipients |-> 0]] \in CycleRecords
BY CommitmentAssumption DEF CycleRecords

(* The same for any type of leaves: a payout writes two fields.            *)
LEMMA TwoFieldsWritten ==
    ASSUME NEW Stage, NEW Asset, NEW Tree, NEW Wallet,
           NEW c \in [stage : Stage, asset : Asset, leaves : Tree, total : Nat, payoutAt : Nat,
                      distributed : Nat, paid : [Wallet -> Nat]],
           NEW r \in Wallet, NEW n \in Nat, NEW amount \in Nat
    PROVE  [c EXCEPT !.distributed = n, !.paid[r] = amount]
              \in [stage : Stage, asset : Asset, leaves : Tree, total : Nat, payoutAt : Nat,
                   distributed : Nat, paid : [Wallet -> Nat]]
OBVIOUS

LEMMA PaidCycleType ==
    ASSUME NEW c \in CycleRecords, NEW r \in Recipients, NEW amount \in Nat
    PROVE  [c EXCEPT !.distributed = @ + amount, !.paid[r] = amount] \in CycleRecords
<1> DEFINE n == c.distributed + amount
           Stage == {"none", "legacy", "reserved"}
           Tree == Seq(Leaves)
<1>1. n \in Nat
  BY DEF CycleRecords
<1>2. CycleRecords = [stage : Stage, asset : Assets, leaves : Tree, total : Nat, payoutAt : Nat,
                      distributed : Nat, paid : [Recipients -> Nat]]
  BY DEF CycleRecords
<1> HIDE DEF n, Stage, Tree
<1>3. [c EXCEPT !.distributed = n, !.paid[r] = amount] \in CycleRecords
  BY <1>1, <1>2, TwoFieldsWritten
<1> QED BY <1>3 DEF n

(* A leaf of a cycle names a recipient and a natural amount.               *)
LEMMA LeafType ==
    ASSUME NEW c \in CycleRecords, NEW i \in DOMAIN c.leaves
    PROVE  c.leaves[i].to \in Recipients /\ c.leaves[i].amount \in Nat
<1>1. c.leaves \in Seq(Leaves)
  BY DEF CycleRecords
<1>2. c.leaves[i] \in Leaves
  BY <1>1
<1> QED BY <1>2 DEF Leaves

-----------------------------------------------------------------------------
LEMMA TypeInit == Init => TypeOK
<1> SUFFICES ASSUME Init PROVE TypeOK
  OBVIOUS
<1>1. vaults \subseteq Authorities
  BY LegacyAssumption DEF Init, Keys
<1>2. cycles \in [Keys -> CycleRecords]
  BY LegacyAssumption, NoCycleType DEF Init
<1> QED BY AssetAssumption, AmountAssumption, <1>1, <1>2 DEF Init, TypeOK, Reserves

LEMMA TypeStep ==
    ASSUME TypeOK, [Next]_vars
    PROVE  TypeOK'
<1> USE DEF TypeOK
<1>1. CASE Tick
  BY <1>1 DEF Tick
<1>2. CASE \E v \in Reserves, amount \in Deposits : Fund(v, amount)
  BY AmountAssumption, <1>2 DEF Fund
<1>3. CASE \E new \in Authorities \ {authority} : Rotate(new)
  BY <1>3 DEF Rotate
<1>4. CASE \E a \in Authorities : InitializeVault(a)
  BY AssetAssumption, AmountAssumption, <1>4 DEF InitializeVault, Reserves
<1>5. CASE \E a \in Authorities, asset \in Assets : InitializeReserve(a, asset)
  BY <1>5 DEF InitializeReserve, Reserves
<1>6. CASE \E a \in Authorities, id \in CycleIds, asset \in Assets, leaves \in Commitments,
              total \in Totals, payoutAt \in PayoutTimes :
              CreateCycle(a, id, asset, leaves, total, payoutAt)
  <2> SUFFICES ASSUME NEW a \in Authorities, NEW id \in CycleIds, NEW asset \in Assets,
                      NEW leaves \in Commitments, NEW total \in Totals,
                      NEW payoutAt \in PayoutTimes,
                      CreateCycle(a, id, asset, leaves, total, payoutAt)
               PROVE  TypeOK'
    BY <1>6
  <2>1. cycles' \in [Keys -> CycleRecords]
    BY AmountAssumption, CreatedCycleType DEF CreateCycle
  <2>2. outstanding' \in [Reserves -> Nat]
    BY AmountAssumption DEF CreateCycle, Committed, Reserves
  <2> QED BY <2>1, <2>2 DEF CreateCycle
<1>7. CASE \E a \in Authorities, id \in CycleIds : MigrateCycle(a, id)
  <2> SUFFICES ASSUME NEW a \in Authorities, NEW id \in CycleIds, MigrateCycle(a, id)
               PROVE  TypeOK'
    BY <1>7
  <2> DEFINE k == <<a, id>>
  <2>1. cycles[k] \in CycleRecords
    BY DEF Keys
  <2>2. [cycles[k] EXCEPT !.stage = "reserved"] \in CycleRecords
    BY <2>1 DEF CycleRecords
  <2>3. cycles' \in [Keys -> CycleRecords]
    BY <2>2 DEF MigrateCycle, Keys
  <2>4. outstanding' \in [Reserves -> Nat]
    BY <2>1 DEF MigrateCycle, Committed, Unpaid, Reserves, CycleRecords
  <2> QED BY <2>3, <2>4 DEF MigrateCycle
<1>8. CASE \E k \in Keys, i \in 1..MaxLeaves : Payout(k, i)
  <2> SUFFICES ASSUME NEW k \in Keys, NEW i \in 1..MaxLeaves, Payout(k, i)
               PROVE  TypeOK'
    BY <1>8
  <2> DEFINE c == cycles[k]
             v == <<k[1], c.asset>>
  <2>1. c \in CycleRecords /\ i \in DOMAIN c.leaves
    BY DEF Payout
  <2>2. c.leaves[i].to \in Recipients /\ c.leaves[i].amount \in Nat
    BY <2>1, LeafType
  <2>3. cycles' \in [Keys -> CycleRecords]
    BY <2>1, <2>2, PaidCycleType DEF Payout
  <2>4. v \in Reserves /\ outstanding[v] \in Nat /\ balance[v] \in Nat
    BY DEF Payout
  <2>5. c.leaves[i].amount <= outstanding[v] /\ c.leaves[i].amount <= balance[v]
    BY AmountAssumption, <2>2, <2>4 DEF Payout, Affordable, Available
  <2>6. outstanding' \in [Reserves -> Nat]
    BY <2>2, <2>4, <2>5 DEF Payout
  <2>7. balance' \in [Reserves -> Nat]
    BY <2>2, <2>4, <2>5 DEF Payout
  <2> QED BY <2>3, <2>6, <2>7 DEF Payout
<1>9. CASE UNCHANGED vars
  BY <1>9 DEF vars
<1> QED BY <1>1, <1>2, <1>3, <1>4, <1>5, <1>6, <1>7, <1>8, <1>9 DEF Next

(* TypeCorrect: no handler leaves an account in an impossible state; in    *)
(* particular no subtraction of a payout goes below zero.                  *)
THEOREM TypeCorrect == Spec => []TypeOK
<1>1. TypeOK /\ [Next]_vars => TypeOK'
  BY TypeStep
<1> QED BY <1>1, TypeInit, PTL DEF Spec

-----------------------------------------------------------------------------
(* A balance that is at least as large makes at least as much available,   *)
(* and taking an available amount lowers what is available by it.          *)
LEMMA AvailableAfter ==
    ASSUME TypeOK, TypeOK', NEW v \in Reserves, NEW amount \in Nat
    PROVE  /\ Available(v) \in Nat
           /\ balance'[v] >= balance[v] => Available(v)' >= Available(v)
           /\ amount <= Available(v) /\ balance'[v] = balance[v] - amount
                => Available(v)' >= Available(v) - amount
BY AmountAssumption DEF TypeOK, Available

LEMMA CommitmentsCoveredInit == Init => CommitmentsCovered
BY AmountAssumption, LegacyAssumption DEF Init, CommitmentsCovered, Available, Reserves

LEMMA CommitmentsCoveredStep ==
    ASSUME TypeOK, TypeOK', CommitmentsCovered, [Next]_vars
    PROVE  CommitmentsCovered'
<1> SUFFICES ASSUME NEW v \in Reserves PROVE (outstanding[v] <= Available(v))'
  BY DEF CommitmentsCovered
<1>0. /\ outstanding[v] \in Nat /\ outstanding'[v] \in Nat
      /\ balance[v] \in Nat /\ balance'[v] \in Nat
      /\ Available(v) \in Nat /\ Available(v)' \in Nat
      /\ outstanding[v] <= Available(v)
  BY AmountAssumption DEF TypeOK, CommitmentsCovered, Available
<1>a. balance'[v] >= balance[v] => Available(v)' >= Available(v)
  BY <1>0, AvailableAfter
<1>b. CASE outstanding'[v] <= outstanding[v] /\ balance'[v] >= balance[v]
  BY <1>0, <1>a, <1>b
<1>1. CASE Tick
  BY <1>b, <1>0, <1>1 DEF Tick
<1>2. CASE \E w \in Reserves, amount \in Deposits : Fund(w, amount)
  <2>1. PICK w \in Reserves, amount \in Deposits : Fund(w, amount)
    BY <1>2
  <2>2. amount \in Nat /\ outstanding' = outstanding
    BY AmountAssumption, <2>1 DEF Fund
  <2>3. balance'[v] = IF v = w THEN balance[v] + amount ELSE balance[v]
    BY <2>1 DEF Fund, TypeOK
  <2> QED BY <1>b, <1>0, <2>2, <2>3
<1>3. CASE \E new \in Authorities \ {authority} : Rotate(new)
  BY <1>b, <1>0, <1>3 DEF Rotate
<1>4. CASE \E a \in Authorities : InitializeVault(a)
  <2>1. PICK a \in Authorities : InitializeVault(a)
    BY <1>4
  <2>2. outstanding' = outstanding
    BY <2>1 DEF InitializeVault
  <2>3. balance'[v] >= balance[v]
    <3>1. CASE v = <<a, Sol>>
      BY <1>0, <2>1, <3>1 DEF InitializeVault, TypeOK
    <3>2. CASE v # <<a, Sol>>
      BY <1>0, <2>1, <3>2 DEF InitializeVault, TypeOK
    <3> QED BY <3>1, <3>2
  <2> QED BY <1>b, <1>0, <2>2, <2>3
<1>5. CASE \E a \in Authorities, asset \in Assets : InitializeReserve(a, asset)
  BY <1>b, <1>0, <1>5 DEF InitializeReserve, TypeOK
<1>6. CASE \E a \in Authorities, id \in CycleIds, asset \in Assets, leaves \in Commitments,
              total \in Totals, payoutAt \in PayoutTimes :
              CreateCycle(a, id, asset, leaves, total, payoutAt)
  <2>1. PICK a \in Authorities, id \in CycleIds, asset \in Assets, leaves \in Commitments,
             total \in Totals, payoutAt \in PayoutTimes :
             CreateCycle(a, id, asset, leaves, total, payoutAt)
    BY <1>6
  <2>2. Available(v)' = Available(v)
    BY <2>1 DEF CreateCycle, Available
  <2>3. CASE v = <<a, asset>>
    BY <2>1, <2>2, <2>3 DEF CreateCycle, Coverable, TypeOK
  <2>4. CASE v # <<a, asset>>
    BY <1>0, <2>1, <2>2, <2>4 DEF CreateCycle, TypeOK
  <2> QED BY <2>3, <2>4
<1>7. CASE \E a \in Authorities, id \in CycleIds : MigrateCycle(a, id)
  <2>1. PICK a \in Authorities, id \in CycleIds : MigrateCycle(a, id)
    BY <1>7
  <2> DEFINE u == <<a, cycles[<<a, id>>].asset>>
  <2>2. Available(v)' = Available(v)
    BY <2>1 DEF MigrateCycle, Available
  <2>3. CASE v = u
    BY <2>1, <2>2, <2>3 DEF MigrateCycle, Coverable, TypeOK
  <2>4. CASE v # u
    BY <1>0, <2>1, <2>2, <2>4 DEF MigrateCycle, TypeOK
  <2> QED BY <2>3, <2>4
<1>8. CASE \E k \in Keys, i \in 1..MaxLeaves : Payout(k, i)
  <2>1. PICK k \in Keys, i \in 1..MaxLeaves : Payout(k, i)
    BY <1>8
  <2> DEFINE c == cycles[k]
             u == <<k[1], c.asset>>
             amount == c.leaves[i].amount
  <2>2. amount \in Nat
    <3>1. c \in CycleRecords /\ i \in DOMAIN c.leaves
      BY <2>1 DEF Payout, TypeOK
    <3> QED BY <3>1, LeafType
  <2>3. CASE v = u
    <3>1. outstanding'[v] = outstanding[v] - amount /\ balance'[v] = balance[v] - amount
      BY <2>1, <2>3 DEF Payout, TypeOK
    <3>2. amount <= Available(v)
      BY <2>1, <2>3 DEF Payout, Affordable
    <3>3. Available(v)' >= Available(v) - amount
      BY <2>2, <3>1, <3>2, AvailableAfter
    <3> QED BY <1>0, <2>2, <3>1, <3>3
  <2>4. CASE v # u
    <3>1. outstanding'[v] = outstanding[v] /\ balance'[v] = balance[v]
      BY <2>1, <2>4 DEF Payout, TypeOK
    <3> QED BY <1>b, <1>0, <3>1
  <2> QED BY <2>3, <2>4
<1>9. CASE UNCHANGED vars
  BY <1>b, <1>0, <1>9 DEF vars
<1> QED BY <1>1, <1>2, <1>3, <1>4, <1>5, <1>6, <1>7, <1>8, <1>9 DEF Next

(* Covered: the lamports and tokens promised to published cycles are in    *)
(* the vault of every authority, present or former (create, migrate and    *)
(* payout compare the reserve with the balance above the rent).            *)
THEOREM Covered == Spec => []CommitmentsCovered
<1>1. TypeOK /\ TypeOK' /\ CommitmentsCovered /\ [Next]_vars => CommitmentsCovered'
  BY CommitmentsCoveredStep
<1> QED BY <1>1, CommitmentsCoveredInit, TypeCorrect, PTL DEF Spec

-----------------------------------------------------------------------------
PaymentsInv == PaymentsMatchLeaves /\ WithinTotal

LEMMA PaymentsInvInit == Init => PaymentsInv
BY LegacyAssumption DEF Init, PaymentsInv, PaymentsMatchLeaves, WithinTotal, NoCycle

LEMMA PaymentsInvStep ==
    ASSUME TypeOK, TypeOK', PaymentsInv, [Next]_vars
    PROVE  PaymentsInv'
<1> USE DEF PaymentsInv
<1>a. CASE cycles' = cycles
  BY <1>a DEF PaymentsMatchLeaves, WithinTotal
<1>1. CASE Tick
  BY <1>a, <1>1 DEF Tick
<1>2. CASE \E v \in Reserves, amount \in Deposits : Fund(v, amount)
  BY <1>a, <1>2 DEF Fund
<1>3. CASE \E new \in Authorities \ {authority} : Rotate(new)
  BY <1>a, <1>3 DEF Rotate
<1>4. CASE \E a \in Authorities : InitializeVault(a)
  BY <1>a, <1>4 DEF InitializeVault
<1>5. CASE \E a \in Authorities, asset \in Assets : InitializeReserve(a, asset)
  BY <1>a, <1>5 DEF InitializeReserve
<1>6. CASE \E a \in Authorities, id \in CycleIds, asset \in Assets, leaves \in Commitments,
              total \in Totals, payoutAt \in PayoutTimes :
              CreateCycle(a, id, asset, leaves, total, payoutAt)
  <2>1. PICK a \in Authorities, id \in CycleIds, asset \in Assets, leaves \in Commitments,
             total \in Totals, payoutAt \in PayoutTimes :
             CreateCycle(a, id, asset, leaves, total, payoutAt)
    BY <1>6
  <2> DEFINE k0 == <<a, id>>
  <2>2. \A k \in Keys : k # k0 => cycles'[k] = cycles[k]
    BY <2>1 DEF CreateCycle, TypeOK
  <2>3. k0 \in Keys /\ cycles'[k0].distributed = 0 /\ cycles'[k0].total = total
        /\ \A r \in Recipients : cycles'[k0].paid[r] = 0
    BY <2>1 DEF CreateCycle, TypeOK, Keys
  <2>4. total \in Nat
    BY AmountAssumption
  <2> QED BY <2>2, <2>3, <2>4 DEF PaymentsMatchLeaves, WithinTotal
<1>7. CASE \E a \in Authorities, id \in CycleIds : MigrateCycle(a, id)
  <2>1. PICK a \in Authorities, id \in CycleIds : MigrateCycle(a, id)
    BY <1>7
  <2> DEFINE k0 == <<a, id>>
  <2>2. \A k \in Keys : k # k0 => cycles'[k] = cycles[k]
    BY <2>1 DEF MigrateCycle, TypeOK
  <2>3. cycles'[k0] = [cycles[k0] EXCEPT !.stage = "reserved"]
    BY <2>1 DEF MigrateCycle, TypeOK, Keys
  <2>4. /\ cycles'[k0].leaves = cycles[k0].leaves
        /\ cycles'[k0].paid = cycles[k0].paid
        /\ cycles'[k0].total = cycles[k0].total
        /\ cycles'[k0].distributed = cycles[k0].distributed
    BY <2>3 DEF TypeOK, Keys, CycleRecords
  <2>5. \A k \in Keys : /\ cycles'[k].leaves = cycles[k].leaves
                        /\ cycles'[k].paid = cycles[k].paid
                        /\ cycles'[k].total = cycles[k].total
                        /\ cycles'[k].distributed = cycles[k].distributed
    BY <2>2, <2>4
  <2>6. PaymentsMatchLeaves'
    BY <2>5 DEF PaymentsMatchLeaves
  <2>7. WithinTotal'
    BY <2>5 DEF WithinTotal
  <2> QED BY <2>6, <2>7
<1>8. CASE \E k \in Keys, i \in 1..MaxLeaves : Payout(k, i)
  <2>1. PICK k0 \in Keys, i \in 1..MaxLeaves : Payout(k0, i)
    BY <1>8
  <2> DEFINE c == cycles[k0]
             to == c.leaves[i].to
             amount == c.leaves[i].amount
  <2>2. c \in CycleRecords /\ i \in DOMAIN c.leaves
    BY <2>1 DEF Payout, TypeOK
  <2>3. to \in Recipients /\ amount \in Nat /\ c.leaves[i] = [to |-> to, amount |-> amount]
    <3>1. c.leaves[i] \in Leaves
      BY <2>2 DEF CycleRecords
    <3> QED BY <3>1 DEF Leaves
  <2>4. \A k \in Keys : k # k0 => cycles'[k] = cycles[k]
    BY <2>1 DEF Payout, TypeOK
  <2>5. /\ cycles'[k0].leaves = c.leaves
        /\ cycles'[k0].total = c.total
        /\ cycles'[k0].distributed = c.distributed + amount
        /\ cycles'[k0].paid = [c.paid EXCEPT ![to] = amount]
    BY <2>1, <2>2 DEF Payout, TypeOK, CycleRecords
  <2>6. c.distributed + amount <= c.total
    BY <2>1 DEF Payout, Affordable
  <2>7. ASSUME NEW r \in Recipients, cycles'[k0].paid[r] > 0
        PROVE  \E j \in DOMAIN cycles'[k0].leaves :
                   cycles'[k0].leaves[j] = [to |-> r, amount |-> cycles'[k0].paid[r]]
    <3>1. c.paid \in [Recipients -> Nat]
      BY <2>2 DEF CycleRecords
    <3>2. CASE r = to
      <4>1. cycles'[k0].paid[r] = amount
        BY <3>1, <3>2, <2>3, <2>5
      <4>2. cycles'[k0].leaves[i] = [to |-> r, amount |-> cycles'[k0].paid[r]]
        BY <4>1, <3>2, <2>3, <2>5
      <4> QED BY <4>2, <2>2, <2>5
    <3>3. CASE r # to
      <4>1. cycles'[k0].paid[r] = c.paid[r]
        BY <3>1, <3>3, <2>3, <2>5
      <4>2. \E j \in DOMAIN c.leaves : c.leaves[j] = [to |-> r, amount |-> c.paid[r]]
        BY <4>1, <2>7 DEF PaymentsMatchLeaves
      <4> QED BY <4>1, <4>2, <2>5
    <3> QED BY <3>2, <3>3
  <2>8. PaymentsMatchLeaves'
    BY <2>4, <2>7 DEF PaymentsMatchLeaves
  <2>9. WithinTotal'
    BY <2>4, <2>5, <2>6 DEF WithinTotal
  <2> QED BY <2>8, <2>9
<1>9. CASE UNCHANGED vars
  BY <1>a, <1>9 DEF vars
<1> QED BY <1>1, <1>2, <1>3, <1>4, <1>5, <1>6, <1>7, <1>8, <1>9 DEF Next

(* PaymentsStayCommitted: every payment ever made under a cycle is one of  *)
(* its leaves, and a cycle never distributes more than its total           *)
(* (validate_payment, and the payment account created by the payout).      *)
THEOREM PaymentsStayCommitted == Spec => [](PaymentsMatchLeaves /\ WithinTotal)
<1>1. TypeOK /\ TypeOK' /\ PaymentsInv /\ [Next]_vars => PaymentsInv'
  BY PaymentsInvStep
<1>2. Spec => []PaymentsInv
  BY <1>1, PaymentsInvInit, TypeCorrect, PTL DEF Spec
<1> QED BY <1>2, PTL DEF PaymentsInv

-----------------------------------------------------------------------------
(* The reserves as sums.  What cycle k, in the state c, takes from the     *)
(* reserve of v, and all cycles together.                                  *)
Owes(c, k, v) == IF c.stage = "reserved" /\ v = <<k[1], c.asset>> THEN Unpaid(c) ELSE 0
Debts(cs, v) == [k \in Keys |-> Owes(cs[k], k, v)]
Owed(cs, v) == SumFunctionOnSet(Debts(cs, v), Keys)

LEMMA KeysFinite == IsFiniteSet(Keys)
BY FiniteAssumption, FS_Product DEF Keys

LEMMA DebtType ==
    ASSUME NEW c \in CycleRecords, NEW k \in Keys, NEW v \in Reserves
    PROVE  /\ Unpaid(c) \in Int /\ Owes(c, k, v) \in Int
           /\ c.distributed <= c.total => Unpaid(c) \in Nat /\ Owes(c, k, v) \in Nat
BY DEF CycleRecords, Unpaid, Owes

(* The sum over the cycles reserved from v is the sum of these debts.      *)
LEMMA ReservedSum ==
    ASSUME NEW cs \in [Keys -> CycleRecords], NEW v \in Reserves
    PROVE  SumFunction([k \in {k \in Keys : /\ k[1] = v[1]
                                             /\ cs[k].asset = v[2]
                                             /\ cs[k].stage = "reserved"} |-> Unpaid(cs[k])])
               = Owed(cs, v)
<1> DEFINE Ks == {k \in Keys : k[1] = v[1] /\ cs[k].asset = v[2] /\ cs[k].stage = "reserved"}
           unpaid == [k \in Ks |-> Unpaid(cs[k])]
           f == Debts(cs, v)
<1>1. \A k \in Keys : k \in Ks <=> cs[k].stage = "reserved" /\ v = <<k[1], cs[k].asset>>
  BY DEF Reserves
<1>2. /\ \A k \in Keys : f[k] \in Int
      /\ \A k \in Keys \ Ks : f[k] = 0
      /\ \A k \in Ks : unpaid[k] = f[k]
      /\ Ks \in SUBSET Keys /\ DOMAIN unpaid = Ks
  BY <1>1, DebtType DEF Debts, Owes
<1>3. IsFiniteSet(Keys) /\ IsFiniteSet(Ks)
  BY <1>2, KeysFinite, FS_Subset
<1> HIDE DEF Ks, unpaid, f
<1>4. SumFunctionOnSet(unpaid, Ks) = SumFunctionOnSet(f, Ks)
  BY <1>2, <1>3, SumSame
<1>5. SumFunctionOnSet(f, Keys) = SumFunctionOnSet(f, Ks)
  BY <1>2, <1>3, SumSupport
<1> QED BY <1>2, <1>4, <1>5 DEF SumFunction, Ks, unpaid, f, Owed

(* A step that writes one cycle changes what is owed by that cycle's part. *)
LEMMA OneCycleOwes ==
    ASSUME NEW cs \in [Keys -> CycleRecords], NEW ds \in [Keys -> CycleRecords],
           NEW k \in Keys, \A j \in Keys \ {k} : ds[j] = cs[j], NEW v \in Reserves
    PROVE  /\ Owed(ds, v) = Owed(cs, v) + (Owes(ds[k], k, v) - Owes(cs[k], k, v))
           /\ Owed(cs, v) \in Int
<1> DEFINE f == Debts(cs, v)
           g == Debts(ds, v)
<1>1. /\ \A j \in Keys : f[j] \in Int /\ g[j] \in Int
      /\ \A j \in Keys \ {k} : g[j] = f[j]
      /\ f[k] = Owes(cs[k], k, v) /\ g[k] = Owes(ds[k], k, v)
  BY DebtType DEF Debts
<1> HIDE DEF f, g
<1>2. SumFunctionOnSet(g, Keys) = SumFunctionOnSet(f, Keys) + (g[k] - f[k])
  BY <1>1, KeysFinite, SumChange
<1>3. SumFunctionOnSet(f, Keys) \in Int
  BY <1>1, KeysFinite, SumType
<1> QED BY <1>1, <1>2, <1>3 DEF f, g, Owed

(* What was paid under a cycle, over all recipients.                       *)
PaidAddUp == \A k \in Keys : cycles[k].distributed = SumFunctionOnSet(cycles[k].paid, Recipients)

(* A published cycle has a reserve account, and a reserve is what its      *)
(* cycles owe.                                                             *)
ReservesExplained ==
    /\ \A k \in Keys : cycles[k].stage = "reserved" => <<k[1], cycles[k].asset>> \in reserves
    /\ \A v \in Reserves : outstanding[v] = Owed(cycles, v)

SumsInv == PaidAddUp /\ ReservesExplained

LEMMA SumsInvInit == Init => SumsInv
<1> SUFFICES ASSUME Init PROVE SumsInv
  OBVIOUS
<1>1. \A k \in Keys : cycles[k].stage # "reserved"
  BY LegacyAssumption DEF Init, NoCycle
<1>2. ASSUME NEW v \in Reserves PROVE outstanding[v] = Owed(cycles, v)
  <2>1. \A k \in Keys : Debts(cycles, v)[k] = 0
    BY <1>1 DEF Debts, Owes
  <2>2. Owed(cycles, v) = 0
    BY <2>1, KeysFinite, SumZero DEF Owed
  <2> QED BY <2>2 DEF Init
<1>3. ASSUME NEW k \in Keys
      PROVE  cycles[k].distributed = SumFunctionOnSet(cycles[k].paid, Recipients)
  <2>1. CASE k \in DOMAIN Legacy
    <3>1. cycles[k] = Legacy[k]
      BY <2>1 DEF Init
    <3>2. DOMAIN Legacy[k].paid = Recipients
      BY <2>1, LegacyAssumption DEF CycleRecords
    <3>3. Legacy[k].distributed = SumFunctionOnSet(Legacy[k].paid, Recipients)
      BY <2>1, <3>2, LegacyAssumption DEF SumFunction
    <3> QED BY <3>1, <3>3
  <2>2. CASE k \notin DOMAIN Legacy
    <3>1. cycles[k].distributed = 0 /\ \A r \in Recipients : cycles[k].paid[r] = 0
      BY <2>2 DEF Init, NoCycle
    <3> QED BY <3>1, FiniteAssumption, SumZero
  <2> QED BY <2>1, <2>2
<1> QED BY <1>1, <1>2, <1>3 DEF SumsInv, PaidAddUp, ReservesExplained

(* An asset without a reserve account is promised to nobody.               *)
LEMMA UnreservedOwesNothing ==
    ASSUME SumsInv, NEW v \in Reserves, v \notin reserves
    PROVE  outstanding[v] = 0 /\ Owed(cycles, v) = 0
<1>1. \A k \in Keys : Debts(cycles, v)[k] = 0
  BY DEF SumsInv, ReservesExplained, Debts, Owes
<1>2. Owed(cycles, v) = 0
  BY <1>1, KeysFinite, SumZero DEF Owed
<1> QED BY <1>2 DEF SumsInv, ReservesExplained

(* So a reserve account is created where nothing is owed yet.              *)
LEMMA InitializeReserveSums ==
    ASSUME TypeOK, SumsInv, NEW a \in Authorities, NEW asset \in Assets,
           InitializeReserve(a, asset)
    PROVE  SumsInv'
<1> DEFINE v == <<a, asset>>
<1>1. /\ v \notin reserves /\ reserves' = reserves \cup {v} /\ v \in Reserves
      /\ outstanding' = [outstanding EXCEPT ![v] = 0]
      /\ cycles' = cycles
  BY DEF InitializeReserve, Reserves
<1>2. Owed(cycles, v) = 0
  BY <1>1, UnreservedOwesNothing
<1>3. \A u \in Reserves : outstanding'[u] = Owed(cycles, u)
  BY <1>1, <1>2 DEF SumsInv, ReservesExplained, TypeOK
<1> QED BY <1>1, <1>3 DEF SumsInv, ReservesExplained, PaidAddUp

(* A step that writes cycle k and changes the reserve of v by the change   *)
(* of what k owes it.                                                      *)
LEMMA CycleWritten ==
    ASSUME TypeOK, TypeOK', SumsInv, NEW k \in Keys, NEW v \in Reserves,
           v = <<k[1], cycles'[k].asset>>, v \in reserves, reserves' = reserves,
           \A j \in Keys \ {k} : cycles'[j] = cycles[j],
           cycles[k].stage = "reserved" => cycles[k].asset = cycles'[k].asset,
           \A u \in Reserves \ {v} : outstanding'[u] = outstanding[u],
           outstanding'[v] =
               outstanding[v] + (Owes(cycles'[k], k, v) - Owes(cycles[k], k, v)),
           cycles'[k].distributed = SumFunctionOnSet(cycles'[k].paid, Recipients)
    PROVE  SumsInv'
<1>1. cycles \in [Keys -> CycleRecords] /\ cycles' \in [Keys -> CycleRecords]
  BY DEF TypeOK
<1>2. ASSUME NEW u \in Reserves PROVE outstanding'[u] = Owed(cycles', u)
  <2>1. Owed(cycles', u) = Owed(cycles, u) + (Owes(cycles'[k], k, u) - Owes(cycles[k], k, u))
    BY <1>1, OneCycleOwes
  <2>2. outstanding[u] = Owed(cycles, u)
    BY DEF SumsInv, ReservesExplained
  <2>3. CASE u = v
    BY <2>1, <2>2, <2>3
  <2>4. CASE u # v
    <3>1. Owes(cycles'[k], k, u) = 0 /\ Owes(cycles[k], k, u) = 0
      BY <2>4 DEF Owes
    <3>2. Owed(cycles, u) \in Int
      BY <1>1, OneCycleOwes
    <3> QED BY <2>1, <2>2, <2>4, <3>1, <3>2
  <2> QED BY <2>3, <2>4
<1>3. PaidAddUp'
  BY DEF SumsInv, PaidAddUp
<1>4. \A j \in Keys : cycles'[j].stage = "reserved" => <<j[1], cycles'[j].asset>> \in reserves'
  BY DEF SumsInv, ReservesExplained
<1> QED BY <1>2, <1>3, <1>4 DEF SumsInv, ReservesExplained

LEMMA CreateCycleSums ==
    ASSUME TypeOK, TypeOK', SumsInv, NEW a \in Authorities, NEW id \in CycleIds,
           NEW asset \in Assets, NEW leaves \in Commitments, NEW total \in Totals,
           NEW payoutAt \in PayoutTimes, CreateCycle(a, id, asset, leaves, total, payoutAt)
    PROVE  SumsInv'
<1> DEFINE k == <<a, id>>
           v == <<a, asset>>
<1>1. /\ k \in Keys /\ v \in Reserves /\ total \in Nat
  BY AmountAssumption DEF Keys, Reserves
<1>2. /\ v \in reserves /\ reserves' = reserves
      /\ cycles[k].stage = "none"
      /\ \A j \in Keys \ {k} : cycles'[j] = cycles[j]
      /\ cycles'[k].stage = "reserved" /\ cycles'[k].asset = asset
      /\ cycles'[k].total = total /\ cycles'[k].distributed = 0
      /\ cycles'[k].paid = [r \in Recipients |-> 0]
      /\ \A u \in Reserves \ {v} : outstanding'[u] = outstanding[u]
      /\ outstanding'[v] = outstanding[v] + total
  BY <1>1 DEF CreateCycle, FirstCycle, Committed, TypeOK
<1>3. Owes(cycles'[k], k, v) = total /\ Owes(cycles[k], k, v) = 0
  BY <1>1, <1>2 DEF Owes, Unpaid
<1>4. SumFunctionOnSet(cycles'[k].paid, Recipients) = 0
  BY <1>2, FiniteAssumption, SumZero
<1>5. outstanding[v] \in Nat /\ k[1] = a
  BY <1>1 DEF TypeOK
<1> HIDE DEF k, v
<1>6. outstanding'[v] = outstanding[v] + (Owes(cycles'[k], k, v) - Owes(cycles[k], k, v))
  BY <1>1, <1>2, <1>3, <1>5
<1>7. v = <<k[1], cycles'[k].asset>>
  BY <1>2, <1>5 DEF v
<1> QED BY <1>1, <1>2, <1>4, <1>6, <1>7, CycleWritten

LEMMA MigrateCycleSums ==
    ASSUME TypeOK, TypeOK', SumsInv, NEW a \in Authorities, NEW id \in CycleIds,
           MigrateCycle(a, id)
    PROVE  SumsInv'
<1> DEFINE k == <<a, id>>
           c == cycles[k]
           v == <<a, c.asset>>
<1>1. k \in Keys /\ c \in CycleRecords /\ k[1] = a
  BY DEF Keys, TypeOK
<1>2. v \in Reserves
  BY <1>1 DEF Reserves, CycleRecords
<1>3. /\ v \in reserves /\ reserves' = reserves
      /\ c.stage = "legacy"
      /\ \A j \in Keys \ {k} : cycles'[j] = cycles[j]
      /\ cycles'[k] = [c EXCEPT !.stage = "reserved"]
      /\ \A u \in Reserves \ {v} : outstanding'[u] = outstanding[u]
      /\ outstanding'[v] = outstanding[v] + Unpaid(c)
  BY <1>1, <1>2 DEF MigrateCycle, IsLegacy, Committed, TypeOK
<1>4. /\ cycles'[k].stage = "reserved" /\ cycles'[k].asset = c.asset
      /\ cycles'[k].total = c.total /\ cycles'[k].distributed = c.distributed
      /\ cycles'[k].paid = c.paid
  BY <1>1, <1>3 DEF CycleRecords
<1>5. Owes(cycles'[k], k, v) = Unpaid(c) /\ Owes(c, k, v) = 0
  BY <1>1, <1>3, <1>4 DEF Owes, Unpaid
<1>6. outstanding[v] \in Nat /\ Unpaid(c) \in Int
  BY <1>1, <1>2, DebtType DEF TypeOK
<1>7. c.distributed = SumFunctionOnSet(c.paid, Recipients)
  BY <1>1 DEF SumsInv, PaidAddUp
<1>8. v = <<k[1], cycles'[k].asset>>
  BY <1>1, <1>4
<1> HIDE DEF k, v
<1>9. outstanding'[v] = outstanding[v] + (Owes(cycles'[k], k, v) - Owes(cycles[k], k, v))
  BY <1>3, <1>5, <1>6
<1> QED BY <1>1, <1>2, <1>3, <1>4, <1>7, <1>8, <1>9, CycleWritten

LEMMA PayoutSums ==
    ASSUME TypeOK, TypeOK', SumsInv, NEW k \in Keys, NEW i \in 1..MaxLeaves, Payout(k, i)
    PROVE  SumsInv'
<1> DEFINE c == cycles[k]
           v == <<k[1], c.asset>>
           to == c.leaves[i].to
           amount == c.leaves[i].amount
<1>1. c \in CycleRecords /\ i \in DOMAIN c.leaves
  BY DEF Payout, TypeOK
<1>2. to \in Recipients /\ amount \in Nat
  BY <1>1, LeafType
<1>3. v \in Reserves
  BY <1>1 DEF Keys, Reserves, CycleRecords
<1>4. /\ v \in reserves /\ reserves' = reserves
      /\ c.stage = "reserved" /\ c.paid[to] = 0
      /\ \A j \in Keys \ {k} : cycles'[j] = cycles[j]
      /\ cycles'[k] = [c EXCEPT !.distributed = @ + amount, !.paid[to] = amount]
      /\ \A u \in Reserves \ {v} : outstanding'[u] = outstanding[u]
      /\ outstanding'[v] = outstanding[v] - amount
  BY <1>1, <1>3 DEF Payout, FirstPayment, TypeOK
<1>5. /\ cycles'[k].stage = "reserved" /\ cycles'[k].asset = c.asset
      /\ cycles'[k].total = c.total /\ cycles'[k].distributed = c.distributed + amount
      /\ cycles'[k].paid = [c.paid EXCEPT ![to] = amount]
  BY <1>1, <1>4 DEF CycleRecords
<1>6. /\ c.total \in Nat /\ c.distributed \in Nat /\ c.paid \in [Recipients -> Nat]
      /\ outstanding[v] \in Nat
  BY <1>1, <1>3 DEF CycleRecords, TypeOK
<1>7. Owes(cycles'[k], k, v) = c.total - (c.distributed + amount)
      /\ Owes(c, k, v) = c.total - c.distributed
  BY <1>4, <1>5 DEF Owes, Unpaid
<1>8. v = <<k[1], cycles'[k].asset>>
  BY <1>5
<1>9. cycles'[k].distributed = SumFunctionOnSet(cycles'[k].paid, Recipients)
  <2> DEFINE f == c.paid
             g == [c.paid EXCEPT ![to] = amount]
  <2>1. /\ \A r \in Recipients : f[r] \in Int /\ g[r] \in Int
        /\ \A r \in Recipients \ {to} : g[r] = f[r]
        /\ f[to] = 0 /\ g[to] = amount
    BY <1>2, <1>4, <1>6
  <2>2. c.distributed = SumFunctionOnSet(f, Recipients)
    BY DEF SumsInv, PaidAddUp
  <2> HIDE DEF f, g
  <2>3. SumFunctionOnSet(g, Recipients) = SumFunctionOnSet(f, Recipients) + (g[to] - f[to])
    BY <1>2, <2>1, FiniteAssumption, SumChange
  <2>4. SumFunctionOnSet(g, Recipients) = c.distributed + amount
    BY <1>2, <1>6, <2>1, <2>2, <2>3
  <2> QED BY <1>5, <2>4 DEF g
<1> HIDE DEF v, to, amount
<1>10. outstanding'[v] = outstanding[v] + (Owes(cycles'[k], k, v) - Owes(c, k, v))
  BY <1>2, <1>4, <1>6, <1>7
<1> QED BY <1>3, <1>4, <1>5, <1>8, <1>9, <1>10, CycleWritten

LEMMA SumsInvStep ==
    ASSUME TypeOK, TypeOK', SumsInv, [Next]_vars
    PROVE  SumsInv'
<1>1. CASE UNCHANGED <<reserves, outstanding, cycles>>
  BY <1>1 DEF SumsInv, PaidAddUp, ReservesExplained
<1>2. CASE Tick \/ (\E v \in Reserves, amount \in Deposits : Fund(v, amount))
           \/ (\E new \in Authorities \ {authority} : Rotate(new))
           \/ (\E a \in Authorities : InitializeVault(a))
           \/ UNCHANGED vars
  BY <1>1, <1>2 DEF Tick, Fund, Rotate, InitializeVault, vars
<1>3. CASE \E a \in Authorities, asset \in Assets : InitializeReserve(a, asset)
  BY <1>3, InitializeReserveSums
<1>4. CASE \E a \in Authorities, id \in CycleIds, asset \in Assets, leaves \in Commitments,
              total \in Totals, payoutAt \in PayoutTimes :
              CreateCycle(a, id, asset, leaves, total, payoutAt)
  BY <1>4, CreateCycleSums
<1>5. CASE \E a \in Authorities, id \in CycleIds : MigrateCycle(a, id)
  BY <1>5, MigrateCycleSums
<1>6. CASE \E k \in Keys, i \in 1..MaxLeaves : Payout(k, i)
  BY <1>6, PayoutSums
<1> QED BY <1>2, <1>3, <1>4, <1>5, <1>6 DEF Next

(* The reserves and the counters, in the words of the checked property.    *)
LEMMA SumsExplain ==
    ASSUME TypeOK, PaymentsInv, SumsInv
    PROVE  PaymentsExplainReserves
<1>1. ASSUME NEW k \in Keys PROVE cycles[k].distributed = SumFunction(cycles[k].paid)
  <2>1. DOMAIN cycles[k].paid = Recipients
    BY DEF TypeOK, CycleRecords
  <2> QED BY <2>1 DEF SumsInv, PaidAddUp, SumFunction
<1>2. ASSUME NEW v \in Reserves
      PROVE  outstanding[v] = SumFunction([k \in ReservedFrom(v) |-> Unpaid(cycles[k])])
  BY ReservedSum DEF SumsInv, ReservesExplained, ReservedFrom, TypeOK
<1> QED BY <1>1, <1>2 DEF PaymentsInv, PaymentsExplainReserves

LEMMA SumsHold == Spec => [](TypeOK /\ CommitmentsCovered /\ PaymentsInv /\ SumsInv)
<1>1. TypeOK /\ TypeOK' /\ PaymentsInv /\ [Next]_vars => PaymentsInv'
  BY PaymentsInvStep
<1>2. TypeOK /\ TypeOK' /\ SumsInv /\ [Next]_vars => SumsInv'
  BY SumsInvStep
<1> QED BY <1>1, <1>2, PaymentsInvInit, SumsInvInit, TypeCorrect, Covered, PTL DEF Spec

(* ReservesExplain: for any finite set of cycles, created, migrated and    *)
(* paid in any order under any authorities, a cycle's counter is the sum   *)
(* of its payments and a reserve is the sum of what its published cycles   *)
(* still owe (create_cycle, migrate_cycle and the payout handlers).        *)
THEOREM ReservesExplain == Spec => []PaymentsExplainReserves
<1>1. TypeOK /\ PaymentsInv /\ SumsInv => PaymentsExplainReserves
  BY SumsExplain
<1> QED BY <1>1, SumsHold, PTL

-----------------------------------------------------------------------------
(* Leaves are worth a natural amount together.                             *)
LEMMA LeavesWorth ==
    ASSUME NEW leaves \in Seq(Leaves)
    PROVE  SumFunction([j \in DOMAIN leaves |-> leaves[j].amount]) \in Nat
<1> DEFINE f == [j \in DOMAIN leaves |-> leaves[j].amount]
<1>1. IsFiniteSet(DOMAIN leaves)
  <2>1. DOMAIN leaves = 1..Len(leaves) /\ Len(leaves) \in Nat
    OBVIOUS
  <2> QED BY <2>1, FS_Interval
<1>2. \A j \in DOMAIN leaves : leaves[j] \in Leaves
  OBVIOUS
<1>3. \A j \in DOMAIN leaves : f[j] \in Nat
  BY <1>2 DEF Leaves
<1>4. DOMAIN f = DOMAIN leaves
  OBVIOUS
<1> HIDE DEF f
<1>5. SumFunctionOnSet(f, DOMAIN leaves) \in Nat
  BY <1>1, <1>3, SumType
<1> QED BY <1>4, <1>5 DEF f, SumFunction

(* Payments of different leaves, and one more leaf whose wallet was not    *)
(* paid, are worth no more than all leaves: each paid wallet is matched    *)
(* with a leaf that names it.                                              *)
LEMMA LeafFits ==
    ASSUME NEW leaves \in Seq(Leaves), NEW paid \in [Recipients -> Nat],
           \A r \in Recipients : paid[r] > 0 =>
               \E j \in DOMAIN leaves : leaves[j] = [to |-> r, amount |-> paid[r]],
           NEW i \in DOMAIN leaves, paid[leaves[i].to] = 0
    PROVE  SumFunctionOnSet(paid, Recipients) + leaves[i].amount <=
               SumFunction([j \in DOMAIN leaves |-> leaves[j].amount])
<1> DEFINE to == leaves[i].to
           amount == leaves[i].amount
           all == [j \in DOMAIN leaves |-> leaves[j].amount]
           after == [paid EXCEPT ![to] = amount]
           S == {r \in Recipients : after[r] > 0}
           m == [r \in S |-> CHOOSE j \in DOMAIN leaves : leaves[j] = [to |-> r, amount |-> after[r]]]
<1>1. \A j \in DOMAIN leaves : leaves[j].to \in Recipients /\ leaves[j].amount \in Nat
  <2>1. \A j \in DOMAIN leaves : leaves[j] \in Leaves
    OBVIOUS
  <2> QED BY <2>1 DEF Leaves
<1>2. /\ to \in Recipients /\ amount \in Nat
      /\ leaves[i] = [to |-> to, amount |-> amount]
  <2>1. leaves[i] \in Leaves
    OBVIOUS
  <2> QED BY <2>1 DEF Leaves
<1>3. after \in [Recipients -> Nat] /\ after[to] = amount
      /\ \A r \in Recipients \ {to} : after[r] = paid[r]
  BY <1>2
<1> HIDE DEF to, amount, after
<1>4. \A r \in S : \E j \in DOMAIN leaves : leaves[j] = [to |-> r, amount |-> after[r]]
  BY <1>2, <1>3
<1>5. \A r \in S : m[r] \in DOMAIN leaves /\ leaves[m[r]] = [to |-> r, amount |-> after[r]]
  BY <1>4
<1>6. m \in [S -> DOMAIN leaves]
  BY <1>5
<1>7. /\ \A r, q \in S : m[r] = m[q] => r = q
      /\ \A r \in S : after[r] <= all[m[r]]
  <2>1. \A r \in S : leaves[m[r]].to = r /\ all[m[r]] = after[r] /\ after[r] \in Nat
    BY <1>3, <1>5
  <2> HIDE DEF m, all
  <2> QED BY <2>1
<1>8. IsFiniteSet(DOMAIN leaves)
  <2>1. DOMAIN leaves = 1..Len(leaves) /\ Len(leaves) \in Nat
    OBVIOUS
  <2> QED BY <2>1, FS_Interval
<1>9. /\ IsFiniteSet(S) /\ S \in SUBSET Recipients
      /\ \A r \in S : after[r] \in Nat
      /\ \A r \in Recipients : after[r] \in Int
      /\ \A r \in Recipients \ S : after[r] = 0
  BY <1>3, FiniteAssumption, FS_Subset
<1>10. \A j \in DOMAIN leaves : all[j] \in Nat
  BY <1>1
<1>11. SumFunction(all) = SumFunctionOnSet(all, DOMAIN leaves)
  BY DEF SumFunction
<1> HIDE DEF m, all, S
<1>12. SumFunctionOnSet(after, S) <= SumFunctionOnSet(all, DOMAIN leaves)
  BY <1>6, <1>7, <1>8, <1>9, <1>10, SumMatched
<1>13. SumFunctionOnSet(after, Recipients) = SumFunctionOnSet(after, S)
  BY <1>9, FiniteAssumption, SumSupport
<1>14. SumFunctionOnSet(after, Recipients) =
           SumFunctionOnSet(paid, Recipients) + (after[to] - paid[to])
  <2>1. \A r \in Recipients : paid[r] \in Int /\ after[r] \in Int
    BY <1>9
  <2> QED BY <1>2, <1>3, <2>1, FiniteAssumption, SumChange
<1>15. paid[to] = 0 /\ SumFunctionOnSet(paid, Recipients) \in Nat
  BY FiniteAssumption, SumType DEF to
<1>16. SumFunctionOnSet(paid, Recipients) + amount <= SumFunction(all)
  BY <1>2, <1>3, <1>11, <1>12, <1>13, <1>14, <1>15
<1> QED BY <1>16 DEF amount, all

(* A cycle's own debt is part of its reserve.                              *)
LEMMA ReserveHoldsDebt ==
    ASSUME TypeOK, WithinTotal, SumsInv, NEW k \in Keys, cycles[k].stage = "reserved"
    PROVE  LET v == <<k[1], cycles[k].asset>>
           IN  v \in Reserves /\ v \in reserves /\ Unpaid(cycles[k]) <= outstanding[v]
<1> DEFINE c == cycles[k]
           v == <<k[1], c.asset>>
           f == Debts(cycles, v)
<1>1. v \in Reserves
  BY DEF TypeOK, Keys, Reserves, CycleRecords
<1>2. \A j \in Keys : cycles[j] \in CycleRecords /\ cycles[j].distributed <= cycles[j].total
  BY DEF TypeOK, WithinTotal
<1>3. /\ \A j \in Keys : f[j] \in Nat
      /\ f[k] = Unpaid(c)
  BY <1>1, <1>2, DebtType DEF Debts, Owes
<1> HIDE DEF f
<1>4. f[k] <= SumFunctionOnSet(f, Keys)
  BY <1>3, KeysFinite, SumContains
<1> QED BY <1>1, <1>3, <1>4 DEF f, SumsInv, ReservesExplained, Owed

LEMMA InvAffordable ==
    ASSUME TypeOK, CommitmentsCovered, PaymentsInv, SumsInv
    PROVE  UnpaidLeavesAffordable
<1> SUFFICES ASSUME NEW k \in Keys, cycles[k].stage = "reserved", LeavesWithinTotal(cycles[k]),
                    NEW i \in DOMAIN cycles[k].leaves,
                    cycles[k].paid[cycles[k].leaves[i].to] = 0
             PROVE  Affordable(cycles[k], <<k[1], cycles[k].asset>>, cycles[k].leaves[i].amount)
  BY ReserveHoldsDebt DEF UnpaidLeavesAffordable, PaymentsInv
<1> DEFINE c == cycles[k]
           v == <<k[1], c.asset>>
           amount == c.leaves[i].amount
<1>1. /\ c \in CycleRecords /\ c.leaves \in Seq(Leaves) /\ c.paid \in [Recipients -> Nat]
      /\ c.total \in Nat /\ c.distributed \in Nat
  BY DEF TypeOK, CycleRecords
<1>2. amount \in Nat
  BY <1>1, LeafType
<1>3. c.distributed = SumFunctionOnSet(c.paid, Recipients)
  BY DEF SumsInv, PaidAddUp
<1>4. \A r \in Recipients : c.paid[r] > 0 =>
          \E j \in DOMAIN c.leaves : c.leaves[j] = [to |-> r, amount |-> c.paid[r]]
  BY DEF PaymentsInv, PaymentsMatchLeaves
<1>5. v \in Reserves /\ c.total - c.distributed <= outstanding[v]
  BY ReserveHoldsDebt DEF PaymentsInv, Unpaid
<1>6. /\ outstanding[v] <= Available(v) /\ outstanding[v] \in Nat
      /\ Available(v) \in Nat
  BY <1>5, AmountAssumption DEF CommitmentsCovered, TypeOK, Available
<1>7. SumFunction([j \in DOMAIN c.leaves |-> c.leaves[j].amount]) <= c.total
  BY DEF LeavesWithinTotal
<1> DEFINE worth == SumFunction([j \in DOMAIN c.leaves |-> c.leaves[j].amount])
<1>8. c.distributed + amount <= worth
  <2> HIDE DEF c
  <2>1. SumFunctionOnSet(c.paid, Recipients) + c.leaves[i].amount <= worth
    BY <1>1, <1>4, LeafFits DEF c
  <2> QED BY <1>3, <2>1
<1>9. worth \in Nat
  BY <1>1, LeavesWorth
<1> HIDE DEF c, v, amount, worth
<1>10. /\ c.distributed + amount <= c.total
       /\ amount <= outstanding[v]
       /\ amount <= Available(v)
  BY <1>1, <1>2, <1>5, <1>6, <1>7, <1>8, <1>9 DEF worth
<1> QED BY <1>10 DEF c, v, amount, Affordable

(* LeavesStayAffordable: whatever was created, migrated, paid and rotated, *)
(* a leaf of a published cycle whose leaves fit in its total can be paid   *)
(* as soon as its time has come: the safety half of RewardsArePaid, for    *)
(* every number of cycles, assets and leaves.                              *)
THEOREM LeavesStayAffordable == Spec => []UnpaidLeavesAffordable
<1>1. TypeOK /\ CommitmentsCovered /\ PaymentsInv /\ SumsInv => UnpaidLeavesAffordable
  BY InvAffordable
<1> QED BY <1>1, SumsHold, PTL

-----------------------------------------------------------------------------
(* The record that CommitmentsFixed compares, step by step.                *)
LEMMA CommitmentsFixedStep ==
    ASSUME TypeOK, [Next]_vars
    PROVE  [\A k \in Keys :
              cycles[k].stage # "none" =>
                /\ cycles'[k].stage \in {cycles[k].stage, "reserved"}
                /\ cycles'[k].asset = cycles[k].asset
                /\ cycles'[k].leaves = cycles[k].leaves
                /\ cycles'[k].total = cycles[k].total
                /\ cycles'[k].payoutAt = cycles[k].payoutAt
                /\ \A r \in Recipients :
                      cycles[k].paid[r] > 0 => cycles'[k].paid[r] = cycles[k].paid[r]]_vars
<1> SUFFICES ASSUME NEW k \in Keys, cycles[k].stage # "none"
             PROVE  /\ cycles'[k].stage \in {cycles[k].stage, "reserved"}
                    /\ cycles'[k].asset = cycles[k].asset
                    /\ cycles'[k].leaves = cycles[k].leaves
                    /\ cycles'[k].total = cycles[k].total
                    /\ cycles'[k].payoutAt = cycles[k].payoutAt
                    /\ \A r \in Recipients :
                          cycles[k].paid[r] > 0 => cycles'[k].paid[r] = cycles[k].paid[r]
  OBVIOUS
<1>1. CASE cycles'[k] = cycles[k]
  BY <1>1
<1>2. CASE \E a \in Authorities, id \in CycleIds, asset \in Assets, leaves \in Commitments,
              total \in Totals, payoutAt \in PayoutTimes :
              CreateCycle(a, id, asset, leaves, total, payoutAt)
  <2>1. PICK a \in Authorities, id \in CycleIds, asset \in Assets, leaves \in Commitments,
             total \in Totals, payoutAt \in PayoutTimes :
             CreateCycle(a, id, asset, leaves, total, payoutAt)
    BY <1>2
  <2>2. k # <<a, id>>
    BY <2>1 DEF CreateCycle, FirstCycle
  <2>3. cycles'[k] = cycles[k]
    BY <2>1, <2>2 DEF CreateCycle, TypeOK
  <2> QED BY <1>1, <2>3
<1>3. CASE \E a \in Authorities, id \in CycleIds : MigrateCycle(a, id)
  <2>1. PICK a \in Authorities, id \in CycleIds : MigrateCycle(a, id)
    BY <1>3
  <2>2. CASE k = <<a, id>>
    <3>1. cycles'[k] = [cycles[k] EXCEPT !.stage = "reserved"]
      BY <2>1, <2>2 DEF MigrateCycle, TypeOK
    <3> QED BY <3>1 DEF TypeOK, CycleRecords
  <2>3. CASE k # <<a, id>>
    BY <1>1, <2>1, <2>3 DEF MigrateCycle, TypeOK
  <2> QED BY <2>2, <2>3
<1>4. CASE \E j \in Keys, i \in 1..MaxLeaves : Payout(j, i)
  <2>1. PICK j \in Keys, i \in 1..MaxLeaves : Payout(j, i)
    BY <1>4
  <2>2. CASE k # j
    BY <1>1, <2>1, <2>2 DEF Payout, TypeOK
  <2>3. CASE k = j
    <3> DEFINE c == cycles[k]
               to == c.leaves[i].to
    <3>1. c \in CycleRecords
      BY DEF TypeOK
    <3>2. /\ cycles'[k].stage = c.stage
          /\ cycles'[k].asset = c.asset
          /\ cycles'[k].leaves = c.leaves
          /\ cycles'[k].total = c.total
          /\ cycles'[k].payoutAt = c.payoutAt
          /\ cycles'[k].paid = [c.paid EXCEPT ![to] = c.leaves[i].amount]
      BY <2>1, <2>3, <3>1 DEF Payout, TypeOK, CycleRecords
    <3>3. c.paid \in [Recipients -> Nat] /\ c.paid[to] = 0
      BY <2>1, <2>3, <3>1 DEF Payout, FirstPayment, CycleRecords
    <3> QED BY <3>2, <3>3
  <2> QED BY <2>2, <2>3
<1>5. CASE Tick \/ (\E v \in Reserves, amount \in Deposits : Fund(v, amount))
           \/ (\E new \in Authorities \ {authority} : Rotate(new))
           \/ (\E a \in Authorities : InitializeVault(a))
           \/ (\E a \in Authorities, asset \in Assets : InitializeReserve(a, asset))
           \/ UNCHANGED vars
  BY <1>1, <1>5 DEF Tick, Fund, Rotate, InitializeVault, InitializeReserve, vars
<1> QED BY <1>2, <1>3, <1>4, <1>5 DEF Next

(* CommitmentsStay: a published cycle keeps its asset, leaves, total and   *)
(* payout time, and remembers every payment (the cycle and payment         *)
(* accounts are created once).                                             *)
THEOREM CommitmentsStay == Spec => CommitmentsFixed
<1>1. TypeOK /\ [Next]_vars =>
        [\A k \in Keys :
              cycles[k].stage # "none" =>
                /\ cycles'[k].stage \in {cycles[k].stage, "reserved"}
                /\ cycles'[k].asset = cycles[k].asset
                /\ cycles'[k].leaves = cycles[k].leaves
                /\ cycles'[k].total = cycles[k].total
                /\ cycles'[k].payoutAt = cycles[k].payoutAt
                /\ \A r \in Recipients :
                      cycles[k].paid[r] > 0 => cycles'[k].paid[r] = cycles[k].paid[r]]_vars
  BY CommitmentsFixedStep
<1> QED BY <1>1, TypeCorrect, PTL DEF Spec, CommitmentsFixed

-----------------------------------------------------------------------------
(* The airdrop.                                                            *)

OpenedApproved == \A a \in Authorities : drops[a].opened => snapshots[a] # NoSnapshot

(* What a drop counts as claimed, over all holders.                        *)
ClaimsAddUp == \A a \in Authorities : drops[a].claimed = SumFunctionOnSet(drops[a].paid, Recipients)

VaultInv == TypeOK /\ CommitmentsCovered /\ PaymentsInv /\ SumsInv

DropOnlyInv ==
    /\ snapshots \in [Authorities -> SnapshotRecords]
    /\ drops \in [Authorities -> DropRecords]
    /\ dropVault \in [Authorities -> Nat]
    /\ DropCovered
    /\ ClaimsAreLeaves
    /\ ClaimsAddUp
    /\ OpenedApproved

DropInv == VaultInv /\ DropOnlyInv

LEMMA DropInvInit == DropInit => DropInv
<1> SUFFICES ASSUME DropInit PROVE DropInv
  OBVIOUS
<1>1. VaultInv
  BY TypeInit, CommitmentsCoveredInit, PaymentsInvInit, SumsInvInit DEF DropInit, VaultInv
<1>2. NoDrop \in DropRecords /\ NoSnapshot \in SnapshotRecords
  BY DEF NoDrop, DropRecords, NoSnapshot, SnapshotRecords
<1>3. DropCovered /\ ClaimsAreLeaves /\ OpenedApproved
  BY DEF DropInit, DropCovered, ClaimsAreLeaves, OpenedApproved, NoDrop
<1>4. ASSUME NEW a \in Authorities
      PROVE  drops[a].claimed = SumFunctionOnSet(drops[a].paid, Recipients)
  <2>1. drops[a].claimed = 0 /\ \A r \in Recipients : drops[a].paid[r] = 0
    BY DEF DropInit, NoDrop
  <2> QED BY <2>1, FiniteAssumption, SumZero
<1> QED BY <1>1, <1>2, <1>3, <1>4 DEF DropInit, DropInv, DropOnlyInv, ClaimsAddUp

LEMMA VaultsUntouched ==
    ASSUME VaultInv, UNCHANGED vars
    PROVE  VaultInv'
BY DEF VaultInv, TypeOK, CommitmentsCovered, PaymentsInv, PaymentsMatchLeaves, WithinTotal,
   SumsInv, PaidAddUp, ReservesExplained, Available, vars

LEMMA DropUntouched ==
    ASSUME DropOnlyInv, UNCHANGED dropVars
    PROVE  DropOnlyInv'
BY DEF DropOnlyInv, DropCovered, ClaimsAreLeaves, ClaimsAddUp, OpenedApproved, dropVars

LEMMA VaultStepKeeps == DropInv /\ VaultStep => DropInv'
BY TypeStep, CommitmentsCoveredStep, PaymentsInvStep, SumsInvStep, DropUntouched
   DEF DropInv, VaultInv, VaultStep

LEMMA ApproveKeeps ==
    ASSUME DropInv, NEW a \in Authorities, NEW s \in Snapshots, NEW w \in Windows,
           ApproveSnapshot(a, s, w)
    PROVE  DropInv'
<1>1. VaultInv'
  BY VaultsUntouched DEF ApproveSnapshot, DropInv
<1>2. s \in SnapshotRecords
  BY DropAssumption
<1>3. ~drops[a].opened
  BY DEF ApproveSnapshot, DropInv, DropOnlyInv, OpenedApproved
<1>4. snapshots' \in [Authorities -> SnapshotRecords]
  BY <1>2 DEF ApproveSnapshot, DropInv, DropOnlyInv
<1>5. \A b \in Authorities : drops[b].opened => snapshots'[b] = snapshots[b]
  BY <1>3 DEF ApproveSnapshot, DropInv, DropOnlyInv
<1>6. drops' = drops /\ dropVault' = dropVault
  BY DEF ApproveSnapshot
<1>7. DropCovered' /\ ClaimsAreLeaves' /\ ClaimsAddUp' /\ OpenedApproved'
  BY <1>5, <1>6 DEF DropInv, DropOnlyInv, DropCovered, ClaimsAreLeaves, ClaimsAddUp, OpenedApproved
<1> QED BY <1>1, <1>4, <1>6, <1>7 DEF DropInv, DropOnlyInv

(* Opening a drop with the exact total, from either source.                *)
LEMMA OpenKeepsDrop ==
    ASSUME DropOnlyInv, NEW a \in Authorities, NEW w \in Windows, OpenDrop(a, w),
           TypeOK, dropVault' = [dropVault EXCEPT ![a] = snapshots[a].total]
    PROVE  DropOnlyInv'
<1> DEFINE d == [opened |-> TRUE, closed |-> FALSE, leaves |-> snapshots[a].leaves,
                 total |-> snapshots[a].total, claimed |-> 0,
                 expiresAt |-> MigrationAt + w, paid |-> [r \in Recipients |-> 0]]
<1>1. /\ snapshots[a].leaves \in Seq(Leaves) /\ snapshots[a].total \in Nat
      /\ snapshots[a] = [leaves |-> snapshots[a].leaves, total |-> snapshots[a].total]
  BY DEF DropOnlyInv, SnapshotRecords
<1>2. MigrationAt + w \in Nat
  BY DropAssumption
<1>3. d \in DropRecords
  BY <1>1, <1>2 DEF DropRecords
<1>4. /\ drops' = [drops EXCEPT ![a] = d]
      /\ snapshots' = snapshots
      /\ snapshots[a] # NoSnapshot
  BY DEF OpenDrop
<1>5. /\ drops' \in [Authorities -> DropRecords]
      /\ dropVault' \in [Authorities -> Nat]
      /\ snapshots' \in [Authorities -> SnapshotRecords]
  BY <1>1, <1>3, <1>4 DEF DropOnlyInv
<1>6. \A b \in Authorities : b # a => drops'[b] = drops[b] /\ dropVault'[b] = dropVault[b]
  BY <1>4 DEF DropOnlyInv
<1>7. drops'[a] = d /\ dropVault'[a] = snapshots[a].total
  BY <1>4 DEF DropOnlyInv
<1>8. DropCovered'
  BY <1>1, <1>6, <1>7 DEF DropOnlyInv, DropCovered
<1>9. ClaimsAreLeaves'
  BY <1>1, <1>4, <1>6, <1>7 DEF DropOnlyInv, ClaimsAreLeaves
<1>10. OpenedApproved'
  BY <1>4, <1>6 DEF DropOnlyInv, OpenedApproved
<1>11. ClaimsAddUp'
  <2>1. drops'[a].claimed = 0 /\ \A r \in Recipients : drops'[a].paid[r] = 0
    BY <1>7
  <2>2. drops'[a].claimed = SumFunctionOnSet(drops'[a].paid, Recipients)
    BY <2>1, FiniteAssumption, SumZero
  <2> QED BY <1>6, <2>2 DEF DropOnlyInv, ClaimsAddUp
<1> QED BY <1>5, <1>8, <1>9, <1>10, <1>11 DEF DropOnlyInv

LEMMA OpenFromCreatorKeeps ==
    ASSUME DropInv, NEW a \in Authorities, NEW w \in Windows, OpenFromCreator(a, w)
    PROVE  DropInv'
<1>1. VaultInv'
  BY VaultsUntouched DEF OpenFromCreator, OpenDrop, DropInv, vars
<1>2. DropOnlyInv'
  BY OpenKeepsDrop DEF OpenFromCreator, DropInv, VaultInv
<1> QED BY <1>1, <1>2 DEF DropInv

(* The vault loses all its tokens, of which none is promised.              *)
LEMMA OpenFromRewardVaultKeeps ==
    ASSUME DropInv, NEW a \in Authorities, NEW w \in Windows, OpenFromRewardVault(a, w)
    PROVE  DropInv'
<1> DEFINE v == <<a, MintToken>>
<1>1. v \in Reserves /\ MintToken # Sol
  BY DropAssumption DEF Reserves
<1>2. outstanding[v] = 0
  BY <1>1, UnreservedOwesNothing DEF OpenFromRewardVault, NothingReserved, DropInv, VaultInv
<1>3. /\ balance' = [balance EXCEPT ![v] = 0]
      /\ UNCHANGED <<now, authority, vaults, reserves, outstanding, cycles>>
  BY DEF OpenFromRewardVault, OpenDrop
<1>4. TypeOK'
  BY <1>3 DEF DropInv, VaultInv, TypeOK
<1>5. CommitmentsCovered'
  <2> SUFFICES ASSUME NEW u \in Reserves PROVE (outstanding[u] <= Available(u))'
    BY DEF CommitmentsCovered
  <2>1. CASE u = v
    BY <1>1, <1>2, <1>3, <2>1 DEF Available, DropInv, VaultInv, TypeOK
  <2>2. CASE u # v
    BY <1>3, <2>2 DEF Available, DropInv, VaultInv, TypeOK, CommitmentsCovered
  <2> QED BY <2>1, <2>2
<1>6. PaymentsInv' /\ SumsInv'
  BY <1>3 DEF DropInv, VaultInv, PaymentsInv, PaymentsMatchLeaves, WithinTotal, SumsInv,
     PaidAddUp, ReservesExplained
<1>7. dropVault' = [dropVault EXCEPT ![a] = snapshots[a].total]
  BY DEF OpenFromRewardVault, EscrowMatches
<1>8. DropOnlyInv'
  BY <1>7, OpenKeepsDrop DEF OpenFromRewardVault, DropInv, VaultInv
<1> QED BY <1>4, <1>5, <1>6, <1>8 DEF DropInv, VaultInv

LEMMA GiftKeeps ==
    ASSUME DropInv, NEW a \in Authorities, NEW amount \in Deposits, Gift(a, amount)
    PROVE  DropInv'
<1>1. VaultInv'
  BY VaultsUntouched DEF Gift, DropInv
<1>2. amount \in Nat
  BY AmountAssumption
<1>3. /\ dropVault' \in [Authorities -> Nat]
      /\ \A b \in Authorities : dropVault'[b] >= dropVault[b]
      /\ drops' = drops /\ snapshots' = snapshots
  BY <1>2 DEF Gift, DropInv, DropOnlyInv
<1>4. \A b \in Authorities : /\ dropVault[b] \in Nat /\ dropVault'[b] \in Nat
                             /\ drops[b].total \in Nat /\ drops[b].claimed \in Nat
  BY <1>3 DEF DropInv, DropOnlyInv, DropRecords
<1>5. DropCovered'
  BY <1>3, <1>4 DEF DropInv, DropOnlyInv, DropCovered
<1> QED BY <1>1, <1>3, <1>5 DEF DropInv, DropOnlyInv, ClaimsAreLeaves, ClaimsAddUp, OpenedApproved

(* A claim writes two fields of a drop, whatever the type of its leaves.   *)
LEMMA TwoDropFieldsWritten ==
    ASSUME NEW Tree, NEW Wallet,
           NEW d \in [opened : BOOLEAN, closed : BOOLEAN, leaves : Tree, total : Nat,
                      claimed : Nat, expiresAt : Nat, paid : [Wallet -> Nat]],
           NEW to \in Wallet, NEW n \in Nat, NEW amount \in Nat
    PROVE  [d EXCEPT !.claimed = n, !.paid[to] = amount]
              \in [opened : BOOLEAN, closed : BOOLEAN, leaves : Tree, total : Nat,
                   claimed : Nat, expiresAt : Nat, paid : [Wallet -> Nat]]
OBVIOUS

LEMMA ClaimedDropType ==
    ASSUME NEW d \in DropRecords, NEW to \in Recipients, NEW n \in Nat, NEW amount \in Nat
    PROVE  [d EXCEPT !.claimed = n, !.paid[to] = amount] \in DropRecords
<1> DEFINE Tree == Seq(Leaves)
<1>1. DropRecords = [opened : BOOLEAN, closed : BOOLEAN, leaves : Tree, total : Nat,
                     claimed : Nat, expiresAt : Nat, paid : [Recipients -> Nat]]
  BY DEF DropRecords
<1> HIDE DEF Tree
<1> QED BY <1>1, TwoDropFieldsWritten

LEMMA ClaimKeeps ==
    ASSUME DropInv, NEW a \in Authorities, NEW i \in 1..MaxLeaves, Claim(a, i)
    PROVE  DropInv'
<1> DEFINE d == drops[a]
           to == d.leaves[i].to
           amount == d.leaves[i].amount
<1>1. VaultInv'
  BY VaultsUntouched DEF Claim, DropInv
<1>2. d \in DropRecords /\ i \in DOMAIN d.leaves /\ dropVault[a] \in Nat
  BY DEF Claim, DropInv, DropOnlyInv
<1>3. to \in Recipients /\ amount \in Nat /\ d.leaves[i] = [to |-> to, amount |-> amount]
  <2>1. d.leaves[i] \in Leaves
    BY <1>2 DEF DropRecords
  <2> QED BY <2>1 DEF Leaves
<1>4. /\ d.claimed + amount <= d.total
      /\ amount <= dropVault[a]
      /\ d.paid[to] = 0
      /\ drops' = [drops EXCEPT ![a].claimed = @ + amount, ![a].paid[to] = amount]
      /\ dropVault' = [dropVault EXCEPT ![a] = @ - amount]
      /\ snapshots' = snapshots
  BY DEF Claim, Claimable, FirstClaim
<1>5. \A b \in Authorities : b # a => drops'[b] = drops[b] /\ dropVault'[b] = dropVault[b]
  BY <1>4 DEF DropInv, DropOnlyInv
<1>6. /\ drops'[a].opened = d.opened /\ drops'[a].closed = d.closed
      /\ drops'[a].leaves = d.leaves /\ drops'[a].total = d.total
      /\ drops'[a].claimed = d.claimed + amount
      /\ drops'[a].paid = [d.paid EXCEPT ![to] = amount]
      /\ dropVault'[a] = dropVault[a] - amount
  BY <1>2, <1>4 DEF DropInv, DropOnlyInv, DropRecords
<1>7. drops' \in [Authorities -> DropRecords]
  <2> DEFINE n == d.claimed + amount
  <2>1. n \in Nat
    BY <1>2, <1>3 DEF DropRecords
  <2>2. drops' = [drops EXCEPT ![a] = [d EXCEPT !.claimed = n, !.paid[to] = amount]]
    BY <1>4 DEF DropInv, DropOnlyInv
  <2> HIDE DEF d, n, to, amount
  <2>3. [d EXCEPT !.claimed = n, !.paid[to] = amount] \in DropRecords
    BY <1>2, <1>3, <2>1, ClaimedDropType
  <2> QED BY <2>2, <2>3 DEF DropInv, DropOnlyInv
<1>8. dropVault' \in [Authorities -> Nat]
  BY <1>2, <1>3, <1>4 DEF DropInv, DropOnlyInv
<1>9. d.total \in Nat /\ d.claimed \in Nat /\ d.paid \in [Recipients -> Nat]
  BY <1>2 DEF DropRecords
<1>10. DropCovered'
  <2>1. d.opened /\ ~d.closed => d.total - d.claimed <= dropVault[a]
    BY DEF DropInv, DropOnlyInv, DropCovered
  <2> HIDE DEF d, amount, to
  <2>2. d.opened /\ ~d.closed => d.total - (d.claimed + amount) <= dropVault[a] - amount
    BY <1>2, <1>3, <1>9, <2>1
  <2> QED BY <1>5, <1>6, <2>2 DEF DropInv, DropOnlyInv, DropCovered
<1>11. ClaimsAreLeaves'
  <2>1. /\ [leaves |-> d.leaves, total |-> d.total] = snapshots[a]
        /\ \A r \in Recipients : d.paid[r] > 0 =>
              \E j \in DOMAIN d.leaves : d.leaves[j] = [to |-> r, amount |-> d.paid[r]]
    BY DEF Claim, DropInv, DropOnlyInv, ClaimsAreLeaves
  <2> HIDE DEF d
  <2>2. ASSUME NEW r \in Recipients, drops'[a].paid[r] > 0
        PROVE  \E j \in DOMAIN d.leaves : d.leaves[j] = [to |-> r, amount |-> drops'[a].paid[r]]
    <3>1. CASE r = to
      BY <1>2, <1>3, <1>6, <1>9, <3>1
    <3>2. CASE r # to
      BY <1>6, <1>9, <2>1, <2>2, <3>2
    <3> QED BY <3>1, <3>2
  <2> HIDE DEF to, amount
  <2> QED BY <1>4, <1>5, <1>6, <2>1, <2>2 DEF DropInv, DropOnlyInv, ClaimsAreLeaves
<1>12. OpenedApproved'
  BY <1>4, <1>5, <1>6 DEF DropInv, DropOnlyInv, OpenedApproved
<1>13. ClaimsAddUp'
  <2> DEFINE f == d.paid
             g == [d.paid EXCEPT ![to] = amount]
  <2>1. /\ \A r \in Recipients : f[r] \in Int /\ g[r] \in Int
        /\ \A r \in Recipients \ {to} : g[r] = f[r]
        /\ f[to] = 0 /\ g[to] = amount
    BY <1>3, <1>4, <1>9
  <2>2. d.claimed = SumFunctionOnSet(f, Recipients)
    BY DEF DropInv, DropOnlyInv, ClaimsAddUp
  <2> HIDE DEF f, g
  <2>3. SumFunctionOnSet(g, Recipients) = SumFunctionOnSet(f, Recipients) + (g[to] - f[to])
    BY <1>3, <2>1, FiniteAssumption, SumChange
  <2>4. SumFunctionOnSet(g, Recipients) = d.claimed + amount
    BY <1>3, <1>9, <2>1, <2>2, <2>3
  <2>5. drops'[a].claimed = SumFunctionOnSet(drops'[a].paid, Recipients)
    BY <1>6, <2>4 DEF g
  <2> QED BY <1>5, <2>5 DEF DropInv, DropOnlyInv, ClaimsAddUp
<1> QED BY <1>1, <1>4, <1>7, <1>8, <1>10, <1>11, <1>12, <1>13 DEF DropInv, DropOnlyInv

LEMMA CloseKeeps ==
    ASSUME DropInv, NEW a \in Authorities, Close(a)
    PROVE  DropInv'
<1>1. VaultInv'
  BY VaultsUntouched DEF Close, DropInv
<1>2. /\ drops' = [drops EXCEPT ![a].closed = TRUE]
      /\ dropVault' = [dropVault EXCEPT ![a] = 0]
      /\ snapshots' = snapshots
  BY DEF Close
<1>3. \A b \in Authorities : b # a => drops'[b] = drops[b] /\ dropVault'[b] = dropVault[b]
  BY <1>2 DEF DropInv, DropOnlyInv
<1>4. drops'[a] = [drops[a] EXCEPT !.closed = TRUE]
  BY <1>2 DEF DropInv, DropOnlyInv
<1>5. /\ drops'[a].opened = drops[a].opened /\ drops'[a].closed
      /\ drops'[a].leaves = drops[a].leaves /\ drops'[a].total = drops[a].total
      /\ drops'[a].claimed = drops[a].claimed /\ drops'[a].paid = drops[a].paid
      /\ drops'[a] \in DropRecords
  BY <1>4 DEF DropInv, DropOnlyInv, DropRecords
<1>6. drops' \in [Authorities -> DropRecords] /\ dropVault' \in [Authorities -> Nat]
  BY <1>2, <1>4, <1>5 DEF DropInv, DropOnlyInv
<1>7. DropCovered' /\ ClaimsAddUp' /\ OpenedApproved'
  BY <1>2, <1>3, <1>5 DEF DropInv, DropOnlyInv, DropCovered, ClaimsAddUp, OpenedApproved
<1>8. ClaimsAreLeaves'
  BY <1>2, <1>3, <1>5 DEF DropInv, DropOnlyInv, ClaimsAreLeaves
<1> QED BY <1>1, <1>2, <1>6, <1>7, <1>8 DEF DropInv, DropOnlyInv

LEMMA DropInvStep == DropInv /\ [DropNext]_<<vars, dropVars>> => DropInv'
<1> SUFFICES ASSUME DropInv, [DropNext]_<<vars, dropVars>> PROVE DropInv'
  OBVIOUS
<1>1. CASE UNCHANGED <<vars, dropVars>>
  BY <1>1, VaultsUntouched, DropUntouched DEF DropInv
<1>2. CASE VaultStep
  BY <1>2, VaultStepKeeps
<1>3. CASE DropStep
  BY <1>3, ApproveKeeps, OpenFromCreatorKeeps, OpenFromRewardVaultKeeps, GiftKeeps, ClaimKeeps,
     CloseKeeps DEF DropStep
<1> QED BY <1>1, <1>2, <1>3 DEF DropNext

LEMMA DropInvHolds == DropSpec => []DropInv
BY DropInvInit, DropInvStep, PTL DEF DropSpec

-----------------------------------------------------------------------------
(* DropTypeCorrect: no handler of the drop or of the vaults leaves an      *)
(* account in an impossible state.                                         *)
THEOREM DropTypeCorrect == DropSpec => []DropTypeOK
<1>1. DropInv => DropTypeOK
  BY DEF DropInv, VaultInv, DropOnlyInv, DropTypeOK
<1> QED BY <1>1, DropInvHolds, PTL

(* DropStaysCovered: an open drop can always pay every holder it still     *)
(* owes (initialize_community_drop..., claim_community_drop).              *)
THEOREM DropStaysCovered == DropSpec => []DropCovered
<1>1. DropInv => DropCovered
  BY DEF DropInv, DropOnlyInv
<1> QED BY <1>1, DropInvHolds, PTL

(* EscrowKeepsPromises: with airdrops opened from the vaults too, what is  *)
(* promised to published cycles stays in the vault.                        *)
THEOREM EscrowKeepsPromises == DropSpec => []EscrowLeavesPromises
<1>1. DropInv => EscrowLeavesPromises
  BY DEF DropInv, VaultInv, EscrowLeavesPromises
<1> QED BY <1>1, DropInvHolds, PTL

(* DropKeepsReserves: nor do airdrops opened from the vaults disturb what  *)
(* the payments and the reserves of the cycles add up to.                  *)
THEOREM DropKeepsReserves == DropSpec => []PaymentsExplainReserves
<1>1. DropInv => PaymentsExplainReserves
  BY SumsExplain DEF DropInv, VaultInv
<1> QED BY <1>1, DropInvHolds, PTL

(* DropKeepsLeavesAffordable: and emptying an escrow into a drop makes no  *)
(* leaf of a published cycle unpayable.                                    *)
THEOREM DropKeepsLeavesAffordable == DropSpec => []UnpaidLeavesAffordable
<1>1. DropInv => UnpaidLeavesAffordable
  BY InvAffordable DEF DropInv, VaultInv
<1> QED BY <1>1, DropInvHolds, PTL

(* ClaimsStayInSnapshot: a drop is the approved snapshot for ever; it pays *)
(* leaves of it, never more than its total, and counts every payment.      *)
THEOREM ClaimsStayInSnapshot == DropSpec => []ClaimsMatchSnapshot
<1>1. DropInv => ClaimsMatchSnapshot
  <2> SUFFICES ASSUME DropInv, NEW a \in Authorities
               PROVE  drops[a].claimed = SumFunction(drops[a].paid)
    BY DEF ClaimsMatchSnapshot, DropInv, DropOnlyInv
  <2>1. DOMAIN drops[a].paid = Recipients
    BY DEF DropInv, DropOnlyInv, DropRecords
  <2> QED BY <2>1 DEF DropInv, DropOnlyInv, ClaimsAddUp, SumFunction
<1> QED BY <1>1, DropInvHolds, PTL

LEMMA InvClaimable == ASSUME DropInv PROVE SnapshotStaysClaimable
<1> SUFFICES ASSUME NEW a \in Authorities, drops[a].opened, ~drops[a].closed,
                    LeavesWithinTotal(drops[a]), NEW i \in DOMAIN drops[a].leaves,
                    drops[a].paid[drops[a].leaves[i].to] = 0
             PROVE  Claimable(a, drops[a].leaves[i].amount)
  BY DEF SnapshotStaysClaimable
<1> DEFINE d == drops[a]
           amount == d.leaves[i].amount
           worth == SumFunction([j \in DOMAIN d.leaves |-> d.leaves[j].amount])
<1>1. /\ d.leaves \in Seq(Leaves) /\ d.paid \in [Recipients -> Nat]
      /\ d.total \in Nat /\ d.claimed \in Nat /\ dropVault[a] \in Nat
  BY DEF DropInv, DropOnlyInv, DropRecords
<1>2. d.leaves[i] \in Leaves
  BY <1>1
<1>3. amount \in Nat
  BY <1>2 DEF Leaves
<1>4. d.claimed = SumFunctionOnSet(d.paid, Recipients)
  BY DEF DropInv, DropOnlyInv, ClaimsAddUp
<1>5. \A r \in Recipients : d.paid[r] > 0 =>
          \E j \in DOMAIN d.leaves : d.leaves[j] = [to |-> r, amount |-> d.paid[r]]
  BY DEF DropInv, DropOnlyInv, ClaimsAreLeaves
<1>6. d.total - d.claimed <= dropVault[a]
  BY DEF DropInv, DropOnlyInv, DropCovered
<1>7. worth <= d.total /\ worth \in Nat
  BY <1>1, LeavesWorth DEF LeavesWithinTotal
<1>8. d.claimed + amount <= worth
  <2> HIDE DEF d
  <2>1. SumFunctionOnSet(d.paid, Recipients) + d.leaves[i].amount <= worth
    BY <1>1, <1>5, LeafFits DEF d
  <2> QED BY <1>4, <2>1
<1> HIDE DEF d, amount, worth
<1>9. d.claimed + amount <= d.total /\ amount <= dropVault[a]
  BY <1>1, <1>3, <1>6, <1>7, <1>8
<1> QED BY <1>9 DEF d, amount, Claimable

(* HoldersStayClaimable: for any snapshot whose leaves fit in its total,   *)
(* every holder who has not claimed can, until the drop is closed: the     *)
(* order of the claims, gifts and the vaults change nothing                *)
(* (claim_community_drop).                                                 *)
THEOREM HoldersStayClaimable == DropSpec => []SnapshotStaysClaimable
<1>1. DropInv => SnapshotStaysClaimable
  BY InvClaimable
<1> QED BY <1>1, DropInvHolds, PTL

-----------------------------------------------------------------------------
(* What a decrease of a drop's tokens is, drop by drop.                    *)
Outflow(a) ==
    dropVault'[a] < dropVault[a] =>
        /\ drops[a].opened /\ ~drops[a].closed
        /\ now < drops[a].expiresAt =>
              drops'[a].claimed - drops[a].claimed = dropVault[a] - dropVault'[a]
        /\ now >= drops[a].expiresAt =>
              drops'[a].closed /\ drops'[a].claimed = drops[a].claimed

LEMMA OutflowStep ==
    ASSUME DropInv, [DropNext]_<<vars, dropVars>>, NEW a \in Authorities
    PROVE  Outflow(a)
<1>0. /\ dropVault \in [Authorities -> Nat] /\ dropVault[a] \in Nat
      /\ drops \in [Authorities -> DropRecords] /\ drops[a] \in DropRecords
      /\ now \in Nat
  BY DEF DropInv, DropOnlyInv, VaultInv, TypeOK
<1>a. CASE dropVault'[a] >= dropVault[a] /\ dropVault'[a] \in Nat
  BY <1>0, <1>a DEF Outflow
<1>b. CASE dropVault' = dropVault
  BY <1>0, <1>b DEF Outflow
<1>1. CASE UNCHANGED <<vars, dropVars>> \/ VaultStep
  BY <1>b, <1>1 DEF VaultStep, dropVars
<1>2. ASSUME NEW b \in Authorities, NEW s \in Snapshots, NEW w \in Windows,
             ApproveSnapshot(b, s, w)
      PROVE  Outflow(a)
  BY <1>b, <1>2 DEF ApproveSnapshot
<1>3. ASSUME NEW b \in Authorities, NEW w \in Windows,
             OpenFromCreator(b, w) \/ OpenFromRewardVault(b, w)
      PROVE  Outflow(a)
  <2>1. OpenDrop(b, w)
    BY <1>3 DEF OpenFromCreator, OpenFromRewardVault
  <2>2. snapshots[b].total \in Nat
    BY DEF DropInv, DropOnlyInv, SnapshotRecords
  <2>3. dropVault' = [dropVault EXCEPT ![b] = snapshots[b].total] /\ dropVault[b] = 0
    BY <1>3, <2>1 DEF OpenFromCreator, OpenFromRewardVault, EscrowMatches, OpenDrop
  <2> QED BY <1>0, <1>a, <2>2, <2>3
<1>4. ASSUME NEW b \in Authorities, NEW amount \in Deposits, Gift(b, amount)
      PROVE  Outflow(a)
  <2>1. amount \in Nat
    BY AmountAssumption
  <2> QED BY <1>0, <1>a, <1>4, <2>1 DEF Gift
<1>5. ASSUME NEW b \in Authorities, NEW i \in 1..MaxLeaves, Claim(b, i)
      PROVE  Outflow(a)
  <2>1. CASE b # a
    BY <1>0, <1>a, <1>5, <2>1 DEF Claim
  <2>2. CASE b = a
    <3> DEFINE amount == drops[a].leaves[i].amount
    <3>1. drops[a].leaves[i] \in Leaves
      BY <1>0, <1>5, <2>2 DEF Claim, DropRecords
    <3>2. amount \in Nat
      BY <3>1 DEF Leaves
    <3>3. drops[a].opened /\ ~drops[a].closed /\ now < drops[a].expiresAt
      BY <1>5, <2>2 DEF Claim
    <3>4. dropVault'[a] = dropVault[a] - amount /\ drops'[a].claimed = drops[a].claimed + amount
      BY <1>0, <1>5, <2>2 DEF Claim, DropRecords
    <3>5. drops[a].claimed \in Nat /\ drops[a].expiresAt \in Nat
      BY <1>0 DEF DropRecords
    <3> HIDE DEF amount
    <3> QED BY <1>0, <3>2, <3>3, <3>4, <3>5 DEF Outflow
  <2> QED BY <2>1, <2>2
<1>6. ASSUME NEW b \in Authorities, Close(b)
      PROVE  Outflow(a)
  <2>1. CASE b # a
    BY <1>0, <1>a, <1>6, <2>1 DEF Close
  <2>2. CASE b = a
    <3>1. drops[a].opened /\ ~drops[a].closed /\ now >= drops[a].expiresAt
      BY <1>6, <2>2 DEF Close, CloseEligible
    <3>2. drops'[a].closed /\ drops'[a].claimed = drops[a].claimed
      BY <1>0, <1>6, <2>2 DEF Close, DropRecords
    <3>3. drops[a].expiresAt \in Nat
      BY <1>0 DEF DropRecords
    <3> QED BY <1>0, <3>1, <3>2, <3>3 DEF Outflow
  <2> QED BY <2>1, <2>2
<1>7. CASE DropStep
  BY <1>2, <1>3, <1>4, <1>5, <1>6, <1>7 DEF DropStep
<1> QED BY <1>1, <1>7 DEF DropNext

(* TokensLeaveByClaims: until it expires a drop's tokens leave only by     *)
(* claims that its counter records, and the remainder leaves once.         *)
THEOREM TokensLeaveByClaims == DropSpec => OnlyClaimsBeforeExpiry
<1>1. DropInv /\ [DropNext]_<<vars, dropVars>> =>
        [\A a \in Authorities :
            dropVault'[a] < dropVault[a] =>
              /\ drops[a].opened /\ ~drops[a].closed
              /\ now < drops[a].expiresAt =>
                    drops'[a].claimed - drops[a].claimed = dropVault[a] - dropVault'[a]
              /\ now >= drops[a].expiresAt =>
                    drops'[a].closed /\ drops'[a].claimed = drops[a].claimed]_<<vars, dropVars>>
  BY OutflowStep DEF Outflow
<1> QED BY <1>1, DropInvHolds, PTL DEF DropSpec, OnlyClaimsBeforeExpiry
=============================================================================
