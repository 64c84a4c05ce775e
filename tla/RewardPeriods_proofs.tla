------------------------- MODULE RewardPeriods_proofs -------------------------
(***************************************************************************)
(* The reward periods for any fundings, lengths and policies, and for any  *)
(* number of changes of the period length.                                 *)
(*                                                                         *)
(* PreparedPeriodsDisjoint is not inductive by itself: a row that will be  *)
(* prepared has to be known disjoint from those that are.  PeriodsInv says *)
(* why it is: periods of one length lie on a grid, waiting rows have the   *)
(* length of the program, and whatever was prepared under another length   *)
(* had closed when the program's first period was chosen.                  *)
(***************************************************************************)
EXTENDS RewardPeriods, TLAPS

(* A period that starts at s is on the grid of its length. *)
OnGrid(s, length) == \E k \in Nat : s = k * length

Exists(r) == r.status # "none"

RowInv(s) ==
    /\ ~Exists(rows[s]) => ~Prepared(rows[s])
    /\ Exists(rows[s]) =>
          /\ program # NoProgram
          /\ rows[s].end > s /\ OnGrid(s, rows[s].end - s)
          /\ rows[s].place <= opened
    /\ Waiting(rows[s]) => rows[s].end - s = program.length
    /\ Prepared(rows[s]) =>
          \/ rows[s].end - s = program.length
          \/ \A f \in program.firsts : rows[s].end <= f
    /\ program # NoProgram => program.first \in program.firsts

(* No two rows stand at one place of the insertion order. *)
PlacesDistinct ==
    \A s, t \in Starts :
       s # t /\ Exists(rows[s]) /\ Exists(rows[t]) => rows[s].place # rows[t].place

PeriodsInv ==
    /\ TypeOK
    /\ \A s \in Starts : RowInv(s)
    /\ PlacesDistinct
    /\ FundingUsedOnce
    /\ PreparedPeriodsDisjoint

-----------------------------------------------------------------------------
(* Arithmetic of the grid *)

LEMMA LengthsPositive == Lengths \subseteq Nat \ {0} /\ MaxTime \in Nat /\ MaxLength \in Nat
BY PeriodAssumption

LEMMA FloorFacts ==
    ASSUME NEW t \in Nat, NEW length \in Nat \ {0}
    PROVE  /\ t \div length \in Nat
           /\ Floor(t, length) \in Nat
           /\ Floor(t, length) <= t
           /\ t < Floor(t, length) + length
<1>1. /\ t \div length \in Nat
      /\ length * (t \div length) <= t
      /\ t < length * (t \div length) + length
  BY SMTT(30)
<1>2. length * (t \div length) \in Nat
  BY <1>1, SMT
<1> QED BY <1>1, <1>2 DEF Floor

LEMMA FirstStartAhead ==
    ASSUME NEW t \in Nat, NEW length \in Nat \ {0}
    PROVE  FirstStart(t, length) \in Nat /\ FirstStart(t, length) >= t
<1> DEFINE x == t + length - 1
<1>1. x \in Nat
  OBVIOUS
<1>2. Floor(x, length) \in Nat /\ x < Floor(x, length) + length
  BY <1>1, FloorFacts
<1> QED BY <1>2 DEF FirstStart

(* Two periods of one length on its grid do not overlap. *)
LEMMA GridDisjoint ==
    ASSUME NEW s \in Nat, NEW t \in Nat, NEW length \in Nat \ {0},
           OnGrid(s, length), OnGrid(t, length), s < t
    PROVE  s + length <= t
<1>1. PICK k \in Nat : s = k * length
  BY DEF OnGrid
<1>2. PICK m \in Nat : t = m * length
  BY DEF OnGrid
<1>3. k < m
  <2>1. ASSUME m <= k PROVE m * length <= k * length
    BY <2>1, SMT
  <2> QED BY <1>1, <1>2, <2>1
<1>4. (k + 1) * length <= m * length
  BY <1>3, SMT
<1>5. (k + 1) * length = k * length + length
  BY SMT
<1> QED BY <1>1, <1>2, <1>4, <1>5

-----------------------------------------------------------------------------
LEMMA ProgramTyped ==
    ASSUME TypeOK, program # NoProgram
    PROVE  /\ program \in Program
           /\ program.length \in Nat \ {0} /\ program.length \in Lengths
           /\ program.first \in Nat /\ program.policy \in Policies
BY LengthsPositive DEF TypeOK, Program

LEMMA StartsNat == Starts \subseteq Nat
BY LengthsPositive DEF Starts

LEMMA NowNat == TypeOK => now \in Nat
BY LengthsPositive DEF TypeOK

(* The periods around now lie on the program's grid. *)
LEMMA AroundOnGrid ==
    ASSUME TypeOK, program # NoProgram, NEW i \in 1 .. 3, Around[i] \in Nat
    PROVE  OnGrid(Around[i], program.length)
<1> DEFINE length == program.length
           q == now \div length
<1>1. length \in Nat \ {0} /\ now \in Nat
  BY ProgramTyped, NowNat
<1>2. q \in Nat /\ Floor(now, length) = length * q
  BY <1>1, FloorFacts DEF Floor
<1>3. Around = <<length * q - length, length * q, length * q + length>>
  BY <1>2 DEF Around
<1> HIDE DEF length, q
<1>4. CASE i = 1
  <2>1. Around[i] = length * q - length
    BY <1>3, <1>4
  <2>2. q # 0
    <3> SUFFICES ASSUME q = 0 PROVE FALSE
      OBVIOUS
    <3>1. length * q = 0
      BY <1>1, SMT
    <3> QED BY <2>1, <3>1, <1>1
  <2>3. q - 1 \in Nat /\ length * q - length = (q - 1) * length
    BY <1>1, <1>2, <2>2, SMT
  <2> QED BY <2>1, <2>3 DEF OnGrid, length
<1>5. CASE i = 2
  <2>1. length * q = q * length
    BY <1>1, <1>2, SMT
  <2> QED BY <1>2, <1>3, <1>5, <2>1 DEF OnGrid, length
<1>6. CASE i = 3
  <2>1. q + 1 \in Nat /\ length * q + length = (q + 1) * length
    BY <1>1, <1>2, SMT
  <2> QED BY <1>3, <1>6, <2>1 DEF OnGrid, length
<1> QED BY <1>4, <1>5, <1>6

LEMMA AroundDistinct ==
    ASSUME TypeOK, program # NoProgram, NEW i \in 1 .. 3, NEW j \in 1 .. 3, Around[i] = Around[j]
    PROVE  i = j
<1>1. program.length \in Nat \ {0} /\ Floor(now, program.length) \in Nat
  BY ProgramTyped, NowNat, FloorFacts
<1> QED BY <1>1 DEF Around

-----------------------------------------------------------------------------
(* The rows after the first part of prepare: one with a manifest is left   *)
(* alone, and one that waits has the length and the first period of the    *)
(* program.                                                                *)
LEMMA EnsuredRows ==
    ASSUME TypeOK, program # NoProgram, NEW s \in Starts, RowInv(s), opened \in Nat
    PROVE  LET e == Ensured[s] IN
           /\ e \in Row
           /\ e.pools = rows[s].pools
           /\ Prepared(rows[s]) => e.end = rows[s].end /\ e.status = rows[s].status
           /\ Exists(rows[s]) => Exists(e) /\ e.place = rows[s].place
           /\ Exists(e) => e.end > s /\ OnGrid(s, e.end - s)
           /\ Waiting(e) => s >= program.first /\ e.end - s = program.length
           /\ e.status \in {"calculating", "prepared", "paid"} => Prepared(e)
<1> DEFINE length == program.length
<1>0. /\ s \in Nat /\ length \in Nat \ {0} /\ program.first \in Nat
      /\ rows[s] \in Row
      /\ rows[s].status \in {"calculating", "prepared", "paid"} => Prepared(rows[s])
  BY StartsNat, ProgramTyped DEF TypeOK
<1>1. CASE \E i \in 1 .. 3 : s = Around[i] /\ Opens(i)
  <2> DEFINE i == CHOOSE i \in 1 .. 3 : s = Around[i]
  <2>1. i \in 1 .. 3 /\ s = Around[i]
    BY <1>1
  <2>2. PICK j \in 1 .. 3 : s = Around[j] /\ Opens(j)
    BY <1>1
  <2>3. i = j
    BY <2>1, <2>2, AroundDistinct
  <2>4. Ensured[s] = OpenedRow(i)
    BY <1>1 DEF Ensured
  <2> HIDE DEF i
  <2>5. OnGrid(s, length)
    BY <2>1, <1>0, AroundOnGrid
  <2>6. s >= program.first /\ ~Prepared(rows[s])
    BY <2>2, <1>0 DEF Opens, Replaceable, Skipped, Waiting, RowInv, Exists, Prepared
  <2>7. rows[s].pools = {}
    BY <2>6 DEF Prepared
  <2>8. /\ OpenedRow(i).status = "indexing" /\ OpenedRow(i).pools = {}
        /\ OpenedRow(i).end = s + length
        /\ OpenedRow(i).place = IF rows[s].status = "none" THEN opened + i ELSE rows[s].place
    BY <2>1 DEF OpenedRow
  <2>9. OpenedRow(i) \in Row
    BY <2>1, <1>0 DEF OpenedRow, Row, Statuses
  <2>10. (s + length) - s = length /\ s + length > s
    BY <1>0
  <2> QED BY <2>4, <2>5, <2>6, <2>7, <2>8, <2>9, <2>10 DEF Exists, Prepared, Waiting
<1>2. CASE ~\E i \in 1 .. 3 : s = Around[i] /\ Opens(i)
  <2>1. Ensured[s] = Skipped(s)
    BY <1>2 DEF Ensured
  <2>2. CASE Waiting(rows[s]) /\ s < program.first
    <3>0. program.length # QaLength \/ rows[s].end - s <= QaLength
      BY <2>2, <1>0, PeriodAssumption DEF RowInv
    <3>1. Skipped(s) = [rows[s] EXCEPT !.status = "skipped"]
      BY <2>2, <3>0 DEF Skipped
    <3> QED BY <2>1, <2>2, <3>1, <1>0 DEF RowInv, Row, Statuses, Exists, Prepared, Waiting
  <2>3. CASE ~(Waiting(rows[s]) /\ s < program.first)
    <3>1. Skipped(s) = rows[s]
      BY <2>3 DEF Skipped
    <3>2. Waiting(rows[s]) => s >= program.first
      BY <2>3, <1>0
    <3> QED BY <2>1, <3>1, <3>2, <1>0 DEF RowInv, Exists
  <2> QED BY <2>2, <2>3
<1> QED BY <1>1, <1>2

(* A new row stands behind all others. *)
LEMMA EnsuredPlace ==
    ASSUME TypeOK, program # NoProgram, NEW s \in Starts, Exists(Ensured[s]), ~Exists(rows[s])
    PROVE  \E i \in 1 .. 3 : s = Around[i] /\ Opens(i) /\ Ensured[s].place = opened + i
<1>1. PICK j \in 1 .. 3 : s = Around[j] /\ Opens(j)
  BY DEF Ensured, Skipped, Exists, Waiting
<1> DEFINE i == CHOOSE i \in 1 .. 3 : s = Around[i]
<1>2. i \in 1 .. 3 /\ s = Around[i]
  BY <1>1
<1>3. i = j
  BY <1>1, <1>2, AroundDistinct
<1>4. Ensured[s] = OpenedRow(i)
  BY <1>1 DEF Ensured
<1> HIDE DEF i
<1>5. OpenedRow(i).place = opened + i
  BY <1>2 DEF OpenedRow, Exists
<1> QED BY <1>1, <1>3, <1>4, <1>5

LEMMA EnsuredPlaces ==
    ASSUME TypeOK, program # NoProgram, opened \in Nat, PlacesDistinct,
           \A s \in Starts : RowInv(s),
           NEW s \in Starts, NEW t \in Starts, s # t, Exists(Ensured[s]), Exists(Ensured[t])
    PROVE  Ensured[s].place # Ensured[t].place /\ Ensured[s].place <= opened + 3
<1>1. ASSUME NEW u \in Starts, Exists(rows[u])
      PROVE  Ensured[u].place = rows[u].place /\ rows[u].place \in Nat /\ rows[u].place <= opened
  BY <1>1, EnsuredRows DEF RowInv, TypeOK, Row
<1>2. CASE Exists(rows[s]) /\ Exists(rows[t])
  BY <1>1, <1>2 DEF PlacesDistinct
<1>3. CASE Exists(rows[s]) /\ ~Exists(rows[t])
  <2>1. PICK j \in 1 .. 3 : Ensured[t].place = opened + j
    BY <1>3, EnsuredPlace
  <2> QED BY <2>1, <1>1, <1>3
<1>4. CASE ~Exists(rows[s]) /\ Exists(rows[t])
  <2>1. PICK j \in 1 .. 3 : Ensured[s].place = opened + j
    BY <1>4, EnsuredPlace
  <2> QED BY <2>1, <1>1, <1>4
<1>5. CASE ~Exists(rows[s]) /\ ~Exists(rows[t])
  <2>1. PICK i \in 1 .. 3 : s = Around[i] /\ Ensured[s].place = opened + i
    BY <1>5, EnsuredPlace
  <2>2. PICK j \in 1 .. 3 : t = Around[j] /\ Ensured[t].place = opened + j
    BY <1>5, EnsuredPlace
  <2> QED BY <2>1, <2>2
<1> QED BY <1>2, <1>3, <1>4, <1>5

-----------------------------------------------------------------------------
(* What prepare does to a row: winners get what they were offered, others  *)
(* at most another waiting status.                                         *)
Won(s, W) ==
    /\ Due(Ensured[s])
    /\ rows'[s].pools = Offered(Ensured, s, W) /\ rows'[s].pools # {}
    /\ rows'[s].status \in {"prepared", "calculating"}

Passed(s) ==
    /\ rows'[s].pools = Ensured[s].pools
    /\ \/ rows'[s].status = Ensured[s].status
       \/ Due(Ensured[s]) /\ rows'[s].status \in {"blocked", "deferred"}

Decided(W) ==
    /\ \A s \in W : Won(s, W)
    /\ \A s \in Starts \ W : Passed(s)
    /\ \A s \in Starts : rows'[s].end = Ensured[s].end /\ rows'[s].place = Ensured[s].place
    /\ rows' \in [Starts -> Row]
    /\ pools' = [p \in Fundings |->
          IF \E s \in W : p \in Offered(Ensured, s, W) THEN [pools[p] EXCEPT !.status = "assigned"]
          ELSE pools[p]]

LEMMA PrepareDecides ==
    ASSUME PeriodsInv, Prepare
    PROVE  \E W \in SUBSET Starts : Decided(W)
<1> DEFINE rs == Ensured
           due == {s \in Starts : Due(rs[s])}
<1>1. \A s \in Starts : rs[s] \in Row
  BY EnsuredRows DEF PeriodsInv, TypeOK, Prepare
<1>2. PICK W \in SUBSET due :
        LET found == [s \in due |-> Offered(rs, s, W)]
        IN  /\ \A s \in W : Enough(found[s])
            /\ \E blocked \in SUBSET {s \in due \ W : Enough(found[s])} :
                 rows' = [s \in Starts |->
                   IF s \in W
                     THEN [rs[s] EXCEPT !.pools = found[s],
                             !.status = IF now >= PayoutAt(rs[s]) THEN "prepared" ELSE "calculating"]
                   ELSE IF s \in blocked THEN [rs[s] EXCEPT !.status = "blocked"]
                   ELSE IF s \in due THEN [rs[s] EXCEPT !.status = "deferred"]
                   ELSE rs[s]]
            /\ pools' = [p \in Fundings |->
                 IF \E s \in W : p \in found[s] THEN [pools[p] EXCEPT !.status = "assigned"]
                 ELSE pools[p]]
  BY DEF Prepare, Decide
<1> HIDE DEF rs
<1> DEFINE found == [s \in due |-> Offered(rs, s, W)]
<1>3. PICK blocked \in SUBSET {s \in due \ W : Enough(found[s])} :
        rows' = [s \in Starts |->
          IF s \in W
            THEN [rs[s] EXCEPT !.pools = found[s],
                    !.status = IF now >= PayoutAt(rs[s]) THEN "prepared" ELSE "calculating"]
          ELSE IF s \in blocked THEN [rs[s] EXCEPT !.status = "blocked"]
          ELSE IF s \in due THEN [rs[s] EXCEPT !.status = "deferred"]
          ELSE rs[s]]
  BY <1>2
<1>4. ASSUME NEW s \in W
      PROVE  found[s] = Offered(rs, s, W) /\ found[s] # {} /\ found[s] \subseteq Fundings
  BY <1>2 DEF Enough, Offered
<1> HIDE DEF found
<1>5. ASSUME NEW s \in Starts
      PROVE  /\ rows'[s] \in Row
             /\ rows'[s].end = rs[s].end /\ rows'[s].place = rs[s].place
             /\ s \in W => /\ Due(rs[s])
                          /\ rows'[s].pools = Offered(rs, s, W) /\ rows'[s].pools # {}
                          /\ rows'[s].status \in {"prepared", "calculating"}
             /\ s \notin W => /\ rows'[s].pools = rs[s].pools
                             /\ \/ rows'[s].status = rs[s].status
                                \/ Due(rs[s]) /\ rows'[s].status \in {"blocked", "deferred"}
  <2>1. CASE s \in W
    <3>1. rows'[s] = [rs[s] EXCEPT !.pools = found[s],
                    !.status = IF now >= PayoutAt(rs[s]) THEN "prepared" ELSE "calculating"]
      BY <1>3, <2>1
    <3> QED BY <3>1, <2>1, <1>1, <1>4 DEF Row, Statuses
  <2>2. CASE s \notin W /\ s \in blocked
    <3>1. rows'[s] = [rs[s] EXCEPT !.status = "blocked"] /\ s \in due
      BY <1>3, <2>2
    <3> QED BY <3>1, <2>2, <1>1 DEF Row, Statuses
  <2>3. CASE s \notin W /\ s \notin blocked /\ s \in due
    <3>1. rows'[s] = [rs[s] EXCEPT !.status = "deferred"]
      BY <1>3, <2>3
    <3> QED BY <3>1, <2>3, <1>1 DEF Row, Statuses
  <2>4. CASE s \notin W /\ s \notin blocked /\ s \notin due
    <3>1. rows'[s] = rs[s]
      BY <1>3, <2>4
    <3> QED BY <3>1, <2>4, <1>1
  <2> QED BY <2>1, <2>2, <2>3, <2>4
<1>6. rows' \in [Starts -> Row]
  <2>1. rows' = [s \in Starts |-> rows'[s]]
    BY <1>3
  <2> QED BY <2>1, <1>5
<1>7. pools' = [p \in Fundings |->
          IF \E s \in W : p \in Offered(rs, s, W) THEN [pools[p] EXCEPT !.status = "assigned"]
          ELSE pools[p]]
  BY <1>2, <1>4 DEF found
<1>8. W \in SUBSET Starts
  BY <1>2
<1> QED BY <1>5, <1>6, <1>7, <1>8 DEF Decided, Won, Passed, rs

(* Two winners of one pass are offered different pools.                    *)
LEMMA WinnersShareNothing ==
    ASSUME PeriodsInv, program # NoProgram, NEW W \in SUBSET Starts,
           \A s \in W : Due(Ensured[s]),
           NEW s \in W, NEW t \in W, s # t
    PROVE  Offered(Ensured, s, W) \cap Offered(Ensured, t, W) = {}
<1> USE DEF PeriodsInv, TypeOK
<1>1. Ensured[s] \in Row /\ Ensured[t] \in Row
  BY EnsuredRows
<1>2. Exists(Ensured[s]) /\ Exists(Ensured[t])
  BY DEF Due, Waiting, Exists
<1>3. Ensured[s].place # Ensured[t].place
  BY <1>2, EnsuredPlaces
<1>4. ASSUME NEW u \in W, NEW v \in W, Ensured[u].place < Ensured[v].place,
             Ensured[u] \in Row, NEW p \in Offered(Ensured, u, W), p \in Offered(Ensured, v, W)
      PROVE  FALSE
  <2>1. pools[p].at < Ensured[u].end
    BY DEF Offered
  <2>2. pools[p].at >= Ensured[u].end
    BY <1>4 DEF Offered
  <2>3. pools[p].at \in Nat /\ Ensured[u].end \in Nat
    BY <1>4 DEF Offered, Pool, Row
  <2> QED BY <2>1, <2>2, <2>3
<1>5. Ensured[s].place \in Nat /\ Ensured[t].place \in Nat
  BY <1>1 DEF Row
<1>6. Ensured[s].place < Ensured[t].place \/ Ensured[t].place < Ensured[s].place
  BY <1>3, <1>5
<1> QED BY <1>1, <1>4, <1>6

-----------------------------------------------------------------------------
(* prepare keeps the invariant *)

(* A row that has a manifest afterwards has kept it or has won it.         *)
LEMMA PrepareRow ==
    ASSUME PeriodsInv, Prepare, NEW W \in SUBSET Starts, Decided(W), NEW s \in Starts
    PROVE  /\ RowInv(s)'
           /\ Prepared(rows[s]) => s \notin W /\ rows'[s].pools = rows[s].pools
                                 /\ rows'[s].end = rows[s].end
           /\ ~Prepared(rows[s]) /\ Prepared(rows'[s]) =>
                 /\ s \in W /\ s >= program.first /\ rows'[s].end - s = program.length
                 /\ now >= rows'[s].end
           /\ rows'[s].status \in {"calculating", "prepared", "paid"} => Prepared(rows'[s])
           /\ Exists(rows'[s]) => Exists(Ensured[s])
<1> DEFINE e == Ensured[s]
           r == rows[s]
<1>0. /\ program # NoProgram /\ opened \in Nat /\ RowInv(s) /\ TypeOK /\ PlacesDistinct
      /\ program' = program /\ now' = now
      /\ opened' \in {opened, opened + 3}
  BY DEF PeriodsInv, Prepare, TypeOK
<1>1. /\ e \in Row /\ e.pools = r.pools
      /\ Prepared(r) => e.end = r.end /\ e.status = r.status
      /\ Exists(r) => Exists(e) /\ e.place = r.place
      /\ Exists(e) => e.end > s /\ OnGrid(s, e.end - s)
      /\ Waiting(e) => s >= program.first /\ e.end - s = program.length
      /\ e.status \in {"calculating", "prepared", "paid"} => Prepared(e)
  BY <1>0, EnsuredRows
<1>2. Exists(e) => e.place <= opened'
  <2>1. CASE Exists(r)
    BY <2>1, <1>0, <1>1 DEF RowInv, Row
  <2>2. CASE ~Exists(r) /\ Exists(e)
    <3>1. PICK i \in 1 .. 3 : s = Around[i] /\ Opens(i) /\ e.place = opened + i
      BY <2>2, <1>0, EnsuredPlace
    <3>2. opened' = opened + 3
      BY <3>1 DEF Prepare
    <3> QED BY <3>1, <3>2, <1>0
  <2> QED BY <2>1, <2>2
<1>3. rows'[s].end = e.end /\ rows'[s].place = e.place
  BY DEF Decided
<1>4. Prepared(r) => Exists(r)
  BY <1>0 DEF RowInv
<1> HIDE DEF e
<1>5. CASE s \in W
  <2>1. Due(e) /\ Prepared(rows'[s]) /\ rows'[s].status \in {"prepared", "calculating"}
    BY <1>5 DEF Decided, Won, Prepared, e
  <2>2. Waiting(e) /\ now >= e.end /\ Exists(e) /\ ~Prepared(r)
    BY <2>1, <1>1 DEF Due, Waiting, Exists, Prepared
  <2> QED BY <1>0, <1>1, <1>2, <1>3, <1>5, <2>1, <2>2 DEF RowInv, Exists, Waiting, e
<1>6. CASE s \notin W
  <2>1. /\ rows'[s].pools = e.pools
        /\ \/ rows'[s].status = e.status
           \/ Due(e) /\ rows'[s].status \in {"blocked", "deferred"}
    BY <1>6 DEF Decided, Passed, e
  <2>2. Exists(rows'[s]) <=> Exists(e)
    BY <2>1 DEF Exists, Due, Waiting
  <2>3. Waiting(rows'[s]) => Waiting(e)
    BY <2>1 DEF Due, Waiting, Prepared
  <2>4. Prepared(rows'[s]) <=> Prepared(r)
    BY <1>1, <2>1 DEF Prepared
  <2>5. rows'[s].status \in {"calculating", "prepared", "paid"} => Prepared(rows'[s])
    BY <1>1, <2>1, <2>4 DEF Prepared
  <2> QED BY <1>0, <1>1, <1>2, <1>3, <1>4, <1>6, <2>1, <2>2, <2>3, <2>4, <2>5 DEF RowInv, e
<1> QED BY <1>5, <1>6

LEMMA PrepareKeepsTypes == ASSUME PeriodsInv, Prepare PROVE TypeOK'
<1>1. PICK W \in SUBSET Starts : Decided(W)
  BY PrepareDecides
<1>2. /\ now' = now /\ program' = program /\ changes' = changes
      /\ opened' \in Nat /\ rows' \in [Starts -> Row]
  BY <1>1 DEF Prepare, Decided, PeriodsInv, TypeOK
<1>3. pools' \in [Fundings -> Pool]
  BY <1>1 DEF Decided, PeriodsInv, TypeOK, Pool
<1>4. ASSUME NEW s \in Starts
      PROVE  /\ rows'[s].status \in {"calculating", "prepared", "paid"} => Prepared(rows'[s])
             /\ Prepared(rows'[s]) => rows'[s].end <= now
  <2>1. Prepared(rows[s]) => rows[s].end <= now
    BY DEF PeriodsInv, TypeOK
  <2>2. now \in Nat /\ rows'[s].end \in Nat
    BY <1>2, NowNat DEF PeriodsInv, Row
  <2> QED BY <1>1, <2>1, <2>2, PrepareRow
<1> QED BY <1>2, <1>3, <1>4 DEF PeriodsInv, TypeOK

LEMMA PrepareKeepsFunding == ASSUME PeriodsInv, Prepare PROVE FundingUsedOnce'
<1>1. PICK W \in SUBSET Starts : Decided(W)
  BY PrepareDecides
<1> DEFINE offer(s) == Offered(Ensured, s, W)
<1>2. /\ program # NoProgram /\ FundingUsedOnce
      /\ pools' = [p \in Fundings |->
            IF \E s \in W : p \in offer(s) THEN [pools[p] EXCEPT !.status = "assigned"]
            ELSE pools[p]]
      /\ pools \in [Fundings -> Pool]
  BY <1>1 DEF PeriodsInv, TypeOK, Prepare, Decided
<1>3. \A s \in W : offer(s) \subseteq Fundings /\ \A p \in offer(s) : pools[p].status = "available"
  BY DEF Offered
<1>4. \A s \in W : Due(Ensured[s]) /\ rows'[s].pools = offer(s) /\ ~Prepared(rows[s])
  BY <1>1, PrepareRow DEF Decided, Won
<1>5. \A s \in Starts \ W : rows'[s].pools = rows[s].pools
  <2> SUFFICES ASSUME NEW s \in Starts \ W PROVE rows'[s].pools = rows[s].pools
    OBVIOUS
  <2>1. Ensured[s].pools = rows[s].pools
    BY <1>2, EnsuredRows DEF PeriodsInv, TypeOK
  <2> QED BY <1>1, <2>1 DEF Decided, Passed
<1>6. \A s \in W, t \in W : s # t => offer(s) \cap offer(t) = {}
  BY <1>2, <1>4, WinnersShareNothing
<1> HIDE DEF offer
<1>7. ASSUME NEW s \in Starts, NEW t \in Starts, s # t
      PROVE  rows'[s].pools \cap rows'[t].pools = {}
  <2>1. ASSUME NEW u \in W, NEW v \in Starts \ W PROVE offer(u) \cap rows[v].pools = {}
    <3>1. rows[v].pools \subseteq Fundings
      BY DEF PeriodsInv, TypeOK, Row
    <3> QED BY <2>1, <3>1, <1>2, <1>3 DEF FundingUsedOnce
  <2>2. CASE s \in W /\ t \in W
    BY <1>4, <1>6, <1>7, <2>2
  <2>3. CASE s \in W /\ t \notin W
    BY <1>4, <1>5, <2>1, <2>3
  <2>4. CASE s \notin W /\ t \in W
    BY <1>4, <1>5, <2>1, <2>4
  <2>5. CASE s \notin W /\ t \notin W
    BY <1>2, <1>5, <1>7, <2>5 DEF FundingUsedOnce
  <2> QED BY <2>2, <2>3, <2>4, <2>5
<1>8. ASSUME NEW p \in Fundings
      PROVE  pools'[p].status = "assigned" <=> \E s \in Starts : p \in rows'[s].pools
  <2>1. CASE \E s \in W : p \in offer(s)
    <3>1. pools'[p].status = "assigned"
      BY <2>1, <1>2 DEF Pool
    <3> QED BY <2>1, <3>1, <1>4
  <2>2. CASE ~\E s \in W : p \in offer(s)
    <3>1. pools'[p] = pools[p]
      BY <2>2, <1>2
    <3>2. (\E s \in Starts : p \in rows'[s].pools) <=> \E s \in Starts : p \in rows[s].pools
      BY <2>2, <1>4, <1>5 DEF Prepared
    <3> QED BY <3>1, <3>2, <1>2 DEF FundingUsedOnce
  <2> QED BY <2>1, <2>2
<1> QED BY <1>7, <1>8 DEF FundingUsedOnce

LEMMA PrepareKeepsDisjoint == ASSUME PeriodsInv, Prepare PROVE PreparedPeriodsDisjoint'
<1>1. PICK W \in SUBSET Starts : Decided(W)
  BY PrepareDecides
<1> SUFFICES ASSUME NEW s \in Starts, NEW t \in Starts, s < t,
                    Prepared(rows'[s]), Prepared(rows'[t])
             PROVE  rows'[s].end <= t
  BY DEF PreparedPeriodsDisjoint
<1> DEFINE length == program.length
           first == program.first
<1>2. /\ s \in Nat /\ t \in Nat /\ length \in Nat \ {0} /\ first \in Nat
      /\ rows'[s].end \in Nat /\ rows'[t].end \in Nat
      /\ program' = program
  BY StartsNat, ProgramTyped, PrepareKeepsTypes DEF PeriodsInv, Prepare, TypeOK, Row
<1>3. RowInv(s)' /\ RowInv(t)'
  BY <1>1, PrepareRow
<1>4. /\ rows'[s].end > s /\ OnGrid(s, rows'[s].end - s)
      /\ rows'[s].end - s = length \/ rows'[s].end <= first
      /\ rows'[t].end > t /\ OnGrid(t, rows'[t].end - t)
      /\ rows'[t].end - t = length \/ rows'[t].end <= first
  BY <1>2, <1>3 DEF RowInv
<1>5. CASE rows'[s].end - s = length /\ rows'[t].end - t = length
  <2>1. s + length <= t
    BY <1>2, <1>4, <1>5, GridDisjoint
  <2> QED BY <2>1, <1>2, <1>5
<1>6. CASE Prepared(rows[s]) /\ Prepared(rows[t])
  <2>1. rows'[s].end = rows[s].end
    BY <1>1, <1>6, PrepareRow
  <2> QED BY <2>1, <1>6 DEF PeriodsInv, PreparedPeriodsDisjoint
<1>7. CASE ~Prepared(rows[s]) /\ rows'[t].end - t # length
  <2>1. s >= first
    BY <1>1, <1>7, PrepareRow
  <2>2. rows'[t].end <= first
    BY <1>4, <1>7
  <2> QED BY <2>1, <2>2, <1>2, <1>4
<1>8. CASE ~Prepared(rows[t]) /\ rows'[s].end - s # length
  <2>1. t >= first
    BY <1>1, <1>8, PrepareRow
  <2> QED BY <2>1, <1>2, <1>4, <1>8
<1>9. /\ ~Prepared(rows[s]) => rows'[s].end - s = length
      /\ ~Prepared(rows[t]) => rows'[t].end - t = length
  BY <1>1, PrepareRow
<1> QED BY <1>5, <1>6, <1>7, <1>8, <1>9

LEMMA PrepareKeeps == ASSUME PeriodsInv, Prepare PROVE PeriodsInv'
<1>1. PICK W \in SUBSET Starts : Decided(W)
  BY PrepareDecides
<1>2. \A s \in Starts : RowInv(s)'
  BY <1>1, PrepareRow
<1>3. PlacesDistinct'
  <2> SUFFICES ASSUME NEW s \in Starts, NEW t \in Starts, s # t, Exists(rows'[s]), Exists(rows'[t])
               PROVE  rows'[s].place # rows'[t].place
    BY DEF PlacesDistinct
  <2>1. Exists(Ensured[s]) /\ Exists(Ensured[t])
    BY <1>1, PrepareRow
  <2>2. Ensured[s].place # Ensured[t].place
    BY <2>1, EnsuredPlaces DEF PeriodsInv, TypeOK, Prepare
  <2> QED BY <2>2, <1>1 DEF Decided
<1> QED BY <1>2, <1>3, PrepareKeepsTypes, PrepareKeepsFunding, PrepareKeepsDisjoint DEF PeriodsInv

-----------------------------------------------------------------------------
(* A change of the program: every period that has a manifest has closed,   *)
(* so it ends before the new first period.                                 *)
LEMMA RegisterRows ==
    ASSUME PeriodsInv, NEW length \in Lengths, NEW policy \in Policies, Register(length, policy),
           NEW s \in Starts
    PROVE  /\ rows'[s] \in Row
           /\ rows'[s].pools = rows[s].pools /\ rows'[s].end = rows[s].end
           /\ rows'[s].place = rows[s].place
           /\ rows'[s].status \in {"calculating", "prepared", "paid"} <=>
                 rows[s].status \in {"calculating", "prepared", "paid"}
           /\ Exists(rows'[s]) <=> Exists(rows[s])
           /\ Waiting(rows'[s]) => rows'[s].end - s = length
<1> DEFINE next == FirstStart(now, length)
           inForce == /\ program # NoProgram
                      /\ program.length = length
                      /\ program.policy = policy
<1>1. \/ ~inForce /\ rows' = [u \in Starts |-> Replan(rows[u], u, length, next)]
      \/ inForce /\ rows' = rows
  BY DEF Register
<1>2. rows[s] \in Row /\ RowInv(s)
  BY DEF PeriodsInv, TypeOK
<1> HIDE DEF next, inForce
<1>3. CASE ~inForce
  <2>1. rows'[s] = Replan(rows[s], s, length, next)
    BY <1>1, <1>3
  <2> QED BY <2>1, <1>2 DEF Replan, Row, Statuses, Exists, Waiting, Prepared
<1>4. CASE inForce
  <2>1. rows' = rows
    BY <1>1, <1>4
  <2>2. Waiting(rows[s]) => rows[s].end - s = program.length
    BY <1>2 DEF RowInv
  <2>3. program.length = length
    BY <1>4 DEF inForce
  <2> QED BY <2>1, <2>2, <2>3, <1>2
<1> QED BY <1>3, <1>4

(* The first periods of the terms in force, the present one among them,    *)
(* are not before any cutoff of a manifest of other terms.                 *)
LEMMA RegisterProgram ==
    ASSUME PeriodsInv, NEW length \in Lengths, NEW policy \in Policies, Register(length, policy)
    PROVE  /\ program' \in Program /\ program'.length = length
           /\ program'.first \in program'.firsts
           /\ \A s \in Starts : Prepared(rows[s]) =>
                 \/ rows[s].end - s = length
                 \/ \A f \in program'.firsts : rows[s].end <= f
<1> DEFINE next == FirstStart(now, length)
<1>1. now \in Nat /\ next \in Nat /\ next >= now
  BY NowNat, LengthsPositive, FirstStartAhead DEF PeriodsInv
<1>2. ASSUME NEW s \in Starts, Prepared(rows[s]) PROVE rows[s].end <= next
  <2>1. rows[s].end <= now /\ rows[s].end \in Nat
    BY <1>2 DEF PeriodsInv, TypeOK, Row
  <2> QED BY <2>1, <1>1
<1>3. \/ program' = [length |-> length, policy |-> policy, first |-> next, firsts |-> {next}]
      \/ /\ program # NoProgram /\ program.length = length
         /\ \E first \in program.firsts \cup {next} :
               program' = [program EXCEPT !.first = first, !.firsts = @ \cup {first}]
  BY DEF Register
<1> HIDE DEF next
<1>4. CASE program' = [length |-> length, policy |-> policy, first |-> next, firsts |-> {next}]
  BY <1>1, <1>2, <1>4 DEF Program
<1>5. CASE /\ program # NoProgram /\ program.length = length
           /\ \E first \in program.firsts \cup {next} :
                 program' = [program EXCEPT !.first = first, !.firsts = @ \cup {first}]
  <2>1. PICK first \in program.firsts \cup {next} :
           program' = [program EXCEPT !.first = first, !.firsts = @ \cup {first}]
    BY <1>5
  <2>2. program \in Program /\ program.firsts \subseteq Nat
    BY <1>5, ProgramTyped DEF PeriodsInv, Program
  <2>3. /\ program'.first = first /\ program'.firsts = program.firsts \cup {first}
        /\ program'.length = length /\ program' \in Program
    BY <2>1, <2>2, <1>1, <1>5 DEF Program
  <2>4. ASSUME NEW s \in Starts, Prepared(rows[s]), rows[s].end - s # length
        PROVE  \A f \in program'.firsts : rows[s].end <= f
    <3>1. \A f \in program.firsts : rows[s].end <= f
      BY <2>4, <1>5 DEF PeriodsInv, RowInv
    <3> QED BY <3>1, <2>1, <2>3, <2>4, <1>2
  <2> QED BY <2>3, <2>4
<1> QED BY <1>3, <1>4, <1>5

LEMMA RegisterKeeps ==
    ASSUME PeriodsInv, NEW length \in Lengths, NEW policy \in Policies, Register(length, policy)
    PROVE  PeriodsInv'
<1>1. /\ now' = now /\ now \in Nat /\ pools' = pools /\ opened' = opened
      /\ DOMAIN rows' = Starts /\ rows' = [s \in Starts |-> rows'[s]]
      /\ changes' = changes + 1 /\ changes < MaxChanges
  BY NowNat DEF Register, PeriodsInv, TypeOK
<1>2. program' \in Program /\ program'.length = length /\ program'.first \in program'.firsts
  BY RegisterProgram
<1>3. rows' \in [Starts -> Row]
  BY <1>1, RegisterRows
<1>4. \A s \in Starts : Prepared(rows'[s]) <=> Prepared(rows[s])
  BY RegisterRows DEF Prepared
<1>5. program' # NoProgram
  <2>1. length # 0
    BY LengthsPositive
  <2> QED BY <1>2, <2>1 DEF NoProgram
<1>6. TypeOK'
  <2>1. changes' \in 0 .. MaxChanges
    BY <1>1, PeriodAssumption DEF PeriodsInv, TypeOK
  <2>2. \A s \in Starts :
          /\ rows'[s].status \in {"calculating", "prepared", "paid"} => Prepared(rows'[s])
          /\ Prepared(rows'[s]) => rows'[s].end <= now'
    BY <1>1, <1>4, RegisterRows DEF PeriodsInv, TypeOK
  <2> QED BY <1>1, <1>2, <1>3, <2>1, <2>2 DEF PeriodsInv, TypeOK
<1>7. ASSUME NEW s \in Starts PROVE RowInv(s)'
  <2>1. RowInv(s)
    BY DEF PeriodsInv
  <2>2. Prepared(rows'[s]) =>
           rows'[s].end - s = length \/ \A f \in program'.firsts : rows'[s].end <= f
    BY <1>4, RegisterProgram, RegisterRows
  <2> QED BY <2>1, <2>2, <1>1, <1>2, <1>4, <1>5, RegisterRows DEF RowInv
<1>8. PlacesDistinct' /\ PreparedPeriodsDisjoint' /\ FundingUsedOnce'
  BY <1>1, <1>4, RegisterRows DEF PeriodsInv, PlacesDistinct, PreparedPeriodsDisjoint, FundingUsedOnce
<1> QED BY <1>6, <1>7, <1>8 DEF PeriodsInv

LEMMA RecordKeeps ==
    ASSUME PeriodsInv, NEW p \in Fundings, NEW amount \in Amounts, NEW at \in 0 .. MaxTime,
           RecordFunded(p, amount, at)
    PROVE  PeriodsInv'
<1>1. UNCHANGED <<now, program, rows, opened, changes>>
  BY DEF RecordFunded
<1>2. pools' = [pools EXCEPT ![p] = [status |-> "available", amount |-> amount, at |-> at]]
  BY DEF RecordFunded
<1>3. at \in Nat /\ amount \in Nat /\ pools \in [Fundings -> Pool]
  BY PeriodAssumption DEF PeriodsInv, TypeOK
<1>4. pools' \in [Fundings -> Pool]
  BY <1>2, <1>3 DEF Pool
<1>5. \A q \in Fundings : pools'[q].status = "assigned" <=> pools[q].status = "assigned"
  BY <1>2, <1>3 DEF RecordFunded, NoPool
<1> QED BY <1>1, <1>4, <1>5 DEF PeriodsInv, TypeOK, RowInv, Waiting, Prepared, Exists, OnGrid,
        PlacesDistinct, FundingUsedOnce, PreparedPeriodsDisjoint

LEMMA ExecuteKeeps == ASSUME PeriodsInv, NEW s \in Starts, Execute(s) PROVE PeriodsInv'
<1>1. UNCHANGED <<now, program, pools, opened, changes>>
  BY DEF Execute
<1>2. PICK status \in {"paid", "blocked"} : rows' = [rows EXCEPT ![s].status = status]
  BY DEF Execute
<1>3. Prepared(rows[s]) /\ rows[s].status = "prepared" /\ rows \in [Starts -> Row]
  BY DEF Execute, PeriodsInv, TypeOK
<1>4. rows' \in [Starts -> Row]
  BY <1>2, <1>3 DEF Row, Statuses
<1>5. ASSUME NEW t \in Starts
      PROVE  /\ rows'[t].pools = rows[t].pools /\ rows'[t].end = rows[t].end
             /\ rows'[t].place = rows[t].place
             /\ Exists(rows'[t]) <=> Exists(rows[t])
             /\ Prepared(rows'[t]) <=> Prepared(rows[t])
             /\ Waiting(rows'[t]) <=> Waiting(rows[t])
             /\ rows'[t].status \in {"calculating", "prepared", "paid"} => Prepared(rows'[t])
  BY <1>2, <1>3 DEF PeriodsInv, TypeOK, Row, Exists, Prepared, Waiting
<1>6. TypeOK'
  BY <1>1, <1>4, <1>5 DEF PeriodsInv, TypeOK
<1>7. \A t \in Starts : RowInv(t)'
  BY <1>1, <1>5 DEF PeriodsInv, RowInv
<1>8. PlacesDistinct' /\ FundingUsedOnce' /\ PreparedPeriodsDisjoint'
  BY <1>1, <1>5 DEF PeriodsInv, PlacesDistinct, FundingUsedOnce, PreparedPeriodsDisjoint
<1> QED BY <1>6, <1>7, <1>8 DEF PeriodsInv

LEMMA TickKeeps == ASSUME PeriodsInv, Tick PROVE PeriodsInv'
<1>1. UNCHANGED <<program, pools, rows, opened, changes>> /\ now' \in 0 .. MaxTime /\ now' >= now
  BY LengthsPositive DEF Tick, PeriodsInv, TypeOK
<1>2. TypeOK'
  <2>1. ASSUME NEW s \in Starts, Prepared(rows[s]) PROVE rows[s].end <= now'
    <3>1. rows[s].end <= now /\ rows[s].end \in Nat /\ now \in Nat /\ now' \in Nat
      BY <1>1, <2>1, NowNat, LengthsPositive DEF PeriodsInv, TypeOK, Row
    <3> QED BY <1>1, <3>1
  <2> QED BY <1>1, <2>1 DEF PeriodsInv, TypeOK, Prepared
<1> QED BY <1>1, <1>2 DEF PeriodsInv, RowInv, Waiting, Prepared, Exists, OnGrid, PlacesDistinct,
        FundingUsedOnce, PreparedPeriodsDisjoint

LEMMA PeriodsInit == Init => PeriodsInv
<1> SUFFICES ASSUME Init PROVE PeriodsInv
  OBVIOUS
<1>1. TypeOK
  BY LengthsPositive, PeriodAssumption DEF Init, TypeOK, NoRow, NoPool, Row, Pool, Statuses, Prepared
<1>2. \A s \in Starts : rows[s] = NoRow
  BY DEF Init
<1> QED BY <1>1, <1>2 DEF Init, PeriodsInv, RowInv, PlacesDistinct, FundingUsedOnce,
        PreparedPeriodsDisjoint, NoRow, NoPool, Exists, Prepared, Waiting

LEMMA PeriodsInvStep == PeriodsInv /\ [Next]_vars => PeriodsInv'
<1> SUFFICES ASSUME PeriodsInv, [Next]_vars PROVE PeriodsInv'
  OBVIOUS
<1>1. CASE UNCHANGED vars
  BY <1>1 DEF vars, PeriodsInv, TypeOK, RowInv, Waiting, Prepared, Exists, OnGrid, PlacesDistinct,
     FundingUsedOnce, PreparedPeriodsDisjoint
<1>2. CASE Next
  BY <1>2, RegisterKeeps, RecordKeeps, PrepareKeeps, ExecuteKeeps, TickKeeps DEF Next
<1> QED BY <1>1, <1>2

LEMMA Invariance == Spec => []PeriodsInv
<1> QED BY PeriodsInit, PeriodsInvStep, PTL DEF Spec

-----------------------------------------------------------------------------
(* Types; what is to be paid has a manifest, and only closed periods do. *)
THEOREM TypeCorrect == Spec => []TypeOK
<1>1. PeriodsInv => TypeOK
  BY DEF PeriodsInv
<1> QED BY Invariance, <1>1, PTL

(* No funding is in two manifests, or assigned without being in one.       *)
THEOREM FundingIsUsedOnce == Spec => []FundingUsedOnce
<1>1. PeriodsInv => FundingUsedOnce
  BY DEF PeriodsInv
<1> QED BY Invariance, <1>1, PTL

(* However often the length of the periods changes, those that are paid do *)
(* not overlap.                                                            *)
THEOREM PeriodsDisjoint == Spec => []PreparedPeriodsDisjoint
<1>1. PeriodsInv => PreparedPeriodsDisjoint
  BY DEF PeriodsInv
<1> QED BY Invariance, <1>1, PTL

(* A manifest is never changed or replaced.                                *)
THEOREM ManifestImmutable == Spec => ManifestKept
<1> DEFINE Kept == \A s \in Starts : Prepared(rows[s]) =>
                      rows'[s].pools = rows[s].pools /\ rows'[s].end = rows[s].end
<1>1. PeriodsInv /\ [Next]_vars => [Kept]_vars
  <2> SUFFICES ASSUME PeriodsInv, Next, NEW s \in Starts, Prepared(rows[s])
               PROVE  rows'[s].pools = rows[s].pools /\ rows'[s].end = rows[s].end
    OBVIOUS
  <2>1. CASE \E length \in Lengths, policy \in Policies : Register(length, policy)
    BY <2>1, RegisterRows
  <2>2. CASE \E p \in Fundings, amount \in Amounts, at \in 0 .. MaxTime : RecordFunded(p, amount, at)
    BY <2>2 DEF RecordFunded
  <2>3. CASE Prepare
    BY <2>3, PrepareDecides, PrepareRow
  <2>4. CASE \E t \in Starts : Execute(t)
    BY <2>4 DEF Execute, PeriodsInv, TypeOK, Row
  <2>5. CASE Tick
    BY <2>5 DEF Tick
  <2> QED BY <2>1, <2>2, <2>3, <2>4, <2>5 DEF Next
<1>2. Spec => [][Kept]_vars
  BY Invariance, <1>1, PTL DEF Spec
<1> QED BY <1>2 DEF ManifestKept
=============================================================================
