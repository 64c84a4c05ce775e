------------------------ MODULE RewardExecution_proofs ------------------------
(***************************************************************************)
(* The execution of reward rows for any rows, manifests and requests, and  *)
(* any number of crashes.                                                  *)
(*                                                                         *)
(* PaidMeansOnChain is not inductive: the step that books a leaf does not  *)
(* look at the chain.  That it may follow from where the executor stands,  *)
(* so ExecutionInv adds BookedIsPaid; no other executor can take that      *)
(* payment back, because the chain only grows.                             *)
(* HeldBackStays speaks of steps; HeldInv says who can take one at a row.  *)
(***************************************************************************)
EXTENDS RewardExecution, TLAPS

BookedIsPaid ==
    \A e \in Executors : pc[e] = "book" => <<Current(e), leaf[e]>> \in paid

ExecutionInv == TypeOK /\ PaidMeansOnChain /\ BookedIsPaid

-----------------------------------------------------------------------------
(* Rows and plans *)

LEMMA CurrentIsPlanned ==
    ASSUME NEW e, plans[e] \subseteq Schedules, plans[e] # {}
    PROVE  Current(e) \in plans[e]
BY ExecutionAssumption DEF Current

LEMMA SameCurrent ==
    ASSUME NEW e, plans'[e] = plans[e]
    PROVE  Current(e)' = Current(e)
BY DEF Current

LEMMA StatusChanged ==
    ASSUME NEW s \in Schedules, NEW r \in Row(s), NEW status \in Statuses
    PROVE  /\ [r EXCEPT !.status = status] \in Row(s)
           /\ [r EXCEPT !.status = status].status = status
           /\ [r EXCEPT !.status = status].payments = r.payments
BY DEF Row

(* What TypeOK says of an executor that runs.                              *)
LEMMA Running ==
    ASSUME TypeOK, NEW e \in Executors, pc[e] # "idle"
    PROVE  /\ plans[e] # {} /\ plans[e] \subseteq Schedules
           /\ Current(e) \in plans[e] /\ Current(e) \in Schedules
           /\ rows[Current(e)] \in Row(Current(e))
           /\ Leaves[Current(e)] \in Nat \ {0}
<1>1. plans[e] # {} /\ plans[e] \subseteq Schedules
  BY DEF TypeOK
<1>2. Current(e) \in plans[e]
  BY <1>1, CurrentIsPlanned
<1> QED
  BY <1>1, <1>2, ExecutionAssumption DEF TypeOK

-----------------------------------------------------------------------------
(* TypeOK in two parts: what the executors write about themselves, and the *)
(* ledger with the chain.                                                  *)

AtLeaf == {"look", "submit", "book", "refuse"}

ExecutorsTyped ==
    /\ pc \in [Executors -> Steps]
    /\ plans \in [Executors -> SUBSET Schedules]
    /\ leaf \in [Executors -> Nat]
    /\ \A e \in Executors : pc[e] # "idle" =>
          plans[e] # {} /\ (pc[e] \in AtLeaf => leaf[e] \in LeavesOf(Current(e)))

LedgerTyped ==
    /\ DOMAIN rows = Schedules /\ \A s \in Schedules : rows[s] \in Row(s)
    /\ covered \subseteq Schedules /\ excluded \subseteq Holders
    /\ cycles \subseteq Schedules /\ paid \subseteq Payments /\ sent \subseteq Payments
    /\ passes \in 0 .. MaxPasses /\ crashes \in 0 .. MaxCrashes

LEMMA TypeParts == TypeOK <=> ExecutorsTyped /\ LedgerTyped
BY DEF TypeOK, ExecutorsTyped, LedgerTyped, AtLeaf

(* Only e moves, and stands where its plan and its leaf allow.             *)
LEMMA OneMoves ==
    ASSUME ExecutorsTyped, NEW e \in Executors,
           pc' \in [Executors -> Steps],
           plans' \in [Executors -> SUBSET Schedules],
           leaf' \in [Executors -> Nat],
           \A x \in Executors \ {e} : pc'[x] = pc[x] /\ plans'[x] = plans[x] /\ leaf'[x] = leaf[x],
           pc'[e] # "idle" =>
              plans'[e] # {} /\ (pc'[e] \in AtLeaf => leaf'[e] \in LeavesOf(Current(e)'))
    PROVE  ExecutorsTyped'
<1>1. ASSUME NEW x \in Executors \ {e}, pc'[x] # "idle"
      PROVE  plans'[x] # {} /\ (pc'[x] \in AtLeaf => leaf'[x] \in LeavesOf(Current(x)'))
  BY <1>1, SameCurrent DEF ExecutorsTyped
<1> QED
  BY <1>1 DEF ExecutorsTyped, LeavesOf

(* The chain grows, and e does not come to book: nobody loses a payment.   *)
LEMMA BookedStays ==
    ASSUME BookedIsPaid, NEW e \in Executors, paid \subseteq paid', pc'[e] # "book",
           \A x \in Executors \ {e} : pc'[x] = pc[x] /\ plans'[x] = plans[x] /\ leaf'[x] = leaf[x]
    PROVE  BookedIsPaid'
BY SameCurrent DEF BookedIsPaid

LEMMA NextPlanTyped ==
    ASSUME ExecutionInv, NEW e \in Executors, pc[e] # "idle", NextPlan(e), paid \subseteq paid'
    PROVE  ExecutorsTyped' /\ BookedIsPaid'
<1>1. ExecutorsTyped /\ BookedIsPaid
  BY TypeParts DEF ExecutionInv
<1>2. pc' \in [Executors -> Steps] /\ plans' \in [Executors -> SUBSET Schedules]
  BY <1>1 DEF ExecutorsTyped, NextPlan, Goto, Steps
<1>3. leaf' = leaf /\ leaf' \in [Executors -> Nat]
  BY <1>1 DEF ExecutorsTyped, NextPlan
<1>4. /\ pc'[e] \in {"idle", "screen"}
      /\ pc'[e] # "idle" => plans'[e] # {}
      /\ \A x \in Executors \ {e} : pc'[x] = pc[x] /\ plans'[x] = plans[x] /\ leaf'[x] = leaf[x]
  BY <1>1 DEF ExecutorsTyped, NextPlan, Goto
<1>5. ExecutorsTyped'
  BY <1>1, <1>2, <1>3, <1>4, OneMoves DEF AtLeaf
<1> QED
  BY <1>1, <1>4, <1>5, BookedStays

LEMMA NextLeafTyped ==
    ASSUME ExecutionInv, NEW e \in Executors, pc[e] \in AtLeaf, NextLeaf(e), paid \subseteq paid'
    PROVE  ExecutorsTyped' /\ BookedIsPaid'
<1>1. ExecutorsTyped /\ BookedIsPaid
  BY TypeParts DEF ExecutionInv
<1>2. /\ leaf[e] \in LeavesOf(Current(e)) /\ plans[e] # {}
      /\ Leaves[Current(e)] \in Nat \ {0}
  BY <1>1, Running DEF ExecutorsTyped, AtLeaf, ExecutionInv
<1>3. plans' = plans /\ Current(e)' = Current(e)
  BY SameCurrent DEF NextLeaf
<1>4. /\ pc' \in [Executors -> Steps]
      /\ pc'[e] \in {"look", "close"}
      /\ \A x \in Executors \ {e} : pc'[x] = pc[x]
  BY <1>1 DEF ExecutorsTyped, NextLeaf, Goto, Steps
<1>5. /\ leaf' \in [Executors -> Nat]
      /\ \A x \in Executors \ {e} : leaf'[x] = leaf[x]
      /\ pc'[e] = "look" => leaf'[e] = leaf[e] + 1 /\ leaf[e] # Leaves[Current(e)]
  BY <1>1 DEF ExecutorsTyped, NextLeaf, Goto
<1>6. pc'[e] = "look" => leaf'[e] \in LeavesOf(Current(e)')
  BY <1>2, <1>3, <1>5 DEF LeavesOf
<1>7. ExecutorsTyped'
  BY <1>1, <1>2, <1>3, <1>4, <1>5, <1>6, OneMoves DEF AtLeaf, ExecutorsTyped
<1> QED
  BY <1>1, <1>3, <1>4, <1>5, <1>7, BookedStays

(* e goes on to a step that needs no leaf, or keeps its leaf.              *)
LEMMA GotoTyped ==
    ASSUME ExecutionInv, NEW e \in Executors, pc[e] # "idle",
           NEW step \in Steps \ {"book"}, Goto(e, step), UNCHANGED <<plans, leaf>>,
           step \in AtLeaf => pc[e] \in AtLeaf, paid \subseteq paid'
    PROVE  ExecutorsTyped' /\ BookedIsPaid'
<1>1. ExecutorsTyped /\ BookedIsPaid
  BY TypeParts DEF ExecutionInv
<1>2. /\ pc' \in [Executors -> Steps] /\ pc'[e] = step
      /\ \A x \in Executors \ {e} : pc'[x] = pc[x]
  BY <1>1 DEF ExecutorsTyped, Goto
<1>3. Current(e)' = Current(e)
  BY SameCurrent
<1>4. ExecutorsTyped'
  BY <1>1, <1>2, <1>3, OneMoves DEF ExecutorsTyped
<1> QED
  BY <1>1, <1>2, <1>4, BookedStays

-----------------------------------------------------------------------------
(* One row is written *)

RowsTyped == DOMAIN rows = Schedules /\ \A s \in Schedules : rows[s] \in Row(s)

LEMMA RowWritten ==
    ASSUME ExecutionInv, paid \subseteq paid', NEW s \in Schedules, NEW r \in Row(s),
           rows' = [rows EXCEPT ![s] = r],
           \A i \in LeavesOf(s) : r.payments[i] = "paid" \/ r.status = "paid" => <<s, i>> \in paid'
    PROVE  RowsTyped' /\ PaidMeansOnChain'
<1>1. DOMAIN rows = Schedules /\ \A t \in Schedules : rows[t] \in Row(t)
  BY DEF ExecutionInv, TypeOK
<1>2. /\ DOMAIN rows' = Schedules /\ rows'[s] = r
      /\ \A t \in Schedules \ {s} : rows'[t] = rows[t]
  BY <1>1
<1>3. RowsTyped'
  BY <1>1, <1>2 DEF RowsTyped, Row, LeavesOf
<1>4. ASSUME NEW t \in Schedules, NEW i \in LeavesOf(t),
             rows'[t].payments[i] = "paid" \/ rows'[t].status = "paid"
      PROVE  <<t, i>> \in paid'
  BY <1>2, <1>4 DEF ExecutionInv, PaidMeansOnChain
<1> QED
  BY <1>3, <1>4 DEF PaidMeansOnChain, LeavesOf

LEMMA StatusWritten ==
    ASSUME ExecutionInv, paid \subseteq paid', NEW s \in Schedules, NEW status \in Statuses,
           rows' = [rows EXCEPT ![s].status = status],
           status = "paid" => Complete(rows[s])
    PROVE  RowsTyped' /\ PaidMeansOnChain'
<1> DEFINE r == [rows[s] EXCEPT !.status = status]
<1>1. rows[s] \in Row(s)
  BY DEF ExecutionInv, TypeOK
<1>2. r \in Row(s) /\ r.status = status /\ r.payments = rows[s].payments
  BY <1>1, StatusChanged
<1>3. rows' = [rows EXCEPT ![s] = r]
  OBVIOUS
<1>4. DOMAIN rows[s].payments = LeavesOf(s)
  BY <1>1 DEF Row
<1>5. \A i \in LeavesOf(s) : r.payments[i] = "paid" \/ r.status = "paid" => <<s, i>> \in paid'
  BY <1>2, <1>4 DEF ExecutionInv, PaidMeansOnChain, Complete
<1> HIDE DEF r
<1> QED
  BY <1>2, <1>3, <1>5, RowWritten

LEMMA PaymentWritten ==
    ASSUME ExecutionInv, paid \subseteq paid', NEW s \in Schedules, NEW i \in LeavesOf(s),
           NEW status \in {"pending", "paid"},
           rows' = [rows EXCEPT ![s].payments[i] = status],
           status = "paid" => <<s, i>> \in paid
    PROVE  RowsTyped' /\ PaidMeansOnChain'
<1> DEFINE r == [rows[s] EXCEPT !.payments[i] = status]
<1>1. rows[s] \in Row(s)
  BY DEF ExecutionInv, TypeOK
<1>2. /\ r \in Row(s) /\ r.status = rows[s].status /\ r.payments[i] = status
      /\ \A j \in LeavesOf(s) : j # i => r.payments[j] = rows[s].payments[j]
  <2>1. status \in {"none", "pending", "paid"}
    OBVIOUS
  <2> QED
    BY <1>1, <2>1 DEF Row
<1>3. rows' = [rows EXCEPT ![s] = r]
  OBVIOUS
<1>4. \A j \in LeavesOf(s) : r.payments[j] = "paid" \/ r.status = "paid" => <<s, j>> \in paid'
  BY <1>2 DEF ExecutionInv, PaidMeansOnChain
<1> HIDE DEF r
<1> QED
  BY <1>2, <1>3, <1>4, RowWritten

LEMMA RowsKept ==
    ASSUME ExecutionInv, paid \subseteq paid', rows' = rows
    PROVE  RowsTyped' /\ PaidMeansOnChain'
BY DEF ExecutionInv, TypeOK, RowsTyped, PaidMeansOnChain, Row, LeavesOf

(* The parts make up the invariant of the next state.                      *)
LEMMA Together ==
    ASSUME ExecutorsTyped', BookedIsPaid', RowsTyped', PaidMeansOnChain',
           covered' \subseteq Schedules, excluded' \subseteq Holders,
           cycles' \subseteq Schedules, paid' \subseteq Payments, sent' \subseteq Payments,
           passes' \in 0 .. MaxPasses, crashes' \in 0 .. MaxCrashes
    PROVE  ExecutionInv'
BY DEF ExecutionInv, TypeOK, ExecutorsTyped, RowsTyped, AtLeaf

-----------------------------------------------------------------------------
(* The steps around the executors *)

LEMMA AroundInv ==
    ASSUME ExecutionInv,
           \/ \E s \in Schedules : Record(s) \/ Cover(s)
           \/ \E s \in Holders : Exclude(s)
           \/ \E p \in sent : Land(p)
    PROVE  ExecutionInv'
<1>1. TypeOK /\ ExecutorsTyped /\ BookedIsPaid /\ LedgerTyped
  BY TypeParts DEF ExecutionInv
<1>2. UNCHANGED <<pc, plans, leaf>> /\ paid \subseteq paid' /\ UNCHANGED <<passes, crashes>>
  BY DEF Record, Cover, Exclude, Land, bounds, ledger, chain
<1>3. ExecutorsTyped' /\ BookedIsPaid'
  BY <1>1, <1>2, SameCurrent DEF ExecutorsTyped, BookedIsPaid, LeavesOf
<1>4. ASSUME NEW s \in Schedules, Record(s) PROVE ExecutionInv'
  <2>1. RowsTyped' /\ PaidMeansOnChain'
    BY <1>2, <1>4, StatusWritten DEF Record, Statuses
  <2> QED
    BY <1>1, <1>2, <1>3, <1>4, <2>1, Together DEF Record, LedgerTyped, chain
<1>5. ASSUME NEW s \in Schedules, Cover(s) PROVE ExecutionInv'
  BY <1>1, <1>2, <1>3, <1>5, RowsKept, Together DEF Cover, LedgerTyped, chain
<1>6. ASSUME NEW s \in Holders, Exclude(s) PROVE ExecutionInv'
  BY <1>1, <1>2, <1>3, <1>6, RowsKept, Together DEF Exclude, LedgerTyped, chain
<1>7. ASSUME NEW p \in sent, Land(p) PROVE ExecutionInv'
  BY <1>1, <1>2, <1>3, <1>7, RowsKept, Together DEF Land, LedgerTyped, ledger
<1> QED
  BY <1>4, <1>5, <1>6, <1>7

LEMMA CrashInv == ASSUME ExecutionInv, Crash PROVE ExecutionInv'
<1>1. TypeOK /\ ExecutorsTyped /\ LedgerTyped
  BY TypeParts DEF ExecutionInv
<1>2. ExecutorsTyped' /\ BookedIsPaid'
  BY <1>1 DEF Crash, ExecutorsTyped, BookedIsPaid, Steps
<1>3. crashes' \in 0 .. MaxCrashes
  BY <1>1, ExecutionAssumption DEF Crash, LedgerTyped
<1> QED
  BY <1>1, <1>2, <1>3, RowsKept, Together DEF Crash, LedgerTyped, ledger, chain

LEMMA BeginInv == ASSUME ExecutionInv, NEW e \in Executors, Begin(e) PROVE ExecutionInv'
<1>1. TypeOK /\ ExecutorsTyped /\ LedgerTyped /\ BookedIsPaid
  BY TypeParts DEF ExecutionInv
<1>2. Selected(e) \subseteq Schedules
  BY DEF Selected, Schedules
<1>3. PICK S \in SUBSET Schedules : S # {} /\ plans' = [plans EXCEPT ![e] = S]
  <2>1. CASE e = Worker
    BY <1>2, <2>1 DEF Begin
  <2>2. CASE e # Worker
    BY <1>2, <2>2 DEF Begin
  <2> QED
    BY <2>1, <2>2
<1>4. /\ pc' = [pc EXCEPT ![e] = "screen"] /\ leaf' = leaf /\ paid' = paid
      /\ rows' = rows
  BY DEF Begin, Goto, ledger, chain
<1>5. ExecutorsTyped' /\ BookedIsPaid'
  BY <1>1, <1>3, <1>4, OneMoves, BookedStays DEF ExecutorsTyped, AtLeaf, Steps
<1>6. passes' \in 0 .. MaxPasses
  BY <1>1, ExecutionAssumption DEF Begin, LedgerTyped
<1> QED
  BY <1>1, <1>4, <1>5, <1>6, RowsKept, Together DEF Begin, LedgerTyped, ledger, chain

-----------------------------------------------------------------------------
(* The steps of a pass *)

LEMMA ScreenInv == ASSUME ExecutionInv, NEW e \in Executors, Screen(e) PROVE ExecutionInv'
<1>1. TypeOK /\ LedgerTyped
  BY TypeParts DEF ExecutionInv
<1>2. UNCHANGED <<rows, covered, excluded, cycles, paid, sent, passes, crashes>>
  BY DEF Screen, ledger, chain, bounds
<1>3. ExecutorsTyped' /\ BookedIsPaid'
  BY <1>2, GotoTyped DEF Screen, Steps, AtLeaf
<1> QED
  BY <1>1, <1>2, <1>3, RowsKept, Together DEF LedgerTyped

LEMMA HoldInv == ASSUME ExecutionInv, NEW e \in Executors, Hold(e) PROVE ExecutionInv'
<1>1. TypeOK /\ LedgerTyped /\ Current(e) \in Schedules
  BY TypeParts, Running DEF ExecutionInv, Hold
<1>2. UNCHANGED <<covered, excluded, cycles, paid, sent, passes, crashes>>
  BY DEF Hold, chain, bounds
<1>3. ExecutorsTyped' /\ BookedIsPaid'
  BY <1>2, NextPlanTyped DEF Hold
<1>4. RowsTyped' /\ PaidMeansOnChain'
  BY <1>1, <1>2, StatusWritten DEF Hold, Statuses
<1> QED
  BY <1>1, <1>2, <1>3, <1>4, Together DEF LedgerTyped

LEMMA EnsureCycleInv == ASSUME ExecutionInv, NEW e \in Executors, EnsureCycle(e) PROVE ExecutionInv'
<1>1. TypeOK /\ LedgerTyped /\ Current(e) \in Schedules
  BY TypeParts, Running DEF ExecutionInv, EnsureCycle
<1>2. UNCHANGED <<rows, covered, excluded, paid, sent, passes, crashes>>
  BY DEF EnsureCycle, ledger, bounds
<1>3. ExecutorsTyped' /\ BookedIsPaid'
  BY <1>2, GotoTyped DEF EnsureCycle, Steps, AtLeaf
<1> QED
  BY <1>1, <1>2, <1>3, RowsKept, Together DEF LedgerTyped, EnsureCycle

LEMMA CycleThrowsInv == ASSUME ExecutionInv, NEW e \in Executors, CycleThrows(e) PROVE ExecutionInv'
<1>1. TypeOK /\ LedgerTyped /\ ExecutorsTyped /\ BookedIsPaid
  BY TypeParts DEF ExecutionInv
<1>2. UNCHANGED <<rows, covered, excluded, paid, sent, passes, crashes>> /\ cycles' \subseteq Schedules
  BY <1>1 DEF CycleThrows, ledger, bounds, LedgerTyped
<1>3. /\ pc' = [pc EXCEPT ![e] = "idle"] /\ plans' = [plans EXCEPT ![e] = {}] /\ leaf' = leaf
  BY DEF CycleThrows, Goto
<1>4. ExecutorsTyped' /\ BookedIsPaid'
  BY <1>1, <1>2, <1>3, OneMoves, BookedStays DEF ExecutorsTyped, AtLeaf, Steps
<1> QED
  BY <1>1, <1>2, <1>4, RowsKept, Together DEF LedgerTyped

LEMMA MarkInv == ASSUME ExecutionInv, NEW e \in Executors, Mark(e) PROVE ExecutionInv'
<1>1. /\ TypeOK /\ LedgerTyped /\ ExecutorsTyped /\ BookedIsPaid
      /\ Current(e) \in Schedules /\ plans[e] # {} /\ Leaves[Current(e)] \in Nat \ {0}
  BY TypeParts, Running DEF ExecutionInv, Mark
<1>2. UNCHANGED <<covered, excluded, cycles, paid, sent, plans, passes, crashes>>
  BY DEF Mark, chain, bounds
<1>3. RowsTyped' /\ PaidMeansOnChain'
  BY <1>1, <1>2, StatusWritten DEF Mark, Statuses
<1>4. pc' = [pc EXCEPT ![e] = "look"] /\ leaf' = [leaf EXCEPT ![e] = 1]
  BY DEF Mark, Goto
<1>5. Current(e)' = Current(e) /\ 1 \in LeavesOf(Current(e))
  BY <1>1, <1>2, SameCurrent DEF LeavesOf
<1>6. ExecutorsTyped' /\ BookedIsPaid'
  BY <1>1, <1>2, <1>4, <1>5, OneMoves, BookedStays DEF ExecutorsTyped, AtLeaf, Steps
<1> QED
  BY <1>1, <1>2, <1>3, <1>6, Together DEF LedgerTyped

LEMMA LookInv == ASSUME ExecutionInv, NEW e \in Executors, Look(e) PROVE ExecutionInv'
<1>1. TypeOK /\ LedgerTyped
  BY TypeParts DEF ExecutionInv
<1>2. UNCHANGED <<rows, covered, excluded, cycles, paid, sent, passes, crashes>>
  BY DEF Look, ledger, chain, bounds
<1>3. ExecutorsTyped' /\ BookedIsPaid'
  BY <1>2, GotoTyped, NextLeafTyped DEF Look, Steps, AtLeaf
<1> QED
  BY <1>1, <1>2, <1>3, RowsKept, Together DEF LedgerTyped

(* The payment is on the chain before e stands where it books it.          *)
LEMMA SubmitLeafInv == ASSUME ExecutionInv, NEW e \in Executors, SubmitLeaf(e) PROVE ExecutionInv'
<1>1. /\ TypeOK /\ LedgerTyped /\ ExecutorsTyped /\ BookedIsPaid
      /\ Current(e) \in Schedules /\ plans[e] # {} /\ leaf[e] \in LeavesOf(Current(e))
  BY TypeParts, Running DEF ExecutionInv, SubmitLeaf, ExecutorsTyped, AtLeaf
<1>2. /\ UNCHANGED <<rows, covered, excluded, cycles, sent, plans, leaf, passes, crashes>>
      /\ paid' = paid \cup {<<Current(e), leaf[e]>>}
      /\ pc' = [pc EXCEPT ![e] = "book"]
  BY DEF SubmitLeaf, ledger, bounds, Goto
<1>3. \A x \in Executors : Current(x)' = Current(x)
  BY <1>2, SameCurrent
<1>4. ExecutorsTyped'
  BY <1>1, <1>2, <1>3, OneMoves DEF ExecutorsTyped, AtLeaf, Steps
<1>5. BookedIsPaid'
  BY <1>1, <1>2, <1>3 DEF BookedIsPaid, ExecutorsTyped
<1>6. paid' \subseteq Payments
  BY <1>1, <1>2 DEF LedgerTyped, Payments
<1> QED
  BY <1>1, <1>2, <1>4, <1>5, <1>6, RowsKept, Together DEF LedgerTyped

LEMMA SubmitThrowsInv == ASSUME ExecutionInv, NEW e \in Executors, SubmitThrows(e) PROVE ExecutionInv'
<1>1. /\ TypeOK /\ LedgerTyped /\ ExecutorsTyped
      /\ Current(e) \in Schedules /\ leaf[e] \in LeavesOf(Current(e))
  BY TypeParts, Running DEF ExecutionInv, SubmitThrows, ExecutorsTyped, AtLeaf
<1>2. UNCHANGED <<rows, covered, excluded, cycles, paid, passes, crashes>> /\ sent' \subseteq Payments
  BY <1>1 DEF SubmitThrows, ledger, bounds, LedgerTyped, Payments
<1>3. ExecutorsTyped' /\ BookedIsPaid'
  BY <1>2, GotoTyped DEF SubmitThrows, Steps, AtLeaf
<1> QED
  BY <1>1, <1>2, <1>3, RowsKept, Together DEF LedgerTyped

LEMMA BookInv == ASSUME ExecutionInv, NEW e \in Executors, Book(e) \/ Refuse(e) PROVE ExecutionInv'
<1>1. /\ TypeOK /\ LedgerTyped /\ ExecutorsTyped /\ BookedIsPaid /\ pc[e] \in AtLeaf
      /\ Current(e) \in Schedules /\ leaf[e] \in LeavesOf(Current(e))
  BY TypeParts, Running DEF ExecutionInv, Book, Refuse, ExecutorsTyped, AtLeaf
<1>2. UNCHANGED <<covered, excluded, cycles, paid, sent, passes, crashes>>
  BY DEF Book, Refuse, chain, bounds
<1>3. ExecutorsTyped' /\ BookedIsPaid'
  BY <1>1, <1>2, NextLeafTyped DEF Book, Refuse
<1>4. RowsTyped' /\ PaidMeansOnChain'
  <2>1. CASE Book(e)
    BY <1>1, <1>2, <2>1, PaymentWritten DEF Book, BookedIsPaid
  <2>2. CASE Refuse(e)
    BY <1>1, <1>2, <2>2, PaymentWritten DEF Refuse
  <2> QED
    BY <2>1, <2>2
<1> QED
  BY <1>1, <1>2, <1>3, <1>4, Together DEF LedgerTyped

LEMMA CloseInv == ASSUME ExecutionInv, NEW e \in Executors, Close(e) PROVE ExecutionInv'
<1>1. TypeOK /\ LedgerTyped /\ Current(e) \in Schedules
  BY TypeParts, Running DEF ExecutionInv, Close
<1>2. UNCHANGED <<covered, excluded, cycles, paid, sent, passes, crashes>>
  BY DEF Close, chain, bounds
<1>3. ExecutorsTyped' /\ BookedIsPaid'
  BY <1>2, NextPlanTyped DEF Close
<1>4. RowsTyped' /\ PaidMeansOnChain'
  BY <1>1, <1>2, StatusWritten, RowsKept DEF Close, Statuses
<1> QED
  BY <1>1, <1>2, <1>3, <1>4, Together DEF LedgerTyped

LEMMA Invariance == Spec => []ExecutionInv
<1>1. Init => ExecutionInv
  BY ExecutionAssumption DEF Init, ExecutionInv, TypeOK, PaidMeansOnChain, BookedIsPaid, Row,
     Statuses, Steps
<1>2. ExecutionInv /\ [Next]_vars => ExecutionInv'
  <2> SUFFICES ASSUME ExecutionInv, [Next]_vars PROVE ExecutionInv'
    OBVIOUS
  <2>1. ASSUME NEW e \in Executors, Begin(e) \/ Advance(e) PROVE ExecutionInv'
    BY <2>1, BeginInv, ScreenInv, HoldInv, EnsureCycleInv, CycleThrowsInv, MarkInv, LookInv, SubmitLeafInv,
       SubmitThrowsInv, BookInv, CloseInv DEF Advance
  <2>2. CASE UNCHANGED vars
    <3>1. TypeOK /\ ExecutorsTyped /\ LedgerTyped /\ BookedIsPaid
      BY TypeParts DEF ExecutionInv
    <3>2. pc' = pc /\ plans' = plans /\ leaf' = leaf /\ paid' = paid
      BY <2>2 DEF vars, chain
    <3>3. ExecutorsTyped'
      BY <3>1, <3>2, SameCurrent DEF ExecutorsTyped, LeavesOf
    <3>4. BookedIsPaid'
      BY <3>1, <3>2, SameCurrent DEF BookedIsPaid
    <3> QED
      BY <2>2, <3>1, <3>3, <3>4, RowsKept, Together DEF vars, ledger, chain, bounds, LedgerTyped
  <2> QED
    BY <2>1, <2>2, AroundInv, CrashInv DEF Next
<1> QED
  BY <1>1, <1>2, PTL DEF Spec

(* Every reachable state of the ledger and its executors is well typed,    *)
(* and an executor never stands at a leaf its row does not have.           *)
THEOREM TypeCorrect == Spec => []TypeOK
<1>1. ExecutionInv => TypeOK
  BY DEF ExecutionInv
<1> QED
  BY <1>1, Invariance, PTL

(* Whatever executors overlap, crash or lose answers, the ledger calls     *)
(* nothing paid that is not paid on the chain.                             *)
THEOREM PaidIsOnChain == Spec => []PaidMeansOnChain
<1>1. ExecutionInv => PaidMeansOnChain
  BY DEF ExecutionInv
<1> QED
  BY <1>1, Invariance, PTL

-----------------------------------------------------------------------------
(* Rows that are held back.  That a blocked row pays nothing more follows  *)
(* from who can be at it: nobody has it left to execute.  The worker drops *)
(* it in the step that blocks it; a request never has a holder row.  Only  *)
(* a holder row is about to be blocked.                                    *)

HeldInv ==
    /\ \A e \in Requests : plans[e] \subseteq Claims
    /\ \A s \in Schedules : rows[s].status = "blocked" =>
          s \in Holders /\ \A e \in Executors : s \notin plans[e]
    /\ \A e \in Executors : pc[e] = "hold" => Current(e) \in Holders

(* A step that takes up no row, changes the status of none and is about to *)
(* block none.                                                             *)
LEMMA HeldKept ==
    ASSUME HeldInv, \A e \in Executors : plans'[e] \subseteq plans[e],
           \A e \in Executors : pc'[e] = "hold" => pc[e] = "hold" /\ plans'[e] = plans[e],
           \A s \in Schedules : rows'[s].status = "blocked" => rows[s].status = "blocked"
    PROVE  HeldInv'
BY SameCurrent DEF HeldInv, Executors

(* Writing a row leaves the status of every other row, and its own too     *)
(* when it is a payment that is written.                                   *)
LEMMA StatusesAfter ==
    ASSUME TypeOK, NEW s \in Schedules, NEW t \in Schedules
    PROVE  /\ \A status : rows' = [rows EXCEPT ![s].status = status] =>
                 rows'[t].status = IF t = s THEN status ELSE rows[t].status
           /\ \A i, status : rows' = [rows EXCEPT ![s].payments[i] = status] =>
                 rows'[t].status = rows[t].status
BY DEF TypeOK, Row

(* The loop over the plans drops the row it was at.                        *)
LEMMA PlansAfterNext ==
    ASSUME TypeOK, NEW e \in Executors, NextPlan(e), NEW x \in Executors
    PROVE  plans'[x] = IF x = e THEN plans[e] \ {Current(e)} ELSE plans[x]
BY DEF TypeOK, NextPlan

(* Where everybody stands after e has moved.                               *)
LEMMA PcAfterGoto ==
    ASSUME TypeOK, NEW e \in Executors, NEW step, Goto(e, step), NEW x \in Executors
    PROVE  pc'[x] = IF x = e THEN step ELSE pc[x]
BY DEF TypeOK, Goto

LEMMA PcAfterNext ==
    ASSUME TypeOK, NEW e \in Executors, NextPlan(e), NEW x \in Executors
    PROVE  \/ x # e /\ pc'[x] = pc[x]
           \/ pc'[x] \in {"idle", "screen"}
BY DEF TypeOK, NextPlan, Goto

LEMMA ScreenHeld ==
    ASSUME TypeOK, HeldInv, NEW e \in Executors, Screen(e)
    PROVE  HeldInv'
<1>1. rows' = rows /\ plans' = plans
  BY DEF Screen, ledger
<1>2. ASSUME NEW x \in Executors, pc'[x] = "hold" PROVE Current(x)' \in Holders
  <2>1. Current(x)' = Current(x)
    BY <1>1, SameCurrent
  <2>2. CASE x = e
    <3>1. Current(e) \in excluded
      BY <1>2, <2>2, PcAfterGoto DEF Screen
    <3> QED
      BY <2>1, <2>2, <3>1 DEF TypeOK
  <2>3. CASE x # e
    BY <1>2, <2>1, <2>3, PcAfterGoto DEF Screen, HeldInv
  <2> QED
    BY <2>2, <2>3
<1> QED
  BY <1>1, <1>2 DEF HeldInv, Executors

(* Only the worker can stand at a holder row.                              *)
LEMMA HoldHeld ==
    ASSUME TypeOK, HeldInv, NEW e \in Executors, Hold(e)
    PROVE  HeldInv'
<1>1. Current(e) \in plans[e] /\ Current(e) \in Schedules
  BY Running DEF Hold
<1>2. NextPlan(e) /\ rows' = [rows EXCEPT ![Current(e)].status = "blocked"]
  BY DEF Hold
<1>3. \A x \in Executors : plans'[x] = IF x = e THEN plans[e] \ {Current(e)} ELSE plans[x]
  BY <1>2, PlansAfterNext
<1>4. ASSUME NEW s \in Schedules
      PROVE  rows'[s].status = IF s = Current(e) THEN "blocked" ELSE rows[s].status
  <2> DEFINE c == Current(e)
  <2>1. c \in Schedules /\ rows' = [rows EXCEPT ![c].status = "blocked"]
    BY <1>1, <1>2
  <2> HIDE DEF c
  <2>2. \A status : rows' = [rows EXCEPT ![c].status = status] =>
           rows'[s].status = IF s = c THEN status ELSE rows[s].status
    BY <2>1, StatusesAfter
  <2>3. rows'[s].status = IF s = c THEN "blocked" ELSE rows[s].status
    BY <2>1, <2>2
  <2> QED
    BY <2>3 DEF c
<1>5. Current(e) \in Holders /\ e = Worker
  BY <1>1, ExecutionAssumption DEF Hold, HeldInv, Executors
<1>6. \A x \in Executors : Current(e) \notin plans'[x]
  BY <1>3, <1>5, ExecutionAssumption DEF HeldInv, Executors
<1>7. ASSUME NEW x \in Executors, pc'[x] = "hold" PROVE Current(x)' \in Holders
  <2>1. x # e /\ pc[x] = "hold"
    BY <1>2, <1>7, PcAfterNext
  <2>2. Current(x)' = Current(x)
    BY <1>3, <2>1, SameCurrent
  <2> QED
    BY <2>1, <2>2 DEF HeldInv
<1> QED
  BY <1>3, <1>4, <1>5, <1>6, <1>7 DEF HeldInv, Executors

LEMMA BeginHeld ==
    ASSUME TypeOK, HeldInv, NEW e \in Executors, Begin(e)
    PROVE  HeldInv'
<1>1. rows' = rows
  BY DEF Begin, ledger
<1>2. PICK S : /\ S \subseteq Selected(e)
               /\ plans' = [plans EXCEPT ![e] = S]
  <2>1. CASE e = Worker
    BY <2>1 DEF Begin
  <2>2. CASE e # Worker
    <3>1. PICK s \in Selected(e) : plans' = [plans EXCEPT ![e] = {s}]
      BY <2>2 DEF Begin
    <3> QED
      BY <3>1
  <2> QED
    BY <2>1, <2>2
<1>3. \A x \in Executors : plans'[x] = IF x = e THEN S ELSE plans[x]
  BY <1>2 DEF TypeOK
<1>4. \A s \in S : rows[s].status # "blocked"
  BY <1>2 DEF Selected
<1>5. e # Worker => S \subseteq Claims
  BY <1>2 DEF Selected
<1>6. ASSUME NEW x \in Executors, pc'[x] = "hold" PROVE Current(x)' \in Holders
  <2>1. x # e /\ pc[x] = "hold"
    BY <1>6, PcAfterGoto DEF Begin
  <2>2. Current(x)' = Current(x)
    BY <1>3, <2>1, SameCurrent
  <2> QED
    BY <2>1, <2>2 DEF HeldInv
<1> QED
  BY <1>1, <1>3, <1>4, <1>5, <1>6, ExecutionAssumption DEF HeldInv, Executors

(* The steps that write no status "blocked" and take up no row.            *)
LEMMA PassHeld ==
    ASSUME TypeOK, HeldInv, NEW e \in Executors, Advance(e), ~Screen(e), ~Hold(e)
    PROVE  HeldInv'
<1>0. ASSUME NEW x \in Executors, pc'[x] = "hold" PROVE pc[x] = "hold" /\ plans'[x] = plans[x]
  <2>1. \E step \in Steps \ {"hold"} : Goto(e, step)
    BY DEF Advance, EnsureCycle, CycleThrows, Mark, Look, SubmitLeaf, SubmitThrows,
       Book, Refuse, Close, NextLeaf, NextPlan, Steps
  <2>2. x # e /\ pc[x] = "hold"
    BY <1>0, <2>1, PcAfterGoto
  <2>3. plans' = plans \/ \E S : plans' = [plans EXCEPT ![e] = S]
    BY DEF Advance, EnsureCycle, CycleThrows, Mark, Look, SubmitLeaf, SubmitThrows,
       Book, Refuse, Close, NextLeaf, NextPlan
  <2> QED
    BY <2>2, <2>3 DEF TypeOK
<1>1. CASE EnsureCycle(e) \/ Look(e) \/ SubmitLeaf(e) \/ SubmitThrows(e)
  BY <1>0, <1>1, HeldKept DEF EnsureCycle, Look, NextLeaf, SubmitLeaf, SubmitThrows, ledger
<1>2. CASE CycleThrows(e)
  BY <1>0, <1>2, HeldKept DEF CycleThrows, ledger, TypeOK
<1>3. CASE Mark(e)
  <2>1. Current(e) \in Schedules
    BY <1>3, Running DEF Mark
  <2> QED
    BY <1>0, <1>3, <2>1, StatusesAfter, HeldKept DEF Mark
<1>4. CASE Book(e) \/ Refuse(e)
  <2>1. Current(e) \in Schedules
    BY <1>4, Running DEF Book, Refuse
  <2> QED
    BY <1>0, <1>4, <2>1, StatusesAfter, HeldKept DEF Book, Refuse, NextLeaf
<1>5. CASE Close(e)
  <2>1. Current(e) \in Schedules
    BY <1>5, Running DEF Close
  <2>2. \A x \in Executors : plans'[x] \subseteq plans[x]
    BY <1>5, PlansAfterNext DEF Close
  <2>3. rows' = [rows EXCEPT ![Current(e)].status = "paid"] \/ rows' = rows
    BY <1>5 DEF Close
  <2> QED
    BY <1>0, <2>1, <2>2, <2>3, StatusesAfter, HeldKept
<1> QED
  BY <1>1, <1>2, <1>3, <1>4, <1>5 DEF Advance

LEMMA StepHeld ==
    ASSUME TypeOK, HeldInv, [Next]_vars
    PROVE  HeldInv'
<1>1. ASSUME NEW s \in Schedules, Record(s) PROVE HeldInv'
  BY <1>1, StatusesAfter, HeldKept DEF Record
<1>2. CASE \/ \E s \in Schedules : Cover(s)
           \/ \E s \in Holders : Exclude(s)
           \/ \E p \in sent : Land(p)
           \/ UNCHANGED vars
  BY <1>2, HeldKept DEF Cover, Exclude, Land, vars, ledger
<1>3. CASE Crash
  BY <1>3, HeldKept DEF Crash, ledger
<1>4. ASSUME NEW e \in Executors, Begin(e) \/ Advance(e) PROVE HeldInv'
  BY <1>4, BeginHeld, ScreenHeld, HoldHeld, PassHeld
<1> QED
  BY <1>1, <1>2, <1>3, <1>4 DEF Next

(* Who pays or writes a row has it left to execute, so it is not blocked.  *)
LEMMA BlockedUntouched ==
    ASSUME TypeOK, HeldInv, [Next]_vars, NEW s \in Schedules, rows[s].status = "blocked"
    PROVE  /\ rows'[s].status = "blocked"
           /\ \A i \in LeavesOf(s) : <<s, i>> \in paid' \ paid => <<s, i>> \in sent
<1>1. ASSUME NEW e \in Executors, Advance(e)
      PROVE  Current(e) \in Schedules /\ Current(e) # s
  <2>1. pc[e] # "idle"
    BY <1>1 DEF Advance, Screen, Hold, EnsureCycle, CycleThrows, Mark, Look, SubmitLeaf, SubmitThrows,
       Book, Refuse, Close
  <2> QED
    BY <2>1, Running DEF HeldInv
<1>2. ASSUME NEW e \in Executors, Advance(e) PROVE rows'[s].status = "blocked"
  <2>1. \/ rows' = rows
        \/ \E status : rows' = [rows EXCEPT ![Current(e)].status = status]
        \/ \E i, status : rows' = [rows EXCEPT ![Current(e)].payments[i] = status]
    BY <1>2 DEF Advance, Screen, Hold, EnsureCycle, CycleThrows, Mark, Look, SubmitLeaf, SubmitThrows,
       Book, Refuse, Close, ledger
  <2> DEFINE c == Current(e)
  <2>2. c \in Schedules /\ c # s
    BY <1>1, <1>2
  <2> HIDE DEF c
  <2>3. CASE rows' = rows
    BY <2>3
  <2>4. ASSUME NEW status, rows' = [rows EXCEPT ![c].status = status]
        PROVE  rows'[s].status = "blocked"
    BY <2>2, <2>4, StatusesAfter
  <2>5. ASSUME NEW i, NEW status, rows' = [rows EXCEPT ![c].payments[i] = status]
        PROVE  rows'[s].status = "blocked"
    BY <2>2, <2>5, StatusesAfter
  <2> QED
    BY <2>1, <2>3, <2>4, <2>5 DEF c
<1>3. ASSUME NEW e \in Executors, Advance(e), NEW i \in LeavesOf(s), <<s, i>> \in paid' \ paid
      PROVE  FALSE
  <2>1. paid' \in {paid, paid \cup {<<Current(e), leaf[e]>>}}
    BY <1>3 DEF Advance, Screen, Hold, EnsureCycle, CycleThrows, Mark, Look, SubmitLeaf, SubmitThrows,
       Book, Refuse, Close, chain
  <2> QED
    BY <1>1, <1>3, <2>1
<1>4. ASSUME NEW t \in Schedules, Record(t) \/ Cover(t)
      PROVE  rows'[s].status = "blocked" /\ paid' = paid
  BY <1>4, StatusesAfter DEF Record, Cover, chain
<1>5. CASE \/ \E t \in Holders : Exclude(t)
           \/ \E e \in Executors : Begin(e)
           \/ Crash
           \/ UNCHANGED vars
  BY <1>5 DEF Exclude, Begin, Crash, vars, ledger, chain
<1>6. ASSUME NEW p \in sent, Land(p)
      PROVE  rows' = rows /\ paid' = paid \cup {p}
  BY <1>6 DEF Land, ledger
<1> QED
  BY <1>2, <1>3, <1>4, <1>5, <1>6 DEF Next

(* An excluded recipient's row, once held back, stays held back and pays   *)
(* nothing that was not already sent, whichever executors are under way.   *)
THEOREM BlockedPaysNoMore == Spec => HeldBackStays
<1>1. Init => HeldInv
  BY DEF Init, HeldInv, Executors
<1>2. ExecutionInv => TypeOK
  BY DEF ExecutionInv
<1>3. TypeOK /\ HeldInv /\ [Next]_vars => HeldInv'
  BY StepHeld
<1>4. TypeOK /\ HeldInv /\ [Next]_vars =>
         [\A s \in Schedules : rows[s].status = "blocked" =>
             /\ rows'[s].status = "blocked"
             /\ \A i \in LeavesOf(s) : <<s, i>> \in paid' \ paid => <<s, i>> \in sent]_vars
  BY BlockedUntouched
<1> QED
  BY <1>1, <1>2, <1>3, <1>4, Invariance, PTL DEF Spec, HeldBackStays
=============================================================================
