----------------------- MODULE ExecutionJournal_proofs -----------------------
(***************************************************************************)
(* The execution journal for any number of workers, blocks and faults.     *)
(* The inductive invariant JournalInv says that a saved signature is the   *)
(* only one a worker ever knows, so that whatever was broadcast, proved or *)
(* refused is what the row holds.  The lease is not part of the argument:  *)
(* it spares work, the comparison in the saving update gives safety.       *)
(***************************************************************************)
EXTENDS ExecutionJournal, TLAPS

Reconciling == {"prove", "settle", "outcome", "fail", "valid", "send", "reprove", "resettle"}

(* What a worker knows agrees with the row. *)
WorkerOK(w) ==
    /\ pc[w] = "save" => tx[w] \in Signatures
    /\ pc[w] \in Reconciling => saw[w].sig # None /\ saw[w].sig = row.sig
    /\ pc[w] \in {"settle", "resettle"} => Proved(saw[w].sig)
    /\ pc[w] = "fail" => Refused(saw[w].sig)

RowOK == /\ row.status = "finalized" => Proved(row.sig)
         /\ row.status = "failed" => Refused(row.sig)

LandedWasSent == \A s \in Signatures : landed[s] # "no" => s \in sent

JournalInv == /\ TypeOK /\ OnlyJournaledIsSent /\ LandedWasSent /\ RowOK
              /\ \A w \in Workers : WorkerOK(w)

LEMMA NoneIsNoSignature == None \notin Signatures
BY DEF None, Signatures, Blocks

LEMMA JournalInit == Init => JournalInv
<1> SUFFICES ASSUME Init PROVE JournalInv
  OBVIOUS
<1>1. TypeOK
  BY JournalAssumption DEF Init, TypeOK, Row, NoRow, NoOwner, Steps, Blocks
<1> QED BY <1>1 DEF Init, JournalInv, OnlyJournaledIsSent, LandedWasSent, RowOK, WorkerOK,
    Reconciling, NoRow

(* The row after each of the four updates. *)
LEMMA ReturnKeepsTypes ==
    ASSUME TypeOK, NEW w \in Workers, Return(w)
    PROVE  /\ pc' \in [Workers -> Steps]
           /\ at' \in [Workers -> 0 .. MaxBlock]
           /\ saw' \in [Workers -> Row]
           /\ tx' \in [Workers -> Signatures \cup {None}]
           /\ pc'[w] = "idle"
<1>1. NoRow \in Row
  BY DEF NoRow, Row, NoOwner
<1> QED BY <1>1, JournalAssumption DEF TypeOK, Return, Goto, Steps

LEMMA ContinueKeepsTypes ==
    ASSUME TypeOK, NEW w \in Workers, NEW step \in Steps, Continue(w, step)
    PROVE  /\ pc' \in [Workers -> Steps]
           /\ at' \in [Workers -> 0 .. MaxBlock]
           /\ saw' \in [Workers -> Row]
           /\ tx' \in [Workers -> Signatures \cup {None}]
           /\ pc'[w] = step /\ saw'[w] = saw[w] /\ tx'[w] = tx[w]
BY DEF TypeOK, Continue, Goto

(* No step of a worker touches the others. *)
LEMMA OthersUntouched ==
    ASSUME TypeOK, NEW w \in Workers, Begin(w) \/ Advance(w) \/ Die(w), NEW v \in Workers, v # w
    PROVE  pc'[v] = pc[v] /\ saw'[v] = saw[v] /\ tx'[v] = tx[v]
BY DEF TypeOK, Begin, Advance, Die, Acquire, Prepare, Save, Send, Prove, Settle, ReadOutcome,
   MarkFailed, ReadBlockhash, Return, Continue, Goto

LEMMA ChainKeepsWorkers == Chain => UNCHANGED <<row, workerVars, sent, faults>>
BY DEF Chain, NewBlock, Land, Finalize

(* A saved signature is never replaced. *)
LEMMA SignatureStays ==
    ASSUME TypeOK, [Next]_vars, row.sig # None
    PROVE  row'.sig = row.sig
<1>1. ASSUME row' = row PROVE row'.sig = row.sig
  BY <1>1
<1>2. ASSUME NEW w \in Workers, Acquire(w) \/ Save(w) \/ Settle(w) \/ MarkFailed(w)
      PROVE  row'.sig = row.sig
  BY <1>2 DEF Acquire, Taken, Save, MaySave, Settle, MarkFailed, TypeOK, Row
<1>3. CASE Next
  BY <1>1, <1>2, <1>3, ChainKeepsWorkers DEF Next, Advance, Begin, Die, Prepare, Send, Prove,
     ReadOutcome, ReadBlockhash
<1> QED BY <1>1, <1>3 DEF vars

(* Outcomes are final. *)
LEMMA OutcomesStay ==
    ASSUME TypeOK, [Next]_vars
    PROVE  \A s : s \in final /\ landed[s] # "no" => s \in final' /\ landed'[s] = landed[s]
<1>1. CASE Chain
  BY <1>1 DEF Chain, NewBlock, Land, Finalize, TypeOK
<1>2. ASSUME UNCHANGED <<landed, final>>
      PROVE  \A s : s \in final /\ landed[s] # "no" => s \in final' /\ landed'[s] = landed[s]
  BY <1>2
<1>3. CASE \E w \in Workers : Begin(w) \/ Advance(w) \/ Die(w)
  BY <1>2, <1>3 DEF Begin, Advance, Die, Acquire, Prepare, Save, Send, Prove, Settle, ReadOutcome,
     MarkFailed, ReadBlockhash, chainVars
<1>4. CASE UNCHANGED vars
  BY <1>2, <1>4 DEF vars, chainVars
<1> QED BY <1>1, <1>3, <1>4 DEF Next

LEMMA TypeAdvance ==
    ASSUME JournalInv, NEW w \in Workers, Advance(w)
    PROVE  TypeOK'
<1>0. TypeOK /\ WorkerOK(w)
  BY DEF JournalInv
<1> DEFINE LocalsOK == /\ pc' \in [Workers -> Steps] /\ at' \in [Workers -> 0 .. MaxBlock]
                       /\ saw' \in [Workers -> Row]
                       /\ tx' \in [Workers -> Signatures \cup {None}]
<1> HIDE DEF LocalsOK
<1>r. ASSUME Return(w) PROVE LocalsOK
  BY <1>0, <1>r, ReturnKeepsTypes DEF LocalsOK
<1>c. ASSUME NEW step \in Steps, Continue(w, step) PROVE LocalsOK
  BY <1>0, <1>c, ContinueKeepsTypes DEF LocalsOK
<1>q. ASSUME LocalsOK, UNCHANGED <<row, chainVars>>, faults' \in 0 .. MaxFaults PROVE TypeOK'
  BY <1>0, <1>q DEF LocalsOK, TypeOK, chainVars
<1>f. ASSUME Fault PROVE faults' \in 0 .. MaxFaults
  BY <1>0, <1>f, JournalAssumption DEF Fault, TypeOK
<1>s. ASSUME UNCHANGED faults PROVE faults' \in 0 .. MaxFaults
  BY <1>0, <1>s DEF TypeOK
<1>1. CASE Acquire(w)
  <2>1. CASE UNCHANGED row
    <3>1. LocalsOK
      BY <1>0, <1>1, <1>r, <2>1 DEF Acquire, TypeOK, Goto, Steps, Continue, LocalsOK
    <3> QED BY <1>1, <1>q, <1>s, <2>1, <3>1 DEF Acquire
  <2>2. CASE /\ ~Taken(w)
             /\ row' = [row EXCEPT !.status = "preparing", !.owner = w,
                                   !.leaseUntil = at[w] + LeaseBlocks]
             /\ Continue(w, "prepare")
    <3>n. at[w] + LeaseBlocks \in Nat /\ row.sig = None
      BY <1>0, <2>2, JournalAssumption DEF TypeOK, Taken
    <3>1. row' \in Row /\ row'.sig = None /\ row'.status = "preparing"
      BY <1>0, <2>2, <3>n DEF TypeOK, Row
    <3>2. LocalsOK
      BY <1>c, <2>2 DEF Steps
    <3> QED BY <1>0, <1>1, <3>1, <3>2 DEF Acquire, TypeOK, LocalsOK, chainVars
  <2> QED BY <1>1, <2>1, <2>2 DEF Acquire
<1>2. CASE Prepare(w)
  <2>b. PICK b \in 1 .. block : tx' = [tx EXCEPT ![w] = <<b, w>>]
    BY <1>2 DEF Prepare
  <2>s. b \in Blocks
    BY <1>0, <2>b, JournalAssumption DEF TypeOK, Blocks
  <2>1. tx' \in [Workers -> Signatures \cup {None}]
    BY <1>0, <2>b, <2>s DEF TypeOK, Signatures
  <2>2. LocalsOK
    BY <1>0, <1>2, <2>1 DEF Prepare, TypeOK, Goto, Steps, LocalsOK
  <2> QED BY <1>2, <1>q, <1>s, <2>2 DEF Prepare
<1>3. CASE Save(w)
  <2>1. CASE UNCHANGED row
    BY <1>3, <1>q, <1>r, <1>s, <1>0, <2>1 DEF Save, TypeOK, Goto, Steps, LocalsOK
  <2>2. CASE /\ MaySave(w)
             /\ row' = [row EXCEPT !.status = "pending", !.sig = tx[w], !.bytes = TRUE]
             /\ saw' = [saw EXCEPT ![w] = row']
             /\ Goto(w, "send")
             /\ UNCHANGED <<at, tx>>
    <3>1. tx[w] \in Signatures
      BY <1>0, <1>3 DEF Save, WorkerOK
    <3>2. row' \in Row /\ row'.sig # None /\ row'.status = "pending"
      BY <1>0, <2>2, <3>1, NoneIsNoSignature DEF TypeOK, Row
    <3>3. LocalsOK
      BY <1>0, <2>2, <3>2 DEF TypeOK, Goto, Steps, LocalsOK
    <3> QED BY <1>0, <1>3, <3>2, <3>3 DEF Save, TypeOK, LocalsOK, chainVars
  <2> QED BY <1>3, <2>1, <2>2 DEF Save
<1>4. CASE Send(w)
  <2>1. saw[w].sig \in Signatures
    BY <1>0, <1>4 DEF Send, WorkerOK, Reconciling, TypeOK, Row
  <2>2. sent' \in SUBSET Signatures /\ faults' \in 0 .. MaxFaults
    BY <1>0, <1>4, <1>f, <2>1 DEF Send, TypeOK
  <2>3. LocalsOK
    BY <1>4, <1>c DEF Send, Steps
  <2> QED BY <1>0, <1>4, <2>2, <2>3 DEF Send, TypeOK, LocalsOK
<1>5. CASE Prove(w)
  <2>1. LocalsOK
    BY <1>5, <1>r, <1>c DEF Prove, Steps
  <2> QED BY <1>5, <1>q, <1>f, <1>s, <2>1 DEF Prove
<1>6. CASE Settle(w)
  <2>1. LocalsOK
    BY <1>6, <1>r, <1>c DEF Settle, Steps
  <2>2. row' \in Row /\ (row'.sig = None <=> row'.status \in {"none", "preparing"})
    <3>1. saw[w].sig # None
      BY <1>0, <1>6 DEF Settle, WorkerOK, Reconciling
    <3> QED BY <1>0, <1>6, <3>1 DEF Settle, TypeOK, Row
  <2> QED BY <1>0, <1>6, <2>1, <2>2 DEF Settle, TypeOK, LocalsOK, chainVars
<1>7. CASE ReadOutcome(w)
  <2>1. LocalsOK
    BY <1>7, <1>r, <1>c DEF ReadOutcome, Steps
  <2> QED BY <1>7, <1>q, <1>s, <2>1 DEF ReadOutcome
<1>8. CASE MarkFailed(w)
  <2>1. LocalsOK
    BY <1>8, <1>r DEF MarkFailed
  <2>2. row' \in Row /\ (row'.sig = None <=> row'.status \in {"none", "preparing"})
    <3>1. saw[w].sig # None
      BY <1>0, <1>8 DEF MarkFailed, WorkerOK, Reconciling
    <3> QED BY <1>0, <1>8, <3>1 DEF MarkFailed, TypeOK, Row
  <2> QED BY <1>0, <1>8, <2>1, <2>2 DEF MarkFailed, TypeOK, LocalsOK, chainVars
<1>9. CASE ReadBlockhash(w)
  <2>1. LocalsOK
    BY <1>9, <1>r, <1>c DEF ReadBlockhash, Steps
  <2> QED BY <1>9, <1>q, <1>s, <2>1 DEF ReadBlockhash
<1> QED BY <1>1, <1>2, <1>3, <1>4, <1>5, <1>6, <1>7, <1>8, <1>9 DEF Advance

LEMMA TypeStep == JournalInv /\ [Next]_vars => TypeOK'
<1> SUFFICES ASSUME JournalInv, [Next]_vars PROVE TypeOK'
  OBVIOUS
<1>0. TypeOK
  BY DEF JournalInv
<1>1. CASE Chain
  <2>1. block' \in Blocks
    BY <1>0, <1>1, JournalAssumption DEF Chain, NewBlock, Land, Finalize, TypeOK, Blocks
  <2>2. landed' \in [Signatures -> {"no", "ok", "err"}] /\ final' \in SUBSET Signatures
    BY <1>0, <1>1 DEF Chain, NewBlock, Land, Finalize, TypeOK
  <2> QED BY <1>0, <1>1, <2>1, <2>2, ChainKeepsWorkers DEF TypeOK, workerVars
<1>2. ASSUME NEW w \in Workers, Begin(w) PROVE TypeOK'
  BY <1>0, <1>2, JournalAssumption DEF Begin, Goto, TypeOK, Steps, Blocks, chainVars
<1>3. ASSUME NEW w \in Workers, Die(w) PROVE TypeOK'
  BY <1>0, <1>3, ReturnKeepsTypes, JournalAssumption DEF Die, Fault, TypeOK, chainVars
<1>4. CASE UNCHANGED vars
  BY <1>0, <1>4 DEF vars, workerVars, chainVars, TypeOK
<1> QED BY <1>1, <1>2, <1>3, <1>4, TypeAdvance DEF Next

----------------------------------------------------------------------------
(* The invariant *)

(* A worker that does not move keeps what it knows. *)
LEMMA IdleWorkerOK ==
    ASSUME JournalInv, [Next]_vars, NEW v \in Workers,
           pc'[v] = pc[v], saw'[v] = saw[v], tx'[v] = tx[v]
    PROVE  WorkerOK(v)'
<1>0. TypeOK /\ WorkerOK(v)
  BY DEF JournalInv
<1>1. pc[v] \in Reconciling => saw[v].sig # None /\ saw[v].sig = row'.sig
  BY <1>0, SignatureStays DEF WorkerOK
<1> QED BY <1>0, <1>1, OutcomesStay DEF WorkerOK, Proved, Refused

LEMMA MovedWorkerOK ==
    ASSUME JournalInv, NEW w \in Workers, Begin(w) \/ Advance(w) \/ Die(w)
    PROVE  WorkerOK(w)'
<1>0. TypeOK /\ WorkerOK(w) /\ [Next]_vars
  BY DEF JournalInv, Next
<1>1. ASSUME Return(w) PROVE WorkerOK(w)'
  BY <1>0, <1>1, ReturnKeepsTypes DEF WorkerOK, Reconciling
<1>2. ASSUME NEW step \in Steps, Continue(w, step), pc[w] \in Reconciling, step # "save",
             step \in {"settle", "resettle"} => Proved(saw[w].sig),
             step = "fail" => Refused(saw[w].sig)
      PROVE  WorkerOK(w)'
  <2>1. pc'[w] = step /\ saw'[w] = saw[w]
    BY <1>0, <1>2, ContinueKeepsTypes
  <2>2. saw[w].sig # None /\ saw[w].sig = row'.sig
    BY <1>0, <1>2, SignatureStays DEF WorkerOK
  <2> QED BY <1>0, <1>2, <2>1, <2>2, OutcomesStay DEF WorkerOK, Proved, Refused
<1>3. CASE Begin(w)
  <2>1. pc'[w] = "acquire"
    BY <1>0, <1>3 DEF Begin, Goto, TypeOK
  <2> QED BY <2>1 DEF WorkerOK, Reconciling
<1>4. CASE Acquire(w)
  <2>1. CASE Reconciles(w) /\ Goto(w, "prove") /\ saw' = [saw EXCEPT ![w] = row] /\ row' = row
    <3>1. pc'[w] = "prove" /\ saw'[w] = row
      BY <1>0, <2>1 DEF Goto, TypeOK
    <3> QED BY <2>1, <3>1 DEF Reconciles, WorkerOK
  <2>2. CASE Continue(w, "prepare")
    <3>1. pc'[w] = "prepare"
      BY <1>0, <2>2, ContinueKeepsTypes DEF Steps
    <3> QED BY <3>1 DEF WorkerOK, Reconciling
  <2> QED BY <1>1, <1>4, <2>1, <2>2 DEF Acquire
<1>5. CASE Prepare(w)
  <2>b. PICK b \in 1 .. block : tx' = [tx EXCEPT ![w] = <<b, w>>]
    BY <1>5 DEF Prepare
  <2>1. <<b, w>> \in Signatures
    BY <1>0, JournalAssumption DEF TypeOK, Blocks, Signatures
  <2>2. tx'[w] \in Signatures /\ pc'[w] = "save"
    BY <1>0, <1>5, <2>b, <2>1 DEF Prepare, Goto, TypeOK
  <2> QED BY <2>2 DEF WorkerOK, Reconciling
<1>6. CASE Save(w)
  <2>1. CASE /\ row' = [row EXCEPT !.status = "pending", !.sig = tx[w], !.bytes = TRUE]
             /\ saw' = [saw EXCEPT ![w] = row'] /\ Goto(w, "send")
    <3>1. tx[w] # None
      BY <1>0, <1>6, NoneIsNoSignature DEF Save, WorkerOK
    <3>2. pc'[w] = "send" /\ saw'[w] = row' /\ row'.sig = tx[w]
      BY <1>0, <2>1 DEF Goto, TypeOK, Row
    <3> QED BY <3>1, <3>2 DEF WorkerOK
  <2> QED BY <1>1, <1>6, <2>1 DEF Save
<1>7. CASE Send(w)
  BY <1>2, <1>7 DEF Send, Reconciling, Steps
<1>8. CASE Prove(w)
  <2>1. ASSUME pc[w] = "prove" PROVE WorkerOK(w)'
    BY <1>2, <1>8, <2>1 DEF Prove, Reconciling, Steps
  <2>2. ASSUME pc[w] = "reprove" PROVE WorkerOK(w)'
    BY <1>1, <1>2, <1>8, <2>2 DEF Prove, Reconciling, Steps
  <2> QED BY <1>8, <2>1, <2>2 DEF Prove
<1>9. CASE Settle(w)
  BY <1>1, <1>2, <1>9 DEF Settle, Reconciling, Steps
<1>10. CASE ReadOutcome(w)
  BY <1>1, <1>2, <1>10 DEF ReadOutcome, Reconciling, Steps
<1>11. CASE MarkFailed(w) \/ Die(w)
  BY <1>1, <1>11 DEF MarkFailed, Die
<1>12. CASE ReadBlockhash(w)
  BY <1>1, <1>2, <1>12 DEF ReadBlockhash, Reconciling, Steps
<1> QED BY <1>3, <1>4, <1>5, <1>6, <1>7, <1>8, <1>9, <1>10, <1>11, <1>12 DEF Advance

LEMMA RowStep == JournalInv /\ [Next]_vars => RowOK'
<1> SUFFICES ASSUME JournalInv, [Next]_vars PROVE RowOK'
  OBVIOUS
<1>0. TypeOK /\ RowOK
  BY DEF JournalInv
<1>1. ASSUME row' = row PROVE RowOK'
  BY <1>0, <1>1, OutcomesStay DEF RowOK, Proved, Refused
<1>2. ASSUME NEW w \in Workers, Acquire(w) \/ Save(w), row' # row PROVE RowOK'
  <2>1. row'.status \in {"preparing", "pending"}
    BY <1>0, <1>2 DEF Acquire, Save, TypeOK, Row
  <2> QED BY <2>1 DEF RowOK
<1>3. ASSUME NEW w \in Workers, Settle(w), row' # row PROVE RowOK'
  <2>1. Proved(row.sig) /\ row'.status = "finalized" /\ row'.sig = row.sig
    BY <1>0, <1>3 DEF JournalInv, WorkerOK, Settle, TypeOK, Row
  <2> QED BY <1>0, <2>1, OutcomesStay DEF RowOK, Proved
<1>4. ASSUME NEW w \in Workers, MarkFailed(w), row' # row PROVE RowOK'
  <2>1. Refused(row.sig) /\ row'.status = "failed" /\ row'.sig = row.sig
    BY <1>0, <1>4 DEF JournalInv, WorkerOK, MarkFailed, TypeOK, Row
  <2> QED BY <1>0, <2>1, OutcomesStay DEF RowOK, Refused
<1>5. CASE Next
  BY <1>1, <1>2, <1>3, <1>4, <1>5, ChainKeepsWorkers DEF Next, Advance, Begin, Die, Prepare, Send,
     Prove, ReadOutcome, ReadBlockhash
<1> QED BY <1>1, <1>5 DEF vars

LEMMA SentStep == JournalInv /\ [Next]_vars => OnlyJournaledIsSent' /\ LandedWasSent'
<1> SUFFICES ASSUME JournalInv, [Next]_vars PROVE OnlyJournaledIsSent' /\ LandedWasSent'
  OBVIOUS
<1>0. TypeOK /\ OnlyJournaledIsSent /\ LandedWasSent
  BY DEF JournalInv
<1>1. \A s \in sent : s = row'.sig
  <2>1. \A s \in sent : row.sig # None
    BY <1>0, NoneIsNoSignature DEF OnlyJournaledIsSent, TypeOK
  <2> QED BY <1>0, <2>1, SignatureStays DEF OnlyJournaledIsSent
<1>2. ASSUME UNCHANGED <<sent, landed>> PROVE OnlyJournaledIsSent' /\ LandedWasSent'
  BY <1>0, <1>1, <1>2 DEF OnlyJournaledIsSent, LandedWasSent
<1>3. ASSUME NEW w \in Workers, Send(w) PROVE OnlyJournaledIsSent' /\ LandedWasSent'
  <2>1. saw[w].sig = row.sig /\ row' = row
    BY <1>3 DEF JournalInv, WorkerOK, Reconciling, Send
  <2> QED BY <1>0, <1>3, <2>1 DEF Send, OnlyJournaledIsSent, LandedWasSent
<1>4. ASSUME NEW s \in Signatures, Land(s) PROVE OnlyJournaledIsSent' /\ LandedWasSent'
  BY <1>0, <1>4 DEF Land, OnlyJournaledIsSent, LandedWasSent, TypeOK
<1>5. CASE Next
  BY <1>2, <1>3, <1>4, <1>5 DEF Next, Chain, NewBlock, Finalize, Advance, Begin, Die, Acquire,
     Prepare, Save, Prove, Settle, ReadOutcome, MarkFailed, ReadBlockhash, chainVars
<1> QED BY <1>2, <1>5 DEF vars, chainVars

LEMMA JournalStep == JournalInv /\ [Next]_vars => JournalInv'
<1> SUFFICES ASSUME JournalInv, [Next]_vars PROVE JournalInv'
  OBVIOUS
<1>1. TypeOK' /\ RowOK' /\ OnlyJournaledIsSent' /\ LandedWasSent'
  BY TypeStep, RowStep, SentStep
<1>2. ASSUME NEW v \in Workers PROVE WorkerOK(v)'
  <2>1. CASE Chain \/ UNCHANGED vars
    BY <2>1, ChainKeepsWorkers, IdleWorkerOK DEF workerVars, vars
  <2>2. ASSUME NEW w \in Workers, Begin(w) \/ Advance(w) \/ Die(w) PROVE WorkerOK(v)'
    <3>1. CASE w = v
      BY <2>2, <3>1, MovedWorkerOK
    <3>2. CASE w # v
      BY <2>2, <3>2, OthersUntouched, IdleWorkerOK DEF JournalInv
    <3> QED BY <3>1, <3>2
  <2> QED BY <2>1, <2>2 DEF Next
<1> QED BY <1>1, <1>2 DEF JournalInv

LEMMA JournalAlways == Spec => []JournalInv
<1>1. Init => JournalInv
  BY JournalInit
<1>2. JournalInv /\ [Next]_vars => JournalInv'
  BY JournalStep
<1> QED BY <1>1, <1>2, PTL DEF Spec

----------------------------------------------------------------------------
(* Theorems *)

(* The row and every pass stay well formed: a signature exactly in the states
   that carry one.                                                           *)
THEOREM TypeCorrect == Spec => []TypeOK
<1>1. JournalInv => TypeOK
  BY DEF JournalInv
<1> QED BY <1>1, JournalAlways, PTL

(* Whatever was broadcast is what the row holds: no replacement exists. *)
THEOREM NoReplacement == Spec => []OnlyJournaledIsSent
<1>1. JournalInv => OnlyJournaledIsSent
  BY DEF JournalInv
<1> QED BY <1>1, JournalAlways, PTL

LEMMA PaidIsRow ==
    ASSUME JournalInv
    PROVE  \A s \in Signatures : landed[s] # "no" => s = row.sig
BY DEF JournalInv, LandedWasSent, OnlyJournaledIsSent

(* A key marked failed moved no money. *)
THEOREM FailedPaidNothing == Spec => []FailedMeansUnpaid
<1>1. JournalInv => FailedMeansUnpaid
  <2> SUFFICES ASSUME JournalInv, row.status = "failed"
               PROVE  row.sig \in final /\ \A s \in Signatures : landed[s] # "ok"
    BY DEF FailedMeansUnpaid
  <2>1. Refused(row.sig)
    BY DEF JournalInv, RowOK
  <2> QED BY <2>1, PaidIsRow DEF Refused
<1> QED BY <1>1, JournalAlways, PTL

paidBar == {s \in Signatures : landed[s] = "ok"}
recordedBar == IF row.status = "finalized" THEN {row.sig} ELSE {}

LEMMA StepImplements ==
    JournalInv /\ JournalInv' /\ [Next]_vars => [Lifecycle!Next]_(Lifecycle!lifecycleVars)
<1> SUFFICES ASSUME JournalInv, JournalInv', [Next]_vars
             PROVE  [Lifecycle!Next]_(Lifecycle!lifecycleVars)
  OBVIOUS
<1>0. TypeOK /\ RowOK
  BY DEF JournalInv
<1>1. row.status = "finalized" => paidBar = {row.sig}
  BY <1>0, PaidIsRow DEF RowOK, Proved, paidBar, TypeOK
<1>2. ASSUME landed' = landed, recordedBar' = recordedBar
      PROVE  [Lifecycle!Next]_(Lifecycle!lifecycleVars)
  BY <1>2 DEF Lifecycle!lifecycleVars, recordedBar
<1>3. ASSUME NEW s \in Signatures, Land(s) PROVE [Lifecycle!Next]_(Lifecycle!lifecycleVars)
  <2>1. row' = row /\ landed[s] = "no" /\ s = row.sig
    BY <1>3 DEF Land, JournalInv, OnlyJournaledIsSent
  <2>2. paidBar = {}
    BY <2>1, PaidIsRow DEF paidBar
  <2>3. CASE landed' = [landed EXCEPT ![s] = "ok"]
    <3>1. paidBar' = {s}
      BY <1>0, <2>2, <2>3 DEF paidBar, TypeOK
    <3>2. Lifecycle!Pay(s)
      BY <2>1, <2>2, <3>1 DEF Lifecycle!Pay, paidBar
    <3> QED BY <3>2 DEF Lifecycle!Next
  <2>4. CASE landed' = [landed EXCEPT ![s] = "err"]
    <3>1. paidBar' = paidBar
      BY <1>0, <2>1, <2>4 DEF paidBar, TypeOK
    <3> QED BY <2>1, <3>1 DEF Lifecycle!lifecycleVars, paidBar
  <2> QED BY <1>3, <2>3, <2>4 DEF Land
<1>4. ASSUME NEW w \in Workers, Settle(w), row' # row
      PROVE  [Lifecycle!Next]_(Lifecycle!lifecycleVars)
  <2>1. /\ Proved(row.sig) /\ row'.status = "finalized" /\ row'.sig = row.sig
        /\ landed' = landed
    BY <1>0, <1>4 DEF JournalInv, WorkerOK, Settle, TypeOK, Row, chainVars
  <2>2. recordedBar' = {row.sig} /\ paidBar = {row.sig}
    BY <1>0, <2>1, PaidIsRow DEF recordedBar, paidBar, Proved, TypeOK
  <2>3. CASE row.status = "finalized"
    BY <1>2, <2>1, <2>2, <2>3 DEF recordedBar
  <2>4. CASE row.status # "finalized"
    <3>1. Lifecycle!Record
      BY <2>1, <2>2, <2>4 DEF Lifecycle!Record, recordedBar, paidBar
    <3> QED BY <3>1 DEF Lifecycle!Next
  <2> QED BY <2>3, <2>4
<1>5. ASSUME NEW w \in Workers, Acquire(w) \/ Save(w), row' # row
      PROVE  [Lifecycle!Next]_(Lifecycle!lifecycleVars)
  <2>1. row.sig = None /\ row'.status \in {"preparing", "pending"} /\ landed' = landed
    BY <1>0, <1>5 DEF Acquire, Taken, Save, MaySave, TypeOK, Row, chainVars
  <2>2. row.status # "finalized"
    BY <1>0, <2>1 DEF TypeOK
  <2> QED BY <1>2, <2>1, <2>2 DEF recordedBar
<1>6. ASSUME NEW w \in Workers, MarkFailed(w), row' # row
      PROVE  [Lifecycle!Next]_(Lifecycle!lifecycleVars)
  <2>1. Refused(row.sig) /\ row'.status = "failed" /\ landed' = landed
    BY <1>0, <1>6 DEF JournalInv, WorkerOK, MarkFailed, TypeOK, Row, chainVars
  <2>2. row.status # "finalized"
    BY <1>0, <2>1 DEF RowOK, Proved, Refused
  <2> QED BY <1>2, <2>1, <2>2 DEF recordedBar
<1>7. ASSUME UNCHANGED <<row, landed>> PROVE [Lifecycle!Next]_(Lifecycle!lifecycleVars)
  BY <1>2, <1>7 DEF recordedBar
<1>8. CASE Next
  BY <1>3, <1>4, <1>5, <1>6, <1>7, <1>8 DEF Next, Chain, NewBlock, Finalize, Advance, Begin, Die,
     Acquire, Prepare, Save, Send, Prove, Settle, ReadOutcome, MarkFailed, ReadBlockhash, chainVars
<1> QED BY <1>7, <1>8 DEF vars, chainVars

(* The journal implements the payment life cycle with no help from the chain:
   one payment, then its record, and the record is never taken back.          *)
THEOREM ImplementsLifecycle == Spec => LifecycleSpec
<1>1. Init => Lifecycle!Init
  BY DEF Init, Lifecycle!Init, NoRow
<1>2. JournalInv /\ JournalInv' /\ [Next]_vars => [Lifecycle!Next]_(Lifecycle!lifecycleVars)
  BY StepImplements
<1> QED BY <1>1, <1>2, JournalAlways, PTL DEF Spec, LifecycleSpec, Lifecycle!Spec
=============================================================================
