----------------------- MODULE DisbursementRoute_proofs -----------------------
(***************************************************************************)
(* The disbursement route for any number of requests, blocks and faults.   *)
(* Two inductive invariants.  PaidInv follows proof of payment through the *)
(* handler: every place that calls a payment finalized holds a signature   *)
(* that was proved to have paid, and the chain pays one signature only.    *)
(* LiveInv follows the right to broadcast: a request that may replace the  *)
(* saved signature has seen it die, and a transaction that can still       *)
(* execute is the one the row names.                                       *)
(***************************************************************************)
EXTENDS DisbursementRoute, TLAPS

(* Past the signing step a request holds a transaction. *)
Signing == {"lock", "check", "send", "poll", "receipt", "record"}
Signed == \A r \in Requests : pc[r] \in Signing => tx[r] \in Signatures

LEMMA TypeInit == Init => TypeOK /\ Signed
BY RouteAssumption
   DEF Init, TypeOK, Signed, Signing, Row, NoRow, Pool, NoPool, None, Steps, Signatures

LEMMA FinalizedIsRow == TypeOK => \A s \in 0 .. MaxBlock : Finalized(s) \in Row /\ Pending(s) \in Row
BY RouteAssumption DEF TypeOK, Finalized, Pending, Row, Signatures

LEMMA ReturnKeepsTypes ==
    ASSUME TypeOK, Signed, NEW r \in Requests, Return(r)
    PROVE  /\ pc' \in [Requests -> Steps]
           /\ held' \in [Requests -> Row]
           /\ tx' \in [Requests -> 0 .. MaxBlock]
           /\ Signed'
BY RouteAssumption
   DEF TypeOK, Signed, Signing, Signatures, Return, Goto, NoRow, None, Row, Steps

LEMMA GotoKeepsTypes ==
    ASSUME TypeOK, Signed, NEW r \in Requests, NEW step \in Steps, Goto(r, step), tx' = tx,
           step \in Signing => pc[r] \in Signing
    PROVE  pc' \in [Requests -> Steps] /\ Signed'
BY DEF TypeOK, Signed, Signatures, Goto

LEMMA TypeContinue ==
    ASSUME TypeOK, Signed, NEW r \in Requests, Continue(r)
    PROVE  TypeOK' /\ Signed'
<1> USE RouteAssumption
<1>1. CASE LoadProof(r)
  <2>1. AfterProof(held[r].status) \in Steps \ Signing /\ "statuses" \in Steps \ Signing
    BY DEF AfterProof, Steps, Signing
  <2>2. \/ Return(r)
        \/ \E step \in Steps \ Signing : Goto(r, step) /\ UNCHANGED <<held, tx>>
    BY <1>1, <2>1 DEF LoadProof
  <2>3. /\ pc' \in [Requests -> Steps] /\ held' \in [Requests -> Row]
        /\ tx' \in [Requests -> 0 .. MaxBlock] /\ Signed'
    BY <2>2, ReturnKeepsTypes, GotoKeepsTypes DEF TypeOK
  <2>4. UNCHANGED <<row, pool, chainVars>>
    BY <1>1 DEF LoadProof
  <2>5. faults' \in 0 .. MaxFaults
    BY <1>1 DEF LoadProof, TypeOK
  <2> QED BY <2>3, <2>4, <2>5 DEF TypeOK, chainVars
<1>2. CASE Recover(r)
  <2>1. Finalized(held[r].sig) \in Row
    BY FinalizedIsRow DEF TypeOK, Row
  <2>2. \/ Return(r) /\ row' = row
        \/ /\ row' = Finalized(held[r].sig)
           /\ held' = [held EXCEPT ![r] = Finalized(held[r].sig)]
           /\ Goto(r, "enroll") /\ tx' = tx
    BY <1>2 DEF Recover
  <2>3. row' \in Row /\ held' \in [Requests -> Row]
    BY <2>1, <2>2, ReturnKeepsTypes DEF TypeOK
  <2>4. /\ pc' \in [Requests -> Steps] /\ tx' \in [Requests -> 0 .. MaxBlock] /\ Signed'
    BY <1>2, <2>2, ReturnKeepsTypes, GotoKeepsTypes DEF TypeOK, Steps, Signing
  <2> QED BY <1>2, <2>3, <2>4 DEF Recover, TypeOK, chainVars
<1>3. CASE ReadStatuses(r)
  BY <1>3, ReturnKeepsTypes, GotoKeepsTypes DEF ReadStatuses, TypeOK, Steps, Signing, chainVars
<1>4. CASE ReadBlockhash(r)
  BY <1>4, ReturnKeepsTypes, GotoKeepsTypes DEF ReadBlockhash, TypeOK, Steps, Signing, chainVars
<1>5. CASE Sign(r)
  BY <1>5 DEF Sign, TypeOK, Signed, Goto, Steps, chainVars, Signatures
<1>6. CASE Lock(r)
  BY <1>6, ReturnKeepsTypes, GotoKeepsTypes, FinalizedIsRow DEF Lock, TypeOK, Steps, Signing, chainVars
<1>7. CASE CheckBlockhash(r)
  BY <1>7, ReturnKeepsTypes, GotoKeepsTypes DEF CheckBlockhash, TypeOK, Steps, Signing, chainVars
<1>8. CASE Send(r)
  BY <1>8, ReturnKeepsTypes, GotoKeepsTypes DEF Send, TypeOK, Steps, Signing, Signed, Signatures
<1>9. CASE Poll(r)
  BY <1>9, ReturnKeepsTypes, GotoKeepsTypes DEF Poll, TypeOK, Steps, Signing, chainVars
<1>10. CASE LoadReceipt(r)
  BY <1>10, ReturnKeepsTypes, GotoKeepsTypes DEF LoadReceipt, TypeOK, Steps, Signing, chainVars
<1>11. CASE Record(r)
  <2>1. Finalized(tx[r]) \in Row
    BY FinalizedIsRow DEF TypeOK
  <2>2. \/ Return(r) /\ row' = row
        \/ /\ row' = Finalized(tx[r])
           /\ held' = [held EXCEPT ![r] = Finalized(tx[r])]
           /\ Goto(r, "enroll") /\ tx' = tx
    BY <1>11 DEF Record
  <2>3. row' \in Row /\ held' \in [Requests -> Row]
    BY <2>1, <2>2, ReturnKeepsTypes DEF TypeOK
  <2>4. /\ pc' \in [Requests -> Steps] /\ tx' \in [Requests -> 0 .. MaxBlock] /\ Signed'
    BY <1>11, <2>2, ReturnKeepsTypes, GotoKeepsTypes DEF TypeOK, Steps, Signing
  <2> QED BY <1>11, <2>3, <2>4 DEF Record, TypeOK, chainVars
<1>12. CASE Enroll(r)
  BY <1>12, ReturnKeepsTypes, GotoKeepsTypes DEF Enroll, TypeOK, Steps, Signing, chainVars, Pool, Row
<1> QED BY <1>1, <1>2, <1>3, <1>4, <1>5, <1>6, <1>7, <1>8, <1>9, <1>10, <1>11, <1>12 DEF Continue

LEMMA ChainKeepsRequests == Chain => UNCHANGED <<row, pool, requestVars, sent, faults>>
BY DEF Chain, NewBlock, Land, Finalize

LEMMA TypeStep == TypeOK /\ Signed /\ [Next]_vars => TypeOK' /\ Signed'
<1> SUFFICES ASSUME TypeOK, Signed, [Next]_vars PROVE TypeOK' /\ Signed'
  OBVIOUS
<1> USE RouteAssumption
<1>1. CASE Chain
  <2>1. block' \in Signatures
    BY <1>1 DEF Chain, NewBlock, Land, Finalize, TypeOK, Signatures
  <2>2. landed' \in [Signatures -> {"no", "ok", "err"}] /\ final' \in SUBSET Signatures
    BY <1>1 DEF Chain, NewBlock, Land, Finalize, TypeOK
  <2> QED BY <1>1, <2>1, <2>2, ChainKeepsRequests DEF TypeOK, Signed, requestVars
<1>2. ASSUME NEW r \in Requests, Read(r) PROVE TypeOK' /\ Signed'
  BY <1>2 DEF Read, Goto, TypeOK, Signed, Signing, Steps, chainVars
<1>3. ASSUME NEW r \in Requests, Die(r) PROVE TypeOK' /\ Signed'
  BY <1>3, ReturnKeepsTypes DEF Die, TypeOK, chainVars
<1>4. CASE UNCHANGED vars
  BY <1>4 DEF vars, requestVars, chainVars, TypeOK, Signed
<1> QED BY <1>1, <1>2, <1>3, <1>4, TypeContinue DEF Next

(* Every variable keeps its type and a request that broadcasts holds a
   transaction (v3-reward-funding.mjs:338-370).                           *)
THEOREM TypeCorrect == Spec => []TypeOK
<1>1. Init => TypeOK /\ Signed
  BY TypeInit
<1>2. TypeOK /\ Signed /\ [Next]_vars => (TypeOK /\ Signed)'
  BY TypeStep
<1> QED BY <1>1, <1>2, PTL DEF Spec

----------------------------------------------------------------------------
(* Proof of payment *)

OnePayment == \A s, t \in Signatures : landed[s] = "ok" /\ landed[t] = "ok" => s = t

(* A finalized row, or a copy of one, names a payment. *)
RowPaid == /\ row.status = "none" => row = NoRow
           /\ row.status = "finalized" => Funded(row.sig)

RequestPaid(r) ==
    /\ held[r].status = "finalized" => Funded(held[r].sig) /\ row.status = "finalized"
    /\ pc[r] = "recover" => Funded(held[r].sig)
    /\ pc[r] \in {"receipt", "record"} => Funded(tx[r])
    /\ pc[r] = "enroll" => held[r].status = "finalized"

PoolPaid == pool # NoPool => Funded(pool.sig) /\ row.status = "finalized"

PaidInv == TypeOK /\ Signed /\ OnePayment /\ RowPaid
           /\ (\A r \in Requests : RequestPaid(r)) /\ PoolPaid

LEMMA PaidInit == Init => PaidInv
<1> SUFFICES ASSUME Init PROVE PaidInv
  OBVIOUS
<1> QED BY TypeInit DEF Init, PaidInv, OnePayment, RowPaid, RequestPaid, PoolPaid, NoRow

(* The proof of a payment outlives every step. *)
LEMMA FundedStays ==
    ASSUME TypeOK, [Next]_vars
    PROVE  \A s : Funded(s) => s \in final' /\ landed'[s] = "ok"
<1>1. CASE Chain
  BY <1>1 DEF Chain, NewBlock, Land, Finalize, Funded, TypeOK, CanLand
<1>2. ASSUME UNCHANGED <<landed, final>>
      PROVE  \A s : Funded(s) => s \in final' /\ landed'[s] = "ok"
  BY <1>2 DEF Funded
<1>3. CASE \E r \in Requests : Read(r) \/ Continue(r) \/ Die(r)
  BY <1>2, <1>3 DEF Read, Continue, Die, LoadProof, Recover, ReadStatuses, ReadBlockhash, Sign,
     Lock, CheckBlockhash, Send, Poll, LoadReceipt, Record, Enroll, chainVars
<1>4. CASE UNCHANGED vars
  BY <1>2, <1>4 DEF vars, chainVars
<1> QED BY <1>1, <1>3, <1>4 DEF Next

(* One row at a time: the step of request r leaves the other requests alone,
   and no step takes a finalization back.                                    *)
LEMMA OthersUntouched ==
    ASSUME TypeOK, NEW r \in Requests, Read(r) \/ Continue(r) \/ Die(r),
           NEW q \in Requests, q # r
    PROVE  pc'[q] = pc[q] /\ held'[q] = held[q] /\ tx'[q] = tx[q]
BY DEF TypeOK, Read, Continue, Die, LoadProof, Recover, ReadStatuses, ReadBlockhash, Sign, Lock,
   CheckBlockhash, Send, Poll, LoadReceipt, Record, Enroll, Goto, Return

LEMMA FinalizedStays ==
    ASSUME [Next]_vars, row.status = "finalized"
    PROVE  row'.status = "finalized"
<1>1. ASSUME row' = row PROVE row'.status = "finalized"
  BY <1>1
<1>2. ASSUME NEW r \in Requests, Recover(r) \/ Lock(r) \/ Record(r) PROVE row'.status = "finalized"
  BY <1>2 DEF Recover, Lock, Lockable, Record, Finalized
<1>3. CASE Next
  BY <1>1, <1>2, <1>3, ChainKeepsRequests DEF Next, Continue, Read, Die, LoadProof, ReadStatuses,
     ReadBlockhash, Sign, CheckBlockhash, Send, Poll, LoadReceipt, Enroll
<1>4. CASE UNCHANGED vars
  BY <1>1, <1>4 DEF vars
<1> QED BY <1>3, <1>4

LEMMA OnePaymentStep == TypeOK /\ OnePayment /\ [Next]_vars => OnePayment'
<1> SUFFICES ASSUME TypeOK, OnePayment, [Next]_vars PROVE OnePayment'
  OBVIOUS
<1>1. ASSUME NEW s \in Signatures, Land(s) PROVE OnePayment'
  BY <1>1 DEF Land, NothingPaid, OnePayment, TypeOK
<1>2. ASSUME UNCHANGED landed PROVE OnePayment'
  BY <1>2 DEF OnePayment
<1>3. CASE \E r \in Requests : Read(r) \/ Continue(r) \/ Die(r)
  BY <1>2, <1>3 DEF Read, Continue, Die, LoadProof, Recover, ReadStatuses, ReadBlockhash, Sign,
     Lock, CheckBlockhash, Send, Poll, LoadReceipt, Record, Enroll, chainVars
<1>4. CASE UNCHANGED vars
  BY <1>2, <1>4 DEF vars, chainVars
<1>5. CASE NewBlock \/ \E s \in Signatures : Finalize(s)
  BY <1>2, <1>5 DEF NewBlock, Finalize
<1> QED BY <1>1, <1>3, <1>4, <1>5 DEF Next, Chain

LEMMA RowPaidStep == PaidInv /\ [Next]_vars => RowPaid'
<1> SUFFICES ASSUME PaidInv, [Next]_vars PROVE RowPaid'
  OBVIOUS
<1>1. ASSUME row' = row PROVE RowPaid'
  BY <1>1, FundedStays DEF PaidInv, RowPaid, Funded
<1>2. ASSUME NEW r \in Requests, Recover(r) \/ Record(r), row' # row PROVE RowPaid'
  BY <1>2, FundedStays DEF PaidInv, RequestPaid, RowPaid, Recover, Record, Finalized, Funded
<1>3. ASSUME NEW r \in Requests, Lock(r), row' # row PROVE RowPaid'
  BY <1>3 DEF Lock, Pending, RowPaid
<1>4. CASE Next
  BY <1>1, <1>2, <1>3, <1>4, ChainKeepsRequests DEF Next, Continue, Read, Die, LoadProof,
     ReadStatuses, ReadBlockhash, Sign, CheckBlockhash, Send, Poll, LoadReceipt, Enroll
<1>5. CASE UNCHANGED vars
  BY <1>1, <1>5 DEF vars
<1> QED BY <1>4, <1>5

(* What request r keeps while it does not move. *)
LEMMA IdleRequestPaid ==
    ASSUME PaidInv, [Next]_vars, NEW q \in Requests,
           pc'[q] = pc[q], held'[q] = held[q], tx'[q] = tx[q]
    PROVE  RequestPaid(q)'
BY FundedStays, FinalizedStays DEF PaidInv, RequestPaid, Funded

(* A request that answered holds nothing. *)
LEMMA ReturnedPaid ==
    ASSUME TypeOK, NEW r \in Requests, Return(r)
    PROVE  RequestPaid(r)'
BY DEF TypeOK, Return, Goto, NoRow, RequestPaid

LEMMA MovedRequestPaid ==
    ASSUME PaidInv, NEW r \in Requests, Read(r) \/ Continue(r) \/ Die(r)
    PROVE  RequestPaid(r)'
<1>0. /\ TypeOK /\ RequestPaid(r) /\ RowPaid
      /\ [Next]_vars
  BY DEF PaidInv, Next
<1>1. ASSUME NEW step \in {"prove", "statuses", "blockhash", "sign", "lock", "check", "send", "poll"},
             Goto(r, step), held' = held
      PROVE  RequestPaid(r)'
  BY <1>0, <1>1, FundedStays, FinalizedStays DEF RequestPaid, Goto, TypeOK, Funded
<1>2. CASE Read(r)
  <2>1. held'[r] = row /\ row' = row /\ pc'[r] \in {"sign", "prove"}
    BY <1>0, <1>2 DEF Read, Goto, TypeOK
  <2> QED BY <1>0, <2>1, FundedStays DEF RequestPaid, RowPaid, Funded
<1>3. CASE LoadProof(r)
  <2>1. CASE Funded(held[r].sig) /\ Goto(r, AfterProof(held[r].status)) /\ held' = held
    BY <1>0, <2>1, FundedStays, FinalizedStays
       DEF RequestPaid, AfterProof, Goto, TypeOK, Funded
  <2> QED BY <1>0, <1>1, <1>3, <2>1, ReturnedPaid DEF LoadProof
<1>4. CASE Recover(r)
  <2>1. CASE /\ held' = [held EXCEPT ![r] = Finalized(held[r].sig)]
             /\ row' = Finalized(held[r].sig)
             /\ Goto(r, "enroll")
    <3>1. Funded(held[r].sig)
      BY <1>0, <1>4 DEF Recover, RequestPaid
    <3>2. held'[r] = Finalized(held[r].sig) /\ pc'[r] = "enroll"
      BY <1>0, <2>1 DEF TypeOK, Goto
    <3> QED BY <1>0, <2>1, <3>1, <3>2, FundedStays DEF RequestPaid, Finalized, Funded
  <2> QED BY <1>0, <1>4, <2>1, ReturnedPaid DEF Recover
<1>5. CASE ReadStatuses(r)
  BY <1>0, <1>1, <1>5, ReturnedPaid DEF ReadStatuses
<1>6. CASE ReadBlockhash(r)
  BY <1>0, <1>1, <1>6, ReturnedPaid DEF ReadBlockhash
<1>7. CASE Sign(r)
  BY <1>1, <1>7 DEF Sign
<1>8. CASE Lock(r)
  BY <1>0, <1>1, <1>8, ReturnedPaid DEF Lock
<1>9. CASE CheckBlockhash(r)
  BY <1>0, <1>1, <1>9, ReturnedPaid DEF CheckBlockhash
<1>10. CASE Send(r)
  BY <1>0, <1>1, <1>10, ReturnedPaid DEF Send
<1>11. CASE Poll(r)
  <2>1. CASE Funded(tx[r]) /\ Goto(r, "receipt") /\ held' = held /\ tx' = tx
    BY <1>0, <2>1, FundedStays, FinalizedStays DEF RequestPaid, Goto, TypeOK, Funded
  <2> QED BY <1>0, <1>11, <2>1, ReturnedPaid DEF Poll
<1>12. CASE LoadReceipt(r)
  <2>1. CASE pc[r] = "receipt" /\ Goto(r, "record") /\ held' = held /\ tx' = tx
    BY <1>0, <2>1, FundedStays, FinalizedStays DEF RequestPaid, Goto, TypeOK, Funded
  <2> QED BY <1>0, <1>12, <2>1, ReturnedPaid DEF LoadReceipt
<1>13. CASE Record(r)
  <2>1. CASE /\ held' = [held EXCEPT ![r] = Finalized(tx[r])]
             /\ row' = Finalized(tx[r])
             /\ Goto(r, "enroll")
    <3>1. Funded(tx[r])
      BY <1>0, <1>13 DEF Record, RequestPaid
    <3>2. held'[r] = Finalized(tx[r]) /\ pc'[r] = "enroll"
      BY <1>0, <2>1 DEF TypeOK, Goto
    <3> QED BY <1>0, <2>1, <3>1, <3>2, FundedStays DEF RequestPaid, Finalized, Funded
  <2> QED BY <1>0, <1>13, <2>1, ReturnedPaid DEF Record
<1>14. CASE Enroll(r) \/ Die(r)
  BY <1>0, <1>14, ReturnedPaid DEF Enroll, Die
<1> QED BY <1>2, <1>3, <1>4, <1>5, <1>6, <1>7, <1>8, <1>9, <1>10, <1>11, <1>12, <1>13, <1>14
    DEF Continue

LEMMA PoolPaidStep == PaidInv /\ [Next]_vars => PoolPaid'
<1> SUFFICES ASSUME PaidInv, [Next]_vars PROVE PoolPaid'
  OBVIOUS
<1>1. ASSUME pool' = pool PROVE PoolPaid'
  BY <1>1, FundedStays, FinalizedStays DEF PaidInv, PoolPaid, Funded
<1>2. ASSUME NEW r \in Requests, Enroll(r), pool = NoPool PROVE PoolPaid'
  <2>1. Funded(held[r].sig) /\ row.status = "finalized"
    BY <1>2 DEF PaidInv, RequestPaid, Enroll
  <2>2. pool'.sig = held[r].sig
    BY <1>2 DEF Enroll
  <2> QED BY <2>1, <2>2, FundedStays, FinalizedStays DEF PaidInv, PoolPaid, Funded
<1>3. CASE Next
  BY <1>1, <1>2, <1>3, ChainKeepsRequests DEF Next, Continue, Read, Die, LoadProof, Recover,
     ReadStatuses, ReadBlockhash, Sign, Lock, CheckBlockhash, Send, Poll, LoadReceipt, Record, Enroll
<1>4. CASE UNCHANGED vars
  BY <1>1, <1>4 DEF vars
<1> QED BY <1>3, <1>4

LEMMA PaidStep == PaidInv /\ [Next]_vars => PaidInv'
<1> SUFFICES ASSUME PaidInv, [Next]_vars PROVE PaidInv'
  OBVIOUS
<1>1. TypeOK' /\ Signed' /\ OnePayment' /\ RowPaid' /\ PoolPaid'
  BY TypeStep, OnePaymentStep, RowPaidStep, PoolPaidStep DEF PaidInv
<1>2. ASSUME NEW q \in Requests PROVE RequestPaid(q)'
  <2>1. CASE Chain \/ UNCHANGED vars
    BY <2>1, ChainKeepsRequests, IdleRequestPaid DEF requestVars, vars
  <2>2. ASSUME NEW r \in Requests, Read(r) \/ Continue(r) \/ Die(r) PROVE RequestPaid(q)'
    <3>1. CASE r = q
      BY <2>2, <3>1, MovedRequestPaid
    <3>2. CASE r # q
      BY <2>2, <3>2, OthersUntouched, IdleRequestPaid DEF PaidInv
    <3> QED BY <3>1, <3>2
  <2> QED BY <2>1, <2>2 DEF Next
<1> QED BY <1>1, <1>2 DEF PaidInv

----------------------------------------------------------------------------
(* The right to broadcast *)

(* A request about to replace the saved signature has seen it die, and one
   about to broadcast still owns the row while its transaction can execute. *)
RequestLive(r) ==
    /\ pc[r] \in {"sign", "lock"} => ~CanLand(held[r].sig)
    /\ pc[r] \in {"check", "send"} /\ CanLand(tx[r]) => row = Pending(tx[r])

LiveInv == PaidInv /\ LiveIsRecorded /\ \A r \in Requests : RequestLive(r)

LEMMA LiveInit == Init => LiveInv
BY PaidInit DEF Init, LiveInv, LiveIsRecorded, RequestLive, NoRow, CanLand, Signatures, None

(* What is dead stays dead. *)
LEMMA DeadStays ==
    ASSUME TypeOK, [Next]_vars
    PROVE  \A s : CanLand(s)' => CanLand(s)
<1>1. CASE NewBlock \/ \E s \in Signatures : Land(s) \/ Finalize(s)
  BY <1>1, RouteAssumption DEF NewBlock, Land, Finalize, CanLand, HashValid, TypeOK, Signatures
<1>2. ASSUME UNCHANGED <<block, landed>> PROVE \A s : CanLand(s)' => CanLand(s)
  BY <1>2 DEF CanLand, HashValid
<1>3. CASE \E r \in Requests : Read(r) \/ Continue(r) \/ Die(r)
  BY <1>2, <1>3 DEF Read, Continue, Die, LoadProof, Recover, ReadStatuses, ReadBlockhash, Sign,
     Lock, CheckBlockhash, Send, Poll, LoadReceipt, Record, Enroll, chainVars
<1>4. CASE UNCHANGED vars
  BY <1>2, <1>4 DEF vars, chainVars
<1> QED BY <1>1, <1>3, <1>4 DEF Next, Chain

(* A row is rewritten only when the transaction it names is dead. *)
LEMMA RewriteIsSafe ==
    ASSUME LiveInv, [Next]_vars, row' # row
    PROVE  ~CanLand(row.sig)
<1>1. ASSUME NEW r \in Requests, Recover(r) PROVE ~CanLand(row.sig)
  BY <1>1 DEF LiveInv, PaidInv, RequestPaid, Recover, Funded, CanLand
<1>2. ASSUME NEW r \in Requests, Lock(r) PROVE ~CanLand(row.sig)
  BY <1>2 DEF LiveInv, RequestLive, Lock, Lockable
<1>3. ASSUME NEW r \in Requests, Record(r) PROVE ~CanLand(row.sig)
  BY <1>3 DEF LiveInv, PaidInv, RequestPaid, Record, Pending, Funded, CanLand
<1> QED BY <1>1, <1>2, <1>3, ChainKeepsRequests DEF Next, Continue, Read, Die, LoadProof,
    ReadStatuses, ReadBlockhash, Sign, CheckBlockhash, Send, Poll, LoadReceipt, Enroll, vars

(* The pending row of a transaction that can execute is left as it is. *)
LEMMA LiveRowStays ==
    ASSUME LiveInv, [Next]_vars
    PROVE  \A s : row = Pending(s) /\ CanLand(s)' => row' = row
BY RewriteIsSafe, DeadStays DEF LiveInv, PaidInv, Pending

LEMMA LiveIsRecordedStep == LiveInv /\ [Next]_vars => LiveIsRecorded'
<1> SUFFICES ASSUME LiveInv, [Next]_vars, NEW s \in sent', CanLand(s)'
             PROVE  row' = Pending(s)
  BY DEF LiveIsRecorded, Pending
<1>1. CASE s \in sent
  BY <1>1, DeadStays, LiveRowStays DEF LiveInv, PaidInv, LiveIsRecorded
<1>2. CASE s \notin sent
  <2>1. PICK r \in Requests : Send(r) /\ s = tx[r]
    BY <1>2, ChainKeepsRequests
       DEF Next, Continue, Read, Die, LoadProof, Recover, ReadStatuses, ReadBlockhash, Sign, Lock,
           CheckBlockhash, Send, Poll, LoadReceipt, Record, Enroll, chainVars, vars
  <2>2. row = Pending(tx[r]) /\ row' = row
    BY <2>1, DeadStays DEF LiveInv, PaidInv, RequestLive, Send
  <2> QED BY <2>1, <2>2
<1> QED BY <1>1, <1>2

LEMMA IdleRequestLive ==
    ASSUME LiveInv, [Next]_vars, NEW q \in Requests,
           pc'[q] = pc[q], held'[q] = held[q], tx'[q] = tx[q]
    PROVE  RequestLive(q)'
<1>1. \A s : CanLand(s)' => CanLand(s)
  BY DeadStays DEF LiveInv, PaidInv
<1>2. pc'[q] \in {"sign", "lock"} => ~CanLand(held[q].sig)'
  <2> SUFFICES ASSUME pc[q] \in {"sign", "lock"} PROVE ~CanLand(held[q].sig)'
    OBVIOUS
  <2>1. ~CanLand(held[q].sig)
    BY DEF LiveInv, RequestLive
  <2> QED BY <1>1, <2>1 DEF CanLand, HashValid
<1>3. pc'[q] \in {"check", "send"} /\ CanLand(tx[q])' => row' = Pending(tx[q])'
  BY <1>1, LiveRowStays DEF LiveInv, RequestLive, CanLand, HashValid, Pending
<1> QED BY <1>2, <1>3 DEF RequestLive

LEMMA MovedRequestLive ==
    ASSUME LiveInv, NEW r \in Requests, Read(r) \/ Continue(r) \/ Die(r)
    PROVE  RequestLive(r)'
<1>0. TypeOK /\ RowPaid /\ RequestLive(r) /\ [Next]_vars
  BY DEF LiveInv, PaidInv, Next
<1>d. \A s : CanLand(s)' => CanLand(s)
  BY <1>0, DeadStays
<1>1. ASSUME NEW step \in Steps \ {"sign", "lock", "check", "send"}, Goto(r, step)
      PROVE  RequestLive(r)'
  BY <1>0, <1>1 DEF RequestLive, Goto, TypeOK
<1>2. ASSUME Return(r) PROVE RequestLive(r)'
  BY <1>1, <1>2 DEF Return, Steps
<1>3. ASSUME Goto(r, "sign") \/ Goto(r, "lock"), held'[r] = held[r], ~CanLand(held[r].sig)
      PROVE  RequestLive(r)'
  <2>1. pc'[r] \in {"sign", "lock"}
    BY <1>0, <1>3 DEF Goto, TypeOK
  <2> QED BY <1>3, <1>d, <2>1 DEF RequestLive, CanLand, HashValid
<1>4. CASE Read(r)
  <2>1. held'[r] = row /\ pc'[r] \in {"sign", "prove"}
        /\ (pc'[r] = "sign" => row.status = "none")
    BY <1>0, <1>4 DEF Read, Goto, TypeOK
  <2>2. pc'[r] = "sign" => held'[r].sig \notin Signatures
    BY <1>0, <2>1 DEF RowPaid, NoRow, None, Signatures
  <2> QED BY <2>1, <2>2 DEF RequestLive, CanLand
<1>5. CASE LoadProof(r)
  BY <1>1, <1>2, <1>5 DEF LoadProof, AfterProof, Steps
<1>6. CASE Recover(r)
  BY <1>1, <1>2, <1>6 DEF Recover, Steps
<1>7. CASE ReadStatuses(r)
  BY <1>1, <1>2, <1>3, <1>7 DEF ReadStatuses, CanLand, Steps
<1>8. CASE ReadBlockhash(r)
  BY <1>2, <1>3, <1>8 DEF ReadBlockhash, Expired, CanLand
<1>9. CASE Sign(r)
  BY <1>0, <1>3, <1>9 DEF Sign, RequestLive
<1>10. CASE Lock(r)
  <2>1. CASE row' = Pending(tx[r]) /\ Goto(r, "check") /\ tx' = tx
    BY <1>0, <2>1 DEF RequestLive, Goto, TypeOK, Pending
  <2> QED BY <1>2, <1>10, <2>1 DEF Lock
<1>11. CASE CheckBlockhash(r)
  <2>1. CASE pc[r] = "check" /\ Goto(r, "send") /\ tx' = tx /\ row' = row
    <3>1. pc'[r] = "send"
      BY <1>0, <2>1 DEF Goto, TypeOK
    <3>2. CanLand(tx[r])' => CanLand(tx[r])
      BY <1>d, <2>1 DEF CanLand, HashValid
    <3> QED BY <1>0, <2>1, <3>1, <3>2 DEF RequestLive, Pending
  <2> QED BY <1>2, <1>11, <2>1 DEF CheckBlockhash
<1>12. CASE Send(r)
  BY <1>1, <1>2, <1>12 DEF Send, Steps
<1>13. CASE Poll(r)
  BY <1>1, <1>2, <1>13 DEF Poll, Steps
<1>14. CASE LoadReceipt(r)
  BY <1>1, <1>2, <1>14 DEF LoadReceipt, Steps
<1>15. CASE Record(r)
  BY <1>1, <1>2, <1>15 DEF Record, Steps
<1>16. CASE Enroll(r) \/ Die(r)
  BY <1>2, <1>16 DEF Enroll, Die
<1> QED BY <1>4, <1>5, <1>6, <1>7, <1>8, <1>9, <1>10, <1>11, <1>12, <1>13, <1>14, <1>15, <1>16
    DEF Continue

LEMMA LiveStep == LiveInv /\ [Next]_vars => LiveInv'
<1> SUFFICES ASSUME LiveInv, [Next]_vars PROVE LiveInv'
  OBVIOUS
<1>1. PaidInv' /\ LiveIsRecorded'
  BY PaidStep, LiveIsRecordedStep DEF LiveInv
<1>2. ASSUME NEW q \in Requests PROVE RequestLive(q)'
  <2>1. CASE Chain \/ UNCHANGED vars
    BY <2>1, ChainKeepsRequests, IdleRequestLive DEF requestVars, vars
  <2>2. ASSUME NEW r \in Requests, Read(r) \/ Continue(r) \/ Die(r) PROVE RequestLive(q)'
    <3>1. CASE r = q
      BY <2>2, <3>1, MovedRequestLive
    <3>2. CASE r # q
      BY <2>2, <3>2, OthersUntouched, IdleRequestLive DEF LiveInv, PaidInv
    <3> QED BY <3>1, <3>2
  <2> QED BY <2>1, <2>2 DEF Next
<1> QED BY <1>1, <1>2 DEF LiveInv

LEMMA LiveAlways == Spec => []LiveInv
<1>1. Init => LiveInv
  BY LiveInit
<1>2. LiveInv /\ [Next]_vars => LiveInv'
  BY LiveStep
<1> QED BY <1>1, <1>2, PTL DEF Spec

(* However many requests race, retry and die, at most one transaction of the
   key can still execute, and the pending row names it.                      *)
THEOREM OneLiveTransaction == Spec => []LiveIsRecorded
<1>1. LiveInv => LiveIsRecorded
  BY DEF LiveInv
<1> QED BY <1>1, LiveAlways, PTL

(* The route gives up a saved signature only when its transaction is dead. *)
THEOREM ReplacementIsGuarded == Spec => GuardedReplacement
<1>1. LiveInv /\ [Next]_vars => [row.sig # None /\ row'.sig # row.sig => ~CanLand(row.sig)]_vars
  BY RewriteIsSafe
<1> QED BY <1>1, LiveAlways, PTL DEF Spec, GuardedReplacement

----------------------------------------------------------------------------
(* A settled row.  The row changes hands only in Lock; the requests that   *)
(* may get there hold another signature, and who still holds this one has  *)
(* to ask the chain first, which answers that it paid.                     *)

Replacing == {"blockhash", "sign", "lock"}

LEMMA RowSigStays ==
    ASSUME PaidInv, Settled, [Next]_vars
    PROVE  row'.sig = row.sig
<1>1. ASSUME NEW r \in Requests, Lock(r) PROVE row' = row
  BY <1>1 DEF Lock, Lockable, Settled
<1>2. ASSUME NEW r \in Requests, Recover(r) PROVE row'.sig = row.sig
  BY <1>2 DEF Recover, Finalized
<1>3. ASSUME NEW r \in Requests, Record(r) PROVE row'.sig = row.sig
  BY <1>3 DEF Record, Finalized, Pending
<1>4. CASE Next
  BY <1>1, <1>2, <1>3, <1>4, ChainKeepsRequests DEF Next, Continue, Read, Die, LoadProof,
     ReadStatuses, ReadBlockhash, Sign, CheckBlockhash, Send, Poll, LoadReceipt, Enroll
<1>5. CASE UNCHANGED vars
  BY <1>5 DEF vars
<1> QED BY <1>4, <1>5

LEMMA MovedRequestSettled ==
    ASSUME PaidInv, Settled, NEW r \in Requests, Read(r) \/ Continue(r) \/ Die(r),
           pc'[r] \in Replacing
    PROVE  held'[r].sig # row.sig
<1>1. TypeOK /\ Funded(row.sig)
  BY DEF PaidInv, Settled
<1>2. row.sig \in Signatures /\ row.status # "none"
  <2>1. row.sig \in Signatures
    BY <1>1 DEF Funded, TypeOK
  <2>2. row.status = "none" => row.sig = 0
    BY DEF PaidInv, RowPaid, NoRow, None
  <2> QED BY <2>1, <2>2, RouteAssumption DEF Signatures
<1>3. CASE Read(r)
  BY <1>1, <1>2, <1>3 DEF Read, Goto, TypeOK, Replacing
<1>4. CASE ReadStatuses(r) /\ pc'[r] \in {"sign", "blockhash"}
  BY <1>1, <1>4 DEF ReadStatuses, Return, Goto, TypeOK, Funded
<1>5. CASE ReadBlockhash(r) \/ Sign(r)
  BY <1>1, <1>5 DEF ReadBlockhash, Sign, Return, Goto, TypeOK, Settled, Replacing
<1>6. CASE Continue(r) \/ Die(r)
  <2>1. \/ ReadStatuses(r) /\ pc'[r] \in {"sign", "blockhash"}
        \/ ReadBlockhash(r) \/ Sign(r)
    BY <1>1, <1>6 DEF Continue, Die, LoadProof, AfterProof, Recover, ReadStatuses, Lock,
       CheckBlockhash, Send, Poll, LoadReceipt, Record, Enroll, Return, Goto, TypeOK, Replacing
  <2> QED BY <2>1, <1>4, <1>5
<1> QED BY <1>3, <1>6

LEMMA SettledStep ==
    ASSUME PaidInv, Settled, [Next]_vars
    PROVE  Settled'
<1>1. TypeOK /\ Funded(row.sig)
  BY DEF PaidInv, Settled
<1>2. Funded(row.sig)'
  BY <1>1, RowSigStays, FundedStays DEF Funded
<1>3. ASSUME NEW q \in Requests, pc'[q] \in Replacing PROVE held'[q].sig # row'.sig
  <2>1. CASE pc'[q] = pc[q] /\ held'[q] = held[q]
    BY <1>3, <2>1, RowSigStays DEF Settled, Replacing
  <2>2. CASE Read(q) \/ Continue(q) \/ Die(q)
    BY <1>3, <2>2, MovedRequestSettled, RowSigStays
  <2>3. ASSUME NEW r \in Requests, r # q, Read(r) \/ Continue(r) \/ Die(r)
        PROVE  pc'[q] = pc[q] /\ held'[q] = held[q]
    BY <1>1, <2>3, OthersUntouched
  <2>4. CASE Chain \/ UNCHANGED vars
    BY <2>1, <2>4, ChainKeepsRequests DEF requestVars, vars
  <2> QED BY <2>1, <2>2, <2>3, <2>4 DEF Next
<1> QED BY <1>2, <1>3 DEF Settled, Replacing

(* Once the row names a finalized payment that no request can replace any
   more, it does so for good: a late answer or a retry never undoes it.    *)
THEOREM SettledIsForGood == Spec => SettledForGood
<1>1. PaidInv /\ [Next]_vars => [Settled => Settled']_vars
  BY SettledStep
<1>2. LiveInv => PaidInv
  BY DEF LiveInv
<1> QED BY <1>1, <1>2, LiveAlways, PTL DEF Spec, SettledForGood

----------------------------------------------------------------------------
(* The life cycle *)

paidBar == {s \in Signatures : landed[s] = "ok"}
recordedBar == IF row.status = "finalized" THEN {row.sig} ELSE {}
bookedBar == IF pool = NoPool THEN {} ELSE {pool.sig}

LEMMA InitImplements == Init => Lifecycle!Init
BY DEF Init, Lifecycle!Init, NoRow

(* Under the invariant there is at most one signature to talk about. *)
LEMMA FundedIsPaid ==
    ASSUME PaidInv, NEW s, Funded(s)
    PROVE  paidBar = {s}
BY DEF PaidInv, OnePayment, Funded, paidBar, TypeOK

LEMMA LandImplements ==
    ASSUME PaidInv, NEW s \in Signatures, Land(s)
    PROVE  [Lifecycle!Next]_(Lifecycle!lifecycleVars)
<1>1. row' = row /\ pool' = pool
  BY DEF Land
<1>2. CASE NothingPaid /\ landed' = [landed EXCEPT ![s] = "ok"]
  <2>1. paidBar = {} /\ paidBar' = {s}
    BY <1>2 DEF NothingPaid, paidBar, PaidInv, TypeOK
  <2>2. Lifecycle!Pay(s)
    BY <1>1, <2>1 DEF Lifecycle!Pay, paidBar
  <2> QED BY <2>2 DEF Lifecycle!Next
<1>3. CASE landed' = [landed EXCEPT ![s] = "err"]
  <2>1. paidBar' = paidBar
    BY <1>3 DEF Land, CanLand, paidBar, PaidInv, TypeOK
  <2> QED BY <1>1, <2>1 DEF Lifecycle!lifecycleVars, paidBar
<1> QED BY <1>2, <1>3 DEF Land

(* Recovery and the final update record the payment, or rewrite its record. *)
LEMMA RecordImplements ==
    ASSUME PaidInv, PaidInv', landed' = landed, pool' = pool,
           row'.status = "finalized"
    PROVE  [Lifecycle!Next]_(Lifecycle!lifecycleVars)
<1>1. paidBar' = paidBar /\ bookedBar' = bookedBar
  BY DEF paidBar, bookedBar
<1>2. recordedBar' = paidBar
  <2>1. row'.sig \in Signatures /\ landed'[row'.sig] = "ok"
    BY DEF PaidInv, RowPaid, Funded, TypeOK
  <2> QED BY <2>1 DEF PaidInv, OnePayment, recordedBar, paidBar
<1>3. CASE row.status = "finalized"
  <2>1. row.sig \in Signatures /\ landed[row.sig] = "ok"
    BY <1>3 DEF PaidInv, RowPaid, Funded, TypeOK
  <2>2. recordedBar = paidBar
    BY <1>3, <2>1 DEF PaidInv, OnePayment, recordedBar, paidBar
  <2> QED BY <1>1, <1>2, <2>2 DEF Lifecycle!lifecycleVars, paidBar, recordedBar, bookedBar
<1>4. CASE row.status # "finalized"
  <2>1. recordedBar = {} /\ recordedBar' # {}
    BY <1>4 DEF recordedBar
  <2>2. Lifecycle!Record
    BY <1>1, <1>2, <2>1 DEF Lifecycle!Record, paidBar, recordedBar, bookedBar
  <2> QED BY <2>2 DEF Lifecycle!Next
<1> QED BY <1>3, <1>4

LEMMA EnrollImplements ==
    ASSUME PaidInv, PaidInv', NEW r \in Requests, Enroll(r)
    PROVE  [Lifecycle!Next]_(Lifecycle!lifecycleVars)
<1>1. paidBar' = paidBar /\ recordedBar' = recordedBar
  BY DEF Enroll, chainVars, paidBar, recordedBar
<1>2. Funded(held[r].sig) /\ row.status = "finalized" /\ Funded(row.sig)
  BY DEF PaidInv, RequestPaid, RowPaid, Enroll
<1>3. held[r].sig = row.sig
  BY <1>2 DEF PaidInv, OnePayment, Funded, TypeOK
<1>4. CASE pool = NoPool
  <2>1. pool'.sig = row.sig
    BY <1>3, <1>4 DEF Enroll
  <2>2. pool' # NoPool
    BY <1>2, <2>1 DEF PaidInv, TypeOK, Funded, NoPool, None, Signatures
  <2>3. bookedBar = {} /\ bookedBar' = recordedBar /\ recordedBar # {}
    BY <1>2, <1>4, <2>1, <2>2 DEF bookedBar, recordedBar
  <2>4. Lifecycle!Book
    BY <1>1, <2>3 DEF Lifecycle!Book, paidBar, recordedBar, bookedBar
  <2> QED BY <2>4 DEF Lifecycle!Next
<1>5. CASE pool # NoPool
  <2>1. bookedBar' = bookedBar
    BY <1>5 DEF Enroll, bookedBar
  <2> QED BY <1>1, <2>1 DEF Lifecycle!lifecycleVars, paidBar, recordedBar, bookedBar
<1> QED BY <1>4, <1>5

LEMMA StepImplements == PaidInv /\ PaidInv' /\ [Next]_vars => [Lifecycle!Next]_(Lifecycle!lifecycleVars)
<1> SUFFICES ASSUME PaidInv, PaidInv', [Next]_vars
             PROVE  [Lifecycle!Next]_(Lifecycle!lifecycleVars)
  OBVIOUS
<1>1. ASSUME landed' = landed, pool' = pool,
             row' = row \/ row'.status = "finalized" \/ (row.status # "finalized" /\ row'.status # "finalized")
      PROVE  [Lifecycle!Next]_(Lifecycle!lifecycleVars)
  <2>1. CASE row'.status = "finalized"
    BY <1>1, <2>1, RecordImplements
  <2>2. CASE row' = row \/ (row.status # "finalized" /\ row'.status # "finalized")
    BY <1>1, <2>2 DEF Lifecycle!lifecycleVars
  <2> QED BY <1>1, <2>1, <2>2
<1>2. ASSUME NEW r \in Requests, Recover(r) \/ Lock(r) \/ Record(r)
      PROVE  [Lifecycle!Next]_(Lifecycle!lifecycleVars)
  BY <1>1, <1>2 DEF Recover, Lock, Lockable, Record, Finalized, Pending, chainVars
<1>3. ASSUME NEW r \in Requests,
             Read(r) \/ Die(r) \/ LoadProof(r) \/ ReadStatuses(r) \/ ReadBlockhash(r) \/ Sign(r)
               \/ CheckBlockhash(r) \/ Send(r) \/ Poll(r) \/ LoadReceipt(r)
      PROVE  [Lifecycle!Next]_(Lifecycle!lifecycleVars)
  BY <1>1, <1>3 DEF Read, Die, LoadProof, ReadStatuses, ReadBlockhash, Sign, CheckBlockhash, Send,
     Poll, LoadReceipt, chainVars
<1>4. CASE NewBlock \/ (\E s \in Signatures : Finalize(s)) \/ UNCHANGED vars
  BY <1>1, <1>4 DEF NewBlock, Finalize, vars, chainVars
<1> QED BY <1>2, <1>3, <1>4, LandImplements, EnrollImplements DEF Next, Chain, Continue

(* The route implements the payment life cycle: it records only what paid,
   never takes a record back, and credits the pool with that payment, once. *)
THEOREM ImplementsLifecycle == Spec => LifecycleSpec
<1>1. Init => Lifecycle!Init
  BY InitImplements
<1>2. PaidInv /\ PaidInv' /\ [Next]_vars => [Lifecycle!Next]_(Lifecycle!lifecycleVars)
  BY StepImplements
<1>3. LiveInv => PaidInv
  BY DEF LiveInv
<1> QED BY <1>1, <1>2, <1>3, LiveAlways, PTL DEF Spec, LifecycleSpec, Lifecycle!Spec
=============================================================================
