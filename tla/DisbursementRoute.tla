------------------------- MODULE DisbursementRoute -------------------------
(***************************************************************************)
(* One v3 disbursement ledger key, as the HTTP route                       *)
(* server/routes/v3-reward-funding.mjs drives it from proof to pool.       *)
(* Several requests (the keeper, the creator's browser, their retries) run *)
(* the handler at once and are interleaved at every await; store.update is *)
(* atomic (store.mjs:214).  A request may die at any await.                *)
(*                                                                         *)
(* A transaction is named by the block its blockhash comes from: the       *)
(* message and the fee payer are fixed by the key, and Ed25519 signing is  *)
(* deterministic, so equal blockhashes give the same signature.  The       *)
(* chain is external: a transaction can land only while its blockhash is   *)
(* valid, and only the first to land creates the withdrawal account and    *)
(* moves the money.                                                        *)
(***************************************************************************)
EXTENDS Integers, FiniteSets

CONSTANTS Requests,    \* concurrent executions of the handler
          MaxBlock,    \* bound: blocks produced
          Validity,    \* blocks a blockhash stays valid after its own
          MaxFaults    \* bound: died requests and failed reads

ASSUME RouteAssumption == /\ MaxBlock \in Nat \ {0}
                          /\ Validity \in Nat
                          /\ MaxFaults \in Nat

VARIABLES row,      \* the ledger row (store)
          pool,     \* the reward pool of this row (rewardStore)
          pc,       \* where each request stands
          held,     \* `existing`, later `result`: the row a request works on
          tx,       \* the transaction a request signed
          block,    \* current block; also the wall clock
          sent,     \* transactions handed to the network
          landed,   \* signature -> "no" | "ok" | "err"
          final,    \* signatures whose outcome is finalized
          faults    \* died requests and failed reads so far

requestVars == <<pc, held, tx>>
chainVars == <<block, sent, landed, final>>
vars == <<row, pool, requestVars, chainVars, faults>>

Signatures == 1 .. MaxBlock
None == 0
Row == [status : {"none", "pending", "finalized"}, sig : 0 .. MaxBlock, at : 0 .. MaxBlock]
NoRow == [status |-> "none", sig |-> None, at |-> 0]
Pending(s) == [status |-> "pending", sig |-> s, at |-> 0]
(* Fault: stamped with the end of the blockhash's validity. *)
Finalized_Late(s) == [status |-> "finalized", sig |-> s, at |-> block + Validity + 1]
Finalized(s) == [status |-> "finalized", sig |-> s, at |-> block]
Pool == [sig : 0 .. MaxBlock, at : 0 .. MaxBlock]
NoPool == [sig |-> None, at |-> 0]

Steps == {"idle", "prove", "recover", "statuses", "blockhash", "sign", "lock",
          "check", "send", "poll", "receipt", "record", "enroll"}

(* isBlockhashValid of a transaction's recent blockhash. *)
HashValid(s) == block <= s + Validity

(* A transaction that may still execute. *)
CanLand(s) == s \in Signatures /\ landed[s] = "no" /\ HashValid(s)

(* Fault: a failed transaction counts as proof. *)
Funded_AnyOutcome(s) == s \in final

(* What loadFinalizedV3RewardFunding looks for: a finalized, successful payment. *)
Funded(s) == s \in final /\ landed[s] = "ok"

TypeOK == /\ row \in Row
          /\ pool \in Pool
          /\ pc \in [Requests -> Steps]
          /\ held \in [Requests -> Row]
          /\ tx \in [Requests -> 0 .. MaxBlock]
          /\ block \in Signatures
          /\ sent \in SUBSET Signatures
          /\ landed \in [Signatures -> {"no", "ok", "err"}]
          /\ final \in SUBSET Signatures
          /\ faults \in 0 .. MaxFaults

Init == /\ row = NoRow
        /\ pool = NoPool
        /\ pc = [r \in Requests |-> "idle"]
        /\ held = [r \in Requests |-> NoRow]
        /\ tx = [r \in Requests |-> None]
        /\ block = 1
        /\ sent = {}
        /\ landed = [s \in Signatures |-> "no"]
        /\ final = {}
        /\ faults = 0

Goto(r, step) == pc' = [pc EXCEPT ![r] = step]

(* The request answers and forgets its locals. *)
Return(r) == /\ Goto(r, "idle")
             /\ held' = [held EXCEPT ![r] = NoRow]
             /\ tx' = [tx EXCEPT ![r] = None]

----------------------------------------------------------------------------
(* The handler *)

(* A request starts: it snapshots the row it will work from (`existing`). *)
Read(r) == /\ pc[r] = "idle"
           /\ held' = [held EXCEPT ![r] = row]
           /\ Goto(r, IF row.status = "none" THEN "sign" ELSE "prove")
           /\ UNCHANGED <<row, pool, tx, chainVars, faults>>

(* Fault: a finalized row is answered without enrolling its pool. *)
AfterProof_Answered(status) == IF status = "finalized" THEN "idle" ELSE "recover"
AfterProof(status) == IF status = "finalized" THEN "enroll" ELSE "recover"

(* loadProof(existing.signature): a finalized row goes straight to the
   pool, a pending one is recovered, or its fate is looked up.            *)
LoadProof(r) ==
  /\ pc[r] = "prove"
  /\ \/ /\ Funded(held[r].sig)
        /\ Goto(r, AfterProof(held[r].status))
        /\ UNCHANGED <<held, tx, faults>>
     \/ /\ ~Funded(held[r].sig)
        /\ held[r].status = "pending"
        /\ Goto(r, "statuses")
        /\ UNCHANGED <<held, tx, faults>>
     \/ /\ faults < MaxFaults    \* a failed read proves nothing
        /\ faults' = faults + 1
        /\ IF held[r].status = "finalized"
             THEN Return(r)
             ELSE Goto(r, "statuses") /\ UNCHANGED <<held, tx>>
  /\ UNCHANGED <<row, pool, chainVars>>

(* Receipt-only recovery: the update only compares the signature, so it also
   rewrites a row that another request finalized in the meantime.            *)
Recover(r) ==
  /\ pc[r] = "recover"
  /\ \/ /\ row.sig = held[r].sig
        /\ row' = Finalized(held[r].sig)
        /\ held' = [held EXCEPT ![r] = Finalized(held[r].sig)]
        /\ Goto(r, "enroll")
        /\ UNCHANGED tx
     \/ /\ row.sig # held[r].sig
        /\ Return(r)
        /\ UNCHANGED row
  /\ UNCHANGED <<pool, chainVars, faults>>

(* creatorSettlementRetryState, first read: getSignatureStatuses. *)
ReadStatuses(r) ==
  /\ pc[r] = "statuses"
  /\ \/ landed[held[r].sig] = "ok" /\ Return(r)
     \/ landed[held[r].sig] = "err" /\ Goto(r, "sign") /\ UNCHANGED <<held, tx>>
     \/ landed[held[r].sig] = "no" /\ Goto(r, "blockhash") /\ UNCHANGED <<held, tx>>
  /\ UNCHANGED <<row, pool, chainVars, faults>>

(* An unseen transaction may be retried once its blockhash is too old. *)
Expired(s) == ~HashValid(s)

(* creatorSettlementRetryState, second read: isBlockhashValid. *)
ReadBlockhash(r) ==
  /\ pc[r] = "blockhash"
  /\ \/ Expired(held[r].sig) /\ Goto(r, "sign") /\ UNCHANGED <<held, tx>>
     \/ ~Expired(held[r].sig) /\ Return(r)
  /\ UNCHANGED <<row, pool, chainVars, faults>>

(* The transaction: the server's own carries the latest blockhash, one the
   creator signed carries the blockhash it was prepared with.              *)
Sign(r) ==
  /\ pc[r] = "sign"
  /\ \E s \in 1 .. block : tx' = [tx EXCEPT ![r] = s]
  /\ Goto(r, "lock")
  /\ UNCHANGED <<row, pool, held, chainVars, faults>>

(* Fault: the lock does not compare the row with the snapshot. *)
Lockable_AnyRow(r) == row.status # "finalized"

(* The row is unchanged since the snapshot and not finalized. *)
Lockable(r) == row.status # "finalized" /\ row.sig = held[r].sig

(* The locking store.update: the new signature is saved before broadcast. *)
Lock(r) ==
  /\ pc[r] = "lock"
  /\ \/ /\ Lockable(r)
        /\ row' = Pending(tx[r])
        /\ Goto(r, "check")
        /\ UNCHANGED <<held, tx>>
     \/ /\ ~Lockable(r)
        /\ Return(r)
        /\ UNCHANGED row
  /\ UNCHANGED <<pool, chainVars, faults>>

(* submitCreatorSettlement refuses an expired blockhash. *)
CheckBlockhash(r) ==
  /\ pc[r] = "check"
  /\ IF HashValid(tx[r]) THEN Goto(r, "send") /\ UNCHANGED <<held, tx>>
                         ELSE Return(r)
  /\ UNCHANGED <<row, pool, chainVars, faults>>

(* sendRawTransaction: accepted, refused by preflight, or a network error
   that leaves the outcome unknown and is swallowed.                       *)
Send(r) ==
  /\ pc[r] = "send"
  /\ \/ /\ sent' = sent \cup {tx[r]}
        /\ Goto(r, "poll")
        /\ UNCHANGED <<held, tx>>
     \/ /\ Return(r)
        /\ UNCHANGED sent
     \/ /\ Goto(r, "poll")
        /\ UNCHANGED <<held, tx, sent>>
  /\ UNCHANGED <<row, pool, block, landed, final, faults>>

(* Poll until finalized, failed, or out of time. *)
Poll(r) ==
  /\ pc[r] = "poll"
  /\ \/ Funded(tx[r]) /\ Goto(r, "receipt") /\ UNCHANGED <<held, tx>>
     \/ ~Funded(tx[r]) /\ Return(r)
  /\ UNCHANGED <<row, pool, chainVars, faults>>

(* loadProof(submitted) after the poll. *)
LoadReceipt(r) ==
  /\ pc[r] = "receipt"
  /\ \/ /\ Goto(r, "record")
        /\ UNCHANGED <<held, tx, faults>>
     \/ /\ faults < MaxFaults
        /\ faults' = faults + 1
        /\ Return(r)
  /\ UNCHANGED <<row, pool, chainVars>>

(* The finalizing store.update: only the pending row this request locked. *)
Record(r) ==
  /\ pc[r] = "record"
  /\ \/ /\ row = Pending(tx[r])
        /\ row' = Finalized(tx[r])
        /\ held' = [held EXCEPT ![r] = Finalized(tx[r])]
        /\ Goto(r, "enroll")
        /\ UNCHANGED tx
     \/ /\ row # Pending(tx[r])
        /\ Return(r)
        /\ UNCHANGED row
  /\ UNCHANGED <<pool, chainVars, faults>>

(* enrollHolderPool: recordFundedPool creates the pool from the row's
   signature and finalization time, or throws if a different one exists.  *)
Enroll(r) ==
  /\ pc[r] = "enroll"
  /\ pool' = IF pool = NoPool THEN [sig |-> held[r].sig, at |-> held[r].at] ELSE pool
  /\ Return(r)
  /\ UNCHANGED <<row, chainVars, faults>>

(* A request dies at an await: a thrown read, a closed process. *)
Die(r) == /\ pc[r] # "idle"
          /\ faults < MaxFaults
          /\ faults' = faults + 1
          /\ Return(r)
          /\ UNCHANGED <<row, pool, chainVars>>

Continue(r) == \/ LoadProof(r) \/ Recover(r) \/ ReadStatuses(r) \/ ReadBlockhash(r)
               \/ Sign(r) \/ Lock(r) \/ CheckBlockhash(r) \/ Send(r) \/ Poll(r)
               \/ LoadReceipt(r) \/ Record(r) \/ Enroll(r)

----------------------------------------------------------------------------
(* The chain (external) *)

NewBlock == /\ block < MaxBlock
            /\ block' = block + 1
            /\ UNCHANGED <<row, pool, requestVars, sent, landed, final, faults>>

NothingPaid == \A s \in Signatures : landed[s] # "ok"

(* A sent transaction executes.  It may fail for reasons of its own; after a
   payment it always fails, because the withdrawal account exists.           *)
Land(s) == /\ s \in sent
           /\ CanLand(s)
           /\ \/ NothingPaid /\ landed' = [landed EXCEPT ![s] = "ok"]
              \/ landed' = [landed EXCEPT ![s] = "err"]
           /\ UNCHANGED <<row, pool, requestVars, block, sent, final, faults>>

Finalize(s) == /\ landed[s] # "no"
               /\ s \notin final
               /\ final' = final \cup {s}
               /\ UNCHANGED <<row, pool, requestVars, block, sent, landed, faults>>

Chain == NewBlock \/ \E s \in Signatures : Land(s) \/ Finalize(s)

Next == Chain \/ \E r \in Requests : Read(r) \/ Continue(r) \/ Die(r)

Spec == Init /\ [][Next]_vars

(* A request goes on unless it dies.  Nobody is bound to start one.        *)
FairSpec == Spec /\ \A r \in Requests : WF_vars(Continue(r))

----------------------------------------------------------------------------
(* Properties *)

(* At most one transaction of this key can still execute, and the pending row
   names it: a request that retries (v3-reward-funding.mjs:291-368) never
   leaves an earlier transaction of the key able to move the money.          *)
LiveIsRecorded == \A s \in sent : CanLand(s) => row = Pending(s)

(* The saved signature is given up only when its transaction can no longer
   execute (creatorSettlementRetryState and the compare in the lock).       *)
GuardedReplacement == [][row.sig # None /\ row'.sig # row.sig => ~CanLand(row.sig)]_vars

(* The route implements the payment life cycle: one payment, a record that
   names the transaction that paid and is never taken back, and a pool that
   is credited once, after the record, with that transaction.              *)
Lifecycle == INSTANCE PaymentLifecycle WITH
  paid <- {s \in Signatures : landed[s] = "ok"},
  recorded <- IF row.status = "finalized" THEN {row.sig} ELSE {},
  booked <- IF pool = NoPool THEN {} ELSE {pool.sig}
LifecycleSpec == Lifecycle!Spec

(* The row names a finalized payment and no request that looked before the
   payment landed still holds the right to replace it.                     *)
Settled == /\ Funded(row.sig)
           /\ \A r \in Requests : pc[r] \in {"blockhash", "sign", "lock"} => held[r].sig # row.sig

(* A settled row stays settled: no request, however late it comes back     *)
(* with what it read or signed, ever gives up the payment the row names.   *)
SettledForGood == [][Settled => Settled']_vars

(* One retry is enough: a request that has read a settled row, pending or  *)
(* finalized, books the payment in its pool unless a read fails or a       *)
(* request dies meanwhile, whatever earlier requests died between the send *)
(* and the pool and whatever the others do.  That somebody retries is not  *)
(* promised: the keeper offers only keys without a row.                    *)
RetryBooksPayment ==
  \A n \in 0 .. MaxFaults :
    (/\ Settled
     /\ \E r \in Requests : pc[r] = "prove" /\ held[r].sig = row.sig
     /\ faults = n) ~> (pool # NoPool \/ faults > n)

(* creator-settlement-transaction.mjs:99 answers retry only for a payout
   "without a recorded transaction": the row never loses a payment.       *)
PaymentStaysNamed == \A s \in Signatures : landed[s] = "ok" => row.sig = s

(* reward-scheduler.mjs:193-200 calls the funding of a pool immutable: the
   row it came from keeps the funding time the pool was created with.     *)
PoolAgreesWithRecord == pool # NoPool => pool.at = row.at
=============================================================================
