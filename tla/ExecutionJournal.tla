-------------------------- MODULE ExecutionJournal --------------------------
(***************************************************************************)
(* One key of the execution journal that the agency workers and the        *)
(* community delivery write: agency-execution-journal.mjs, and, line for   *)
(* line the same protocol, community-execution-journal.mjs.  A worker      *)
(* takes a lease, prepares and signs a transaction, saves the signed bytes *)
(* and only then broadcasts them; every later pass reconciles or           *)
(* rebroadcasts those bytes.  Workers are interleaved at every await and   *)
(* may die there.                                                          *)
(*                                                                         *)
(* A worker runs one pass at a time, so its identity stands for the random *)
(* token of the pass.  Two preparations yield different transactions even  *)
(* under one blockhash (the quotes differ): a signature is a pair of block *)
(* and worker.  Nothing on the chain (external) stops a second transaction *)
(* from paying again: that is the journal's task.                          *)
(***************************************************************************)
EXTENDS Integers, FiniteSets

CONSTANTS Workers,     \* processes that execute the key
          MaxBlock,    \* bound: blocks produced; a block is also the unit of time
          Validity,    \* blocks a blockhash stays valid after its own
          LeaseBlocks, \* leaseMs, in blocks
          MaxFaults    \* bound: died passes, failed reads, failed sends

ASSUME JournalAssumption == /\ MaxBlock \in Nat \ {0}
                            /\ Validity \in Nat
                            /\ LeaseBlocks \in Nat
                            /\ MaxFaults \in Nat

VARIABLES row,      \* the journal row of the key
          pc,       \* where each worker stands
          at,       \* the time at which its pass began
          saw,      \* its copy of the row
          tx,       \* the transaction it prepared
          block,    \* current block, and the clock
          sent,     \* transactions handed to the network
          landed,   \* signature -> "no" | "ok" | "err"
          final,    \* signatures whose outcome is finalized
          faults    \* faults so far

workerVars == <<pc, at, saw, tx>>
chainVars == <<block, sent, landed, final>>
vars == <<row, workerVars, chainVars, faults>>

Blocks == 1 .. MaxBlock
Signatures == Blocks \X Workers
None == <<0, 0>>
NoOwner == 0
Row == [status : {"none", "preparing", "pending", "finalized", "failed"},
        sig : Signatures \cup {None}, owner : Workers \cup {NoOwner}, leaseUntil : Nat,
        bytes : BOOLEAN]
NoRow == [status |-> "none", sig |-> None, owner |-> NoOwner, leaseUntil |-> 0, bytes |-> FALSE]

Steps == {"idle", "acquire", "prove", "settle", "outcome", "fail", "valid",
          "prepare", "save", "send", "reprove", "resettle"}

HashValid(s) == block <= s[1] + Validity

(* Fault: a failed transaction counts as proof. *)
Proved_AnyOutcome(s) == s \in final

(* The prove callback: a finalized, successful transaction with its exact
   balance change.                                                         *)
Proved(s) == s \in final /\ landed[s] = "ok"

TypeOK == /\ row \in Row
          /\ row.sig = None <=> row.status \in {"none", "preparing"}
          /\ pc \in [Workers -> Steps]
          /\ at \in [Workers -> 0 .. MaxBlock]
          /\ saw \in [Workers -> Row]
          /\ tx \in [Workers -> Signatures \cup {None}]
          /\ block \in Blocks
          /\ sent \in SUBSET Signatures
          /\ landed \in [Signatures -> {"no", "ok", "err"}]
          /\ final \in SUBSET Signatures
          /\ faults \in 0 .. MaxFaults

Init == /\ row = NoRow
        /\ pc = [w \in Workers |-> "idle"]
        /\ at = [w \in Workers |-> 0]
        /\ saw = [w \in Workers |-> NoRow]
        /\ tx = [w \in Workers |-> None]
        /\ block = 1
        /\ sent = {}
        /\ landed = [s \in Signatures |-> "no"]
        /\ final = {}
        /\ faults = 0

Goto(w, step) == pc' = [pc EXCEPT ![w] = step]

(* The pass answers and forgets its locals. *)
Return(w) == /\ Goto(w, "idle")
             /\ at' = [at EXCEPT ![w] = 0]
             /\ saw' = [saw EXCEPT ![w] = NoRow]
             /\ tx' = [tx EXCEPT ![w] = None]

(* The pass goes on with what it knows. *)
Continue(w, step) == Goto(w, step) /\ UNCHANGED <<at, saw, tx>>

Fault == faults < MaxFaults /\ faults' = faults + 1

----------------------------------------------------------------------------
(* A pass *)

(* The pass reads the clock before its first update is served. *)
Begin(w) == /\ pc[w] = "idle"
            /\ at' = [at EXCEPT ![w] = block]
            /\ Goto(w, "acquire")
            /\ UNCHANGED <<row, saw, tx, chainVars, faults>>

(* Fault: an expired lease is taken over even after a signature was saved. *)
Taken_LeaseOnly(w) == row.leaseUntil > at[w]

(* A signature is final for the key; a lease only until it runs out. *)
Taken(w) == row.sig # None \/ row.leaseUntil > at[w]

(* Fault: a saved transaction is looked after only while its lease runs. *)
Reconciles_LeaseOnly(w) == row.sig # None /\ row.leaseUntil > at[w]

(* Any pass looks after a saved transaction. *)
Reconciles(w) == row.sig # None

(* The acquiring store.update. *)
Acquire(w) ==
  /\ pc[w] = "acquire"
  /\ \/ /\ Taken(w) /\ Reconciles(w)
        /\ Goto(w, "prove")
        /\ saw' = [saw EXCEPT ![w] = row]
        /\ UNCHANGED <<row, at, tx>>
     \/ /\ Taken(w) /\ ~Reconciles(w)
        /\ Return(w)
        /\ UNCHANGED row
     \/ /\ ~Taken(w)
        /\ row' = [row EXCEPT !.status = "preparing", !.owner = w,
                              !.leaseUntil = at[w] + LeaseBlocks]
        /\ Continue(w, "prepare")
  /\ UNCHANGED <<chainVars, faults>>

(* prepare() and signing: a transaction under a blockhash still valid. *)
Prepare(w) ==
  /\ pc[w] = "prepare"
  /\ \E b \in 1 .. block : /\ HashValid(<<b, w>>)
                           /\ tx' = [tx EXCEPT ![w] = <<b, w>>]
  /\ Goto(w, "save")
  /\ UNCHANGED <<row, at, saw, chainVars, faults>>

(* Fault: the saving update looks at the lease alone. *)
MaySave_LeaseOnly(w) == row.leaseUntil >= block

(* No signature yet, and this pass still holds the lease. *)
MaySave(w) == row.sig = None /\ row.owner = w /\ row.leaseUntil >= block

(* The saving store.update: the signed bytes are kept before broadcast. *)
Save(w) ==
  /\ pc[w] = "save"
  /\ \/ /\ MaySave(w)
        /\ row' = [row EXCEPT !.status = "pending", !.sig = tx[w], !.bytes = TRUE]
        /\ saw' = [saw EXCEPT ![w] = row']
        /\ Goto(w, "send")
        /\ UNCHANGED <<at, tx>>
     \/ /\ ~MaySave(w)
        /\ Return(w)
        /\ UNCHANGED row
  /\ UNCHANGED <<chainVars, faults>>

(* sendRawTransaction of the saved bytes; every error is swallowed. *)
Send(w) ==
  /\ pc[w] = "send"
  /\ \/ sent' = sent \cup {saw[w].sig} /\ UNCHANGED faults
     \/ Fault /\ UNCHANGED sent
  /\ Continue(w, "reprove")
  /\ UNCHANGED <<row, block, landed, final>>

(* reconcile(), the proof: at the start of a pass and again after a send. *)
Prove(w) ==
  /\ \/ /\ pc[w] = "prove"
        /\ \/ Proved(saw[w].sig) /\ Continue(w, "settle") /\ UNCHANGED faults
           \/ ~Proved(saw[w].sig) /\ Continue(w, "outcome") /\ UNCHANGED faults
           \/ Fault /\ Continue(w, "outcome")
     \/ /\ pc[w] = "reprove"
        /\ \/ Proved(saw[w].sig) /\ Continue(w, "resettle") /\ UNCHANGED faults
           \/ ~Proved(saw[w].sig) /\ Return(w) /\ UNCHANGED faults
           \/ Fault /\ Return(w)
  /\ UNCHANGED <<row, chainVars>>

(* reconcile(), the update: the bytes are dropped from a finalized row. *)
Settle(w) ==
  /\ pc[w] \in {"settle", "resettle"}
  /\ \/ /\ row.sig = saw[w].sig
        /\ row' = [row EXCEPT !.status = "finalized", !.bytes = FALSE]
        /\ Return(w)
     \/ /\ row.sig # saw[w].sig
        /\ IF pc[w] = "settle" THEN Continue(w, "outcome") ELSE Return(w)
        /\ UNCHANGED row
  /\ UNCHANGED <<chainVars, faults>>

(* Fault: a finalized transaction without proof is taken for a failure. *)
Refused_AnyOutcome(s) == s \in final
Refused(s) == s \in final /\ landed[s] = "err"

(* getSignatureStatuses of the saved signature. *)
ReadOutcome(w) ==
  /\ pc[w] = "outcome"
  /\ LET s == saw[w].sig
     IN \/ Refused(s) /\ Continue(w, "fail")
        \/ s \in final /\ ~Refused(s) /\ Return(w)
        \/ s \notin final /\ ~saw[w].bytes /\ Return(w)
        \/ s \notin final /\ saw[w].bytes /\ Continue(w, "valid")
  /\ UNCHANGED <<row, chainVars, faults>>

(* The update that marks a transaction the chain finally refused. *)
MarkFailed(w) ==
  /\ pc[w] = "fail"
  /\ row' = IF row.sig = saw[w].sig THEN [row EXCEPT !.status = "failed"] ELSE row
  /\ Return(w)
  /\ UNCHANGED <<chainVars, faults>>

(* isBlockhashValid: the saved bytes are worth sending again. *)
ReadBlockhash(w) ==
  /\ pc[w] = "valid"
  /\ \/ HashValid(saw[w].sig) /\ Continue(w, "send")
     \/ ~HashValid(saw[w].sig) /\ Return(w)
  /\ UNCHANGED <<row, chainVars, faults>>

(* A pass dies at an await. *)
Die(w) == /\ pc[w] # "idle"
          /\ Fault
          /\ Return(w)
          /\ UNCHANGED <<row, chainVars>>

Advance(w) == \/ Acquire(w) \/ Prepare(w) \/ Save(w) \/ Send(w) \/ Prove(w) \/ Settle(w)
              \/ ReadOutcome(w) \/ MarkFailed(w) \/ ReadBlockhash(w)

----------------------------------------------------------------------------
(* The chain (external) *)

NewBlock == /\ block < MaxBlock
            /\ block' = block + 1
            /\ UNCHANGED <<row, workerVars, sent, landed, final, faults>>

Land(s) == /\ s \in sent
           /\ landed[s] = "no"
           /\ HashValid(s)
           /\ \E outcome \in {"ok", "err"} : landed' = [landed EXCEPT ![s] = outcome]
           /\ UNCHANGED <<row, workerVars, block, sent, final, faults>>

Finalize(s) == /\ landed[s] # "no"
               /\ s \notin final
               /\ final' = final \cup {s}
               /\ UNCHANGED <<row, workerVars, block, sent, landed, faults>>

Chain == NewBlock \/ \E s \in Signatures : Land(s) \/ Finalize(s)

Next == Chain \/ \E w \in Workers : Begin(w) \/ Advance(w) \/ Die(w)

Spec == Init /\ [][Next]_vars

(* The worker loops run a pass every interval, a pass that does not die goes
   on, and a landed transaction is finalized.                               *)
FairSpec == /\ Spec
            /\ \A w \in Workers : WF_vars(Begin(w)) /\ WF_vars(Advance(w))
            /\ \A s \in Signatures : WF_vars(Finalize(s))

----------------------------------------------------------------------------
(* Properties *)

(* agency-execution-journal.mjs:11-13: what was ever broadcast is what the
   row holds; no pass creates a replacement, whoever took over the lease.   *)
OnlyJournaledIsSent == \A s \in sent : s = row.sig

(* A key marked failed-finalized moved no money and never will. *)
FailedMeansUnpaid ==
    row.status = "failed" => row.sig \in final /\ \A s \in Signatures : landed[s] # "ok"

(* The journal implements the payment life cycle, without the help of an
   account on the chain: one payment, then its record, never taken back.   *)
Lifecycle == INSTANCE PaymentLifecycle WITH
  paid <- {s \in Signatures : landed[s] = "ok"},
  recorded <- IF row.status = "finalized" THEN {row.sig} ELSE {},
  booked <- {}
LifecycleSpec == Lifecycle!Spec

(* Whatever passes died around it, a payment is recorded; and saved bytes
   that a pass died before sending are sent by another, or expire.          *)
DeathsAreMadeGood ==
  /\ (\E s \in Signatures : landed[s] = "ok") ~> row.status = "finalized"
  /\ row.status = "pending" ~> row.sig \in sent \/ ~HashValid(row.sig)
=============================================================================
