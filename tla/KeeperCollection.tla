-------------------------- MODULE KeeperCollection --------------------------
(***************************************************************************)
(* The collection of the Pump creator fees of one mint                     *)
(* (routes/keeper-collection.mjs with collectPumpCreatorFees of            *)
(* fee-router-service.mjs and sendJournaledCollection).  Requests to       *)
(* collect run at the same time: the collector gives up on one after 120 s *)
(* and starts another while the server still polls for the first.  What    *)
(* keeps them apart is one alert per mint, which every request overwrites  *)
(* when it ends, and the table of collections, of which none may be left   *)
(* without a finalized settlement.                                         *)
(*                                                                         *)
(* A signature is a number, given in the order of signing.  The network    *)
(* and the chain are external.  Of a settlement only its status is kept:   *)
(* which transaction it names is the protocol of DisbursementRoute.        *)
(***************************************************************************)
EXTENDS Integers, FiniteSets

CONSTANTS Requests,       \* requests to /api/keeper/collect that can overlap
          MaxSignatures,  \* bound: collections signed
          MaxCrashes      \* bound: restarts of the server

ASSUME KeeperAssumption == MaxSignatures \in Nat \ {0} /\ MaxCrashes \in Nat

VARIABLES alert,        \* state.alerts['fee-collect:' + mint]
          collections,  \* signature -> status of its row
          settlements,  \* signature -> status of its row in v3Settlements
          outcome,      \* chain: signature -> what became of its transaction
          pc,           \* where each request stands
          signed,       \* the signature it polls for
          crashes

ledger == <<alert, collections, settlements>>
vars == <<ledger, outcome, pc, signed, crashes>>

Signatures == 1 .. MaxSignatures
NoSignature == 0
Free == {"none", "complete", "nothing", "retryable"}
Alert == [status : Free \cup {"executing", "review"}, sig : Signatures \cup {NoSignature}]

TypeOK ==
    /\ alert \in Alert
    /\ collections \in [Signatures -> {"none", "pending", "collected"}]
    /\ settlements \in [Signatures -> {"none", "pending", "finalized"}]
    /\ outcome \in [Signatures -> {"unsent", "open", "ok", "err", "expired"}]
    /\ pc \in [Requests -> {"idle", "build", "construct", "sign", "send", "poll", "prove"}]
    /\ signed \in [Requests -> Signatures \cup {NoSignature}]
    /\ crashes \in 0 .. MaxCrashes
    /\ \A r \in Requests : pc[r] \in {"send", "poll", "prove"} => signed[r] \in Signatures
    /\ \A s \in Signatures : outcome[s] # "unsent" => collections[s] # "none"

Init ==
    /\ alert = [status |-> "none", sig |-> NoSignature]
    /\ collections = [s \in Signatures |-> "none"]
    /\ settlements = [s \in Signatures |-> "none"]
    /\ outcome = [s \in Signatures |-> "unsent"]
    /\ pc = [r \in Requests |-> "idle"]
    /\ signed = [r \in Requests |-> NoSignature]
    /\ crashes = 0

(* A recorded collection whose settlement is not finalized.                *)
Unsettled(s) == collections[s] # "none" /\ settlements[s] # "finalized"

Goto(r, step) == pc' = [pc EXCEPT ![r] = step]

-----------------------------------------------------------------------------
(* A request to collect *)

(* The lock of a collection.                                               *)
Start(r) ==
    /\ pc[r] = "idle"
    /\ alert.status \in Free
    /\ ~ \E s \in Signatures : Unsettled(s)
    /\ alert' = [status |-> "executing", sig |-> NoSignature]
    /\ Goto(r, "build")
    /\ UNCHANGED <<collections, settlements, outcome, signed, crashes>>

(* The catch of a request: whoever holds the alert, its status becomes     *)
(* this one.                                                               *)
Fail(r, status) ==
    /\ alert' = [alert EXCEPT !.status = status]
    /\ Goto(r, "idle")
    /\ UNCHANGED <<collections, settlements, outcome, signed, crashes>>

(* The launch and the ledger are read again; either can refuse.            *)
Build(r) ==
    /\ pc[r] = "build"
    /\ \/ Fail(r, "review")
       \/ /\ ~ \E s \in Signatures : Unsettled(s)
          /\ Goto(r, "construct")
          /\ UNCHANGED <<ledger, outcome, signed, crashes>>

(* The reads of the chain that follow, which do not look at the ledger any *)
(* more: readiness (a 503 is retryable), the curve, the balance, and       *)
(* whether there is anything to collect.                                   *)
Construct(r) ==
    /\ pc[r] = "construct"
    /\ \/ \E status \in {"retryable", "review"} : Fail(r, status)
       \/ /\ alert' = [status |-> "nothing", sig |-> NoSignature]
          /\ Goto(r, "idle")
          /\ UNCHANGED <<collections, settlements, outcome, signed, crashes>>
       \/ Goto(r, "sign") /\ UNCHANGED <<ledger, outcome, signed, crashes>>

(* Fault: the signature of another request is not looked at.               *)
MayBroadcast_AnySigner == alert.status = "executing"

(* The lock is still one that nobody has signed under.                     *)
MayBroadcast == alert.status = "executing" /\ alert.sig = NoSignature

(* Fault: the row is left to the result of the request.                    *)
Journaled_Later(s) == collections

(* The table with a signed collection.                                     *)
Journaled(s) == [collections EXCEPT ![s] = "pending"]

(* onSigned: the signed identity is saved before it is sent.               *)
OnSigned(r) ==
    /\ pc[r] = "sign"
    /\ \/ ~MayBroadcast /\ Fail(r, "review")
       \/ /\ MayBroadcast
          /\ \E s \in Signatures :
                /\ collections[s] = "none" /\ \A t \in 1 .. s - 1 : collections[t] # "none"
                /\ collections' = Journaled(s)
                /\ alert' = [alert EXCEPT !.sig = s]
                /\ signed' = [signed EXCEPT ![r] = s]
          /\ Goto(r, "send")
          /\ UNCHANGED <<settlements, outcome, crashes>>

(* sendRawTransaction; its error is kept and the polls go on.              *)
Send(r) ==
    /\ pc[r] = "send"
    /\ outcome' = [outcome EXCEPT ![signed[r]] = "open"]
    /\ Goto(r, "poll")
    /\ UNCHANGED <<ledger, signed, crashes>>

(* Finalized without an error.                                             *)
Confirmed(s) == outcome[s] = "ok"

(* The polls end: finalized, failed on chain, or still unknown after the   *)
(* last one.                                                               *)
Poll(r) ==
    /\ pc[r] = "poll"
    /\ \/ Confirmed(signed[r]) /\ Goto(r, "prove") /\ UNCHANGED <<ledger, outcome, signed, crashes>>
       \/ Fail(r, "review")

(* The proof of a finalized collection is read, or cannot be, and the row  *)
(* and the alert are written with what this request knows.                 *)
Result(r) ==
    /\ pc[r] = "prove"
    /\ \E proved \in BOOLEAN :
          /\ collections' = [collections EXCEPT ![signed[r]] = IF proved THEN "collected" ELSE "pending"]
          /\ alert' = [status |-> IF proved THEN "complete" ELSE "review", sig |-> signed[r]]
    /\ Goto(r, "idle")
    /\ UNCHANGED <<settlements, outcome, signed, crashes>>

-----------------------------------------------------------------------------
(* Reconciliation and settlement *)

(* Fault: only the collection the alert names can be reconciled.           *)
Reconcilable_OfAlert(s) == collections[s] # "none" /\ alert.sig = s

(* Any recorded collection can, whoever holds the alert.                   *)
Reconcilable(s) == collections[s] # "none"

(* reconcile-v3-collection, with the finalized proof of the chain.         *)
Reconcile(s) ==
    /\ Reconcilable(s)
    /\ Confirmed(s)
    /\ collections' = [collections EXCEPT ![s] = "collected"]
    /\ alert' = [status |-> "complete", sig |-> s]
    /\ UNCHANGED <<settlements, outcome, pc, signed, crashes>>

(* The collector asks for it as long as the row is pending.                *)
ReconcilePending(s) == collections[s] = "pending" /\ Reconcile(s)

(* The lock of a settlement.                                               *)
Settle(s) ==
    /\ collections[s] = "collected"
    /\ settlements[s] = "none"
    /\ settlements' = [settlements EXCEPT ![s] = "pending"]
    /\ UNCHANGED <<alert, collections, outcome, pc, signed, crashes>>

(* A finalized settlement is recorded: by the request that sent it, by one *)
(* that recovers it, or by reconcile-v3-settlement, which also takes one   *)
(* that nobody recorded.                                                   *)
Settled(s) ==
    /\ \/ settlements[s] = "pending"
       \/ settlements[s] = "none" /\ collections[s] = "collected"
    /\ settlements' = [settlements EXCEPT ![s] = "finalized"]
    /\ UNCHANGED <<alert, collections, outcome, pc, signed, crashes>>

-----------------------------------------------------------------------------
(* The network and the process *)

Land(s) ==
    /\ outcome[s] = "open"
    /\ \E result \in {"ok", "err", "expired"} : outcome' = [outcome EXCEPT ![s] = result]
    /\ UNCHANGED <<ledger, pc, signed, crashes>>

(* The server restarts: its requests are gone, the ledger stays.           *)
Crash ==
    /\ crashes < MaxCrashes
    /\ \E r \in Requests : pc[r] # "idle"
    /\ pc' = [r \in Requests |-> "idle"]
    /\ crashes' = crashes + 1
    /\ UNCHANGED <<ledger, outcome, signed>>

Next ==
    \/ \E r \in Requests :
          \/ Start(r) \/ Build(r) \/ Construct(r) \/ OnSigned(r) \/ Send(r)
          \/ Poll(r) \/ Result(r)
    \/ \E s \in Signatures : Reconcile(s) \/ Settle(s) \/ Settled(s) \/ Land(s)
    \/ Crash

Spec == Init /\ [][Next]_vars

(* The collector reconciles what is listed as pending on every tick, and a *)
(* request that polls ends after its last poll.  Nothing else is promised: *)
(* a settlement left pending waits for its creator or an operator.         *)
FairSpec ==
    /\ Spec
    /\ \A s \in Signatures : WF_vars(ReconcilePending(s))
    /\ \A r \in Requests : WF_vars(Poll(r)) /\ WF_vars(Result(r))

-----------------------------------------------------------------------------
(* Properties *)

(* A mint has at most one recorded collection whose settlement is not      *)
(* finalized, however requests overlap, end late and overwrite the alert   *)
(* (what keeper-collection.mjs:111-113 and :129 are for).                  *)
OneUnsettled == \A s, t \in Signatures : Unsettled(s) /\ Unsettled(t) => s = t

(* The ledger claims no more than the chain did: a row that is collected,  *)
(* or that a settlement divides, is a collection that landed, whichever    *)
(* request wrote the row last (keeper-collection.mjs:129-160).             *)
SettledHasLanded ==
    \A s \in Signatures :
       collections[s] = "collected" \/ settlements[s] # "none" => outcome[s] = "ok"

(* A collection that landed ends recorded as collected for good: neither a *)
(* restart, nor a request that gave up, nor one that ends late and writes  *)
(* an older answer over the reconciled row, loses it.                      *)
LandedIsCollected ==
    \A s \in Signatures : outcome[s] = "ok" ~> [](collections[s] = "collected")
=============================================================================
