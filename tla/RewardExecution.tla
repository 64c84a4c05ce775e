--------------------------- MODULE RewardExecution ---------------------------
(***************************************************************************)
(* The payment of prepared reward rows (execute of reward-scheduler.mjs)   *)
(* by executors that run at the same time: the worker, which passes over   *)
(* every row once a minute, and the requests of X claims, which execute    *)
(* the row they have recorded (routes/v3-x-claims.mjs).                    *)
(*                                                                         *)
(* Each access to the ledger is one store.transaction and one action here. *)
(* Between two of them an executor keeps the plan it has cloned and the    *)
(* answer of the chain, and the other may write the same row.  The chain   *)
(* is external: a cycle can be created when the vault covers it, a leaf is *)
(* paid once, and a send whose outcome is unknown may land later.          *)
(***************************************************************************)
EXTENDS Integers

CONSTANTS
    Worker, Requests,   \* executors
    Holders,            \* rows of holder periods (from RewardPeriods)
    Claims,             \* rows of X claims
    Leaves,             \* row -> number of leaves of its manifest
    Place,              \* row -> place in the order of state.schedules
    MaxPasses,          \* bound: passes of requests
    MaxCrashes          \* bound

Schedules == Holders \cup Claims
Executors == {Worker} \cup Requests
LeavesOf(s) == 1 .. Leaves[s]
Payments == UNION {{s} \X LeavesOf(s) : s \in Schedules}

ASSUME ExecutionAssumption ==
    /\ Holders \cap Claims = {} /\ Worker \notin Requests
    /\ Leaves \in [Schedules -> Nat \ {0}]
    /\ Place \in [Schedules -> Int]
    /\ \A s, t \in Schedules : Place[s] = Place[t] => s = t
    /\ \A S \in SUBSET Schedules :
          S # {} => \E s \in S : \A t \in S : Place[s] <= Place[t]
    /\ MaxPasses \in Nat /\ MaxCrashes \in Nat

VARIABLES
    rows,       \* state.schedules: status, and the record of each leaf
    covered,    \* rows whose total the vault covers
    excluded,   \* holder rows whose manifest names a wallet now excluded
    cycles,     \* chain: rows with a cycle account
    paid,       \* chain: leaves with a payment account
    sent,       \* chain: leaves sent with unknown outcome
    pc,         \* the next step of each executor
    plans,      \* the rows it has still to execute
    leaf,       \* the leaf it is at
    passes, crashes

ledger == <<rows, covered, excluded>>
chain == <<cycles, paid, sent>>
bounds == <<passes, crashes>>
vars == <<ledger, chain, pc, plans, leaf, bounds>>

Statuses == {"none", "prepared", "distributing", "blocked", "paid"}
Steps == {"idle", "screen", "hold", "cycle", "mark", "look", "submit", "book", "refuse", "close"}
Row(s) == [status : Statuses, payments : [LeavesOf(s) -> {"none", "pending", "paid"}]]

(* The row an executor is at: the first in the order of the ledger.        *)
Current(e) == CHOOSE s \in plans[e] : \A t \in plans[e] : Place[s] <= Place[t]

(* Types; an executor that runs has a plan, and is at a leaf of its row.   *)
TypeOK ==
    /\ DOMAIN rows = Schedules /\ \A s \in Schedules : rows[s] \in Row(s)
    /\ covered \subseteq Schedules /\ excluded \subseteq Holders
    /\ cycles \subseteq Schedules /\ paid \subseteq Payments /\ sent \subseteq Payments
    /\ pc \in [Executors -> Steps]
    /\ plans \in [Executors -> SUBSET Schedules]
    /\ leaf \in [Executors -> Nat]
    /\ passes \in 0 .. MaxPasses /\ crashes \in 0 .. MaxCrashes
    /\ \A e \in Executors : pc[e] # "idle" =>
          /\ plans[e] # {}
          /\ pc[e] \in {"look", "submit", "book", "refuse"} => leaf[e] \in LeavesOf(Current(e))

Init ==
    /\ rows = [s \in Schedules |->
                 [status |-> "none", payments |-> [i \in LeavesOf(s) |-> "none"]]]
    /\ covered = {} /\ excluded = {}
    /\ cycles = {} /\ paid = {} /\ sent = {}
    /\ pc = [e \in Executors |-> "idle"]
    /\ plans = [e \in Executors |-> {}]
    /\ leaf = [e \in Executors |-> 0]
    /\ passes = 0 /\ crashes = 0

-----------------------------------------------------------------------------
(* What happens around the executors *)

(* prepare or recordDirectFunded stores a row with its manifest.           *)
Record(s) ==
    /\ rows[s].status = "none"
    /\ rows' = [rows EXCEPT ![s].status = "prepared"]
    /\ UNCHANGED <<covered, excluded, chain, pc, plans, leaf, bounds>>

(* The vault holds enough for a row.                                       *)
Cover(s) ==
    /\ s \notin covered
    /\ covered' = covered \cup {s}
    /\ UNCHANGED <<rows, excluded, chain, pc, plans, leaf, bounds>>

(* A registration excludes a wallet that a manifest has as a recipient.    *)
Exclude(s) ==
    /\ excluded' = excluded \cup {s}
    /\ s \notin excluded
    /\ UNCHANGED <<rows, covered, chain, pc, plans, leaf, bounds>>

(* A transaction reported as unknown lands after all.                      *)
Land(p) ==
    /\ p \notin paid
    /\ paid' = paid \cup {p}
    /\ UNCHANGED <<ledger, cycles, sent, pc, plans, leaf, bounds>>

(* The process restarts: worker and requests share it.                     *)
Crash ==
    /\ crashes < MaxCrashes
    /\ \E e \in Executors : pc[e] # "idle"
    /\ pc' = [e \in Executors |-> "idle"]
    /\ plans' = [e \in Executors |-> {}]
    /\ crashes' = crashes + 1
    /\ UNCHANGED <<ledger, chain, leaf, passes>>

-----------------------------------------------------------------------------
(* One pass of an executor *)

Goto(e, step) == pc' = [pc EXCEPT ![e] = step]

(* The loop over the plans goes on.                                        *)
NextPlan(e) ==
    /\ plans' = [plans EXCEPT ![e] = @ \ {Current(e)}]
    /\ Goto(e, IF plans'[e] = {} THEN "idle" ELSE "screen")
    /\ UNCHANGED leaf

(* Fault: the loop over the leaves ends one too late.                      *)
NextLeaf_Past(e) ==
    /\ IF leaf[e] > Leaves[Current(e)] THEN Goto(e, "close") /\ UNCHANGED leaf
       ELSE Goto(e, "look") /\ leaf' = [leaf EXCEPT ![e] = @ + 1]
    /\ UNCHANGED plans

(* The loop over the leaves goes on.                                       *)
NextLeaf(e) ==
    /\ IF leaf[e] = Leaves[Current(e)] THEN Goto(e, "close") /\ UNCHANGED leaf
       ELSE Goto(e, "look") /\ leaf' = [leaf EXCEPT ![e] = @ + 1]
    /\ UNCHANGED plans

(* Fault: a row of which something is paid is not taken up again.          *)
Selected_Prepared(e) ==
    {s \in IF e = Worker THEN Schedules ELSE Claims : rows[s].status = "prepared"}

(* Fault: a request takes up any row.                                      *)
Selected_AnyRow(e) == {s \in Schedules : rows[s].status \in {"prepared", "distributing"}}

(* The rows of a pass.                                                     *)
Selected(e) ==
    {s \in IF e = Worker THEN Schedules ELSE Claims : rows[s].status \in {"prepared", "distributing"}}

(* The worker takes every row, a request the one it has recorded.          *)
Begin(e) ==
    /\ pc[e] = "idle"
    /\ IF e = Worker THEN Selected(e) # {} /\ plans' = [plans EXCEPT ![e] = Selected(e)] /\ UNCHANGED passes
       ELSE /\ passes < MaxPasses /\ passes' = passes + 1
            /\ \E s \in Selected(e) : plans' = [plans EXCEPT ![e] = {s}]
    /\ Goto(e, "screen")
    /\ UNCHANGED <<ledger, chain, leaf, crashes>>

(* Does a holder row have a recipient that is excluded?                    *)
Screen(e) ==
    /\ pc[e] = "screen"
    /\ Goto(e, IF Current(e) \in excluded THEN "hold" ELSE "cycle")
    /\ UNCHANGED <<ledger, chain, plans, leaf, bounds>>

(* It is blocked and passed over.                                          *)
Hold(e) ==
    /\ pc[e] = "hold"
    /\ rows' = [rows EXCEPT ![Current(e)].status = "blocked"]
    /\ NextPlan(e)
    /\ UNCHANGED <<covered, excluded, chain, bounds>>

(* ensureCycle: the cycle is there, or is created and verified.            *)
EnsureCycle(e) ==
    /\ pc[e] = "cycle"
    /\ Current(e) \in cycles \cup covered
    /\ cycles' = cycles \cup {Current(e)}
    /\ Goto(e, "mark")
    /\ UNCHANGED <<ledger, paid, sent, plans, leaf, bounds>>

(* It throws, and nothing catches it: the rest of the pass is given up,    *)
(* the rows behind this one too.  The cycle may exist nevertheless.        *)
CycleThrows(e) ==
    /\ pc[e] = "cycle"
    /\ cycles' \in {cycles} \cup {cycles \cup {s} : s \in covered \cap {Current(e)}}
    /\ Goto(e, "idle")
    /\ plans' = [plans EXCEPT ![e] = {}]
    /\ UNCHANGED <<ledger, paid, sent, leaf, bounds>>

Mark(e) ==
    /\ pc[e] = "mark"
    /\ rows' = [rows EXCEPT ![Current(e)].status = "distributing"]
    /\ leaf' = [leaf EXCEPT ![e] = 1]
    /\ Goto(e, "look")
    /\ UNCHANGED <<covered, excluded, chain, plans, bounds>>

(* Is the leaf recorded as paid already?                                   *)
Look(e) ==
    /\ pc[e] = "look"
    /\ IF rows[Current(e)].payments[leaf[e]] = "paid" THEN NextLeaf(e)
       ELSE Goto(e, "submit") /\ UNCHANGED <<plans, leaf>>
    /\ UNCHANGED <<ledger, chain, bounds>>

(* submitLeaf finds the payment finalized, or pays and verifies it.        *)
SubmitLeaf(e) ==
    /\ pc[e] = "submit"
    /\ paid' = paid \cup {<<Current(e), leaf[e]>>}
    /\ Goto(e, "book")
    /\ UNCHANGED <<ledger, cycles, sent, plans, leaf, bounds>>

(* It throws: before the send, or with the outcome unknown.                *)
SubmitThrows(e) ==
    /\ pc[e] = "submit"
    /\ sent' \in {sent, sent \cup {<<Current(e), leaf[e]>>}}
    /\ Goto(e, "refuse")
    /\ UNCHANGED <<ledger, cycles, paid, plans, leaf, bounds>>

Book(e) ==
    /\ pc[e] = "book"
    /\ rows' = [rows EXCEPT ![Current(e)].payments[leaf[e]] = "paid"]
    /\ NextLeaf(e)
    /\ UNCHANGED <<covered, excluded, chain, bounds>>

(* The handler of the error writes whatever the record says by now.        *)
Refuse(e) ==
    /\ pc[e] = "refuse"
    /\ rows' = [rows EXCEPT ![Current(e)].payments[leaf[e]] = "pending"]
    /\ NextLeaf(e)
    /\ UNCHANGED <<covered, excluded, chain, bounds>>

(* Fault: one payment is enough for the row.                               *)
Complete_Some(r) == \E i \in DOMAIN r.payments : r.payments[i] = "paid"
Complete(r) == \A i \in DOMAIN r.payments : r.payments[i] = "paid"

Close(e) ==
    /\ pc[e] = "close"
    /\ rows' = IF Complete(rows[Current(e)]) THEN [rows EXCEPT ![Current(e)].status = "paid"] ELSE rows
    /\ NextPlan(e)
    /\ UNCHANGED <<covered, excluded, chain, bounds>>

Advance(e) ==
    \/ Screen(e) \/ Hold(e) \/ EnsureCycle(e) \/ CycleThrows(e) \/ Mark(e) \/ Look(e)
    \/ SubmitLeaf(e) \/ SubmitThrows(e) \/ Book(e) \/ Refuse(e) \/ Close(e)

Next ==
    \/ \E s \in Schedules : Record(s) \/ Cover(s)
    \/ \E s \in Holders : Exclude(s)
    \/ \E p \in sent : Land(p)
    \/ \E e \in Executors : Begin(e) \/ Advance(e)
    \/ Crash

Spec == Init /\ [][Next]_vars

(* The worker begins a pass every minute and a pass goes on; an RPC that   *)
(* is asked again and again answers in the end; every vault is covered in  *)
(* the end.  Requests owe nothing.                                         *)
FairSpec ==
    /\ Spec
    /\ WF_vars(Begin(Worker)) /\ WF_vars(Advance(Worker))
    /\ SF_vars(EnsureCycle(Worker)) /\ SF_vars(SubmitLeaf(Worker))
    /\ \A s \in Schedules : WF_vars(Cover(s))

-----------------------------------------------------------------------------
(* Properties *)

(* What the ledger calls paid is paid on the chain: a leaf recorded so,    *)
(* and every leaf of a row that is closed so, though another executor may  *)
(* overwrite records meanwhile (reward-scheduler.mjs:402-419).             *)
PaidMeansOnChain ==
    \A s \in Schedules : \A i \in LeavesOf(s) :
       rows[s].payments[i] = "paid" \/ rows[s].status = "paid" => <<s, i>> \in paid

(* A holder row that was held back because of an excluded recipient        *)
(* (reward-scheduler.mjs:392-397) stays held back, and no leaf of it is    *)
(* paid any more, whichever executors were under way at that moment: only  *)
(* a send of before, whose outcome was unknown, may still land.            *)
HeldBackStays ==
    [][\A s \in Schedules : rows[s].status = "blocked" =>
          /\ rows'[s].status = "blocked"
          /\ \A i \in LeavesOf(s) : <<s, i>> \in paid' \ paid => <<s, i>> \in sent]_vars

(* Every row is paid in the end, or visibly held back: across crashes,     *)
(* failed sends and requests that write the same row.  The worker gives up *)
(* a pass at a cycle it cannot create (:400), so this takes that every     *)
(* vault is covered, not only the row's own.                               *)
PreparedIsPaid ==
    \A s \in Schedules :
       rows[s].status = "prepared" ~> rows[s].status \in {"paid", "blocked"}

(* docs/automatic-rewards.md: a payout is marked paid only after its       *)
(* evidence is observed, so a row that is paid has it for every leaf.  The *)
(* handler of an error (reward-scheduler.mjs:411) overwrites the evidence  *)
(* that another executor has stored, and a paid row is not taken up again. *)
PaidRowHasEvidence ==
    \A s \in Schedules : rows[s].status = "paid" => Complete(rows[s])
=============================================================================
