---------------------------- MODULE RewardPeriods ----------------------------
(***************************************************************************)
(* The holder reward periods of one mint (server/reward-scheduler.mjs).    *)
(* Verified fundings wait in pools; the worker of                          *)
(* background-maintenance.mjs opens periods, and when one has closed it    *)
(* gives the period every waiting pool funded before the cutoff, in one    *)
(* manifest, or leaves the pools for a later period.  An operator's change *)
(* of the period length or of the eligibility policy registers the program *)
(* again in the middle of a period.                                        *)
(*                                                                         *)
(* Every action is one store.transaction, which is atomic across processes *)
(* (automatic-reward-store.mjs:54).  Snapshots of the holders and price    *)
(* quotes are inputs: they decide whether a funded period is paid, blocked *)
(* until the next pass, or deferred.  A manifest is the set of its pools.  *)
(* Payment itself is one action here and RewardExecution in detail.        *)
(***************************************************************************)
EXTENDS Integers, FiniteSetsExt

CONSTANTS
    Fundings,       \* ids of verified fundings
    Amounts,        \* amounts of a funding
    Lengths,        \* period lengths an operator may choose
    MaxLength,      \* bound: the largest of them
    QaLength,       \* the length of the short window of quality assurance
    Policies,       \* eligibility policies
    Minimum,        \* policy -> smallest pool that is distributed
    PayoutDelay,    \* time between cutoff and payout
    MaxTime,        \* bound: the clock
    MaxChanges      \* bound: registrations

ASSUME PeriodAssumption ==
    /\ Amounts \subseteq Nat
    /\ MaxLength \in Nat
    /\ Lengths \subseteq 1 .. MaxLength
    /\ QaLength \in Nat
    /\ Minimum \in [Policies -> Nat]
    /\ PayoutDelay \in Nat
    /\ MaxTime \in Nat
    /\ MaxChanges \in Nat
    /\ IsFiniteSet(Fundings)

Starts == 0 .. MaxTime + MaxLength

VARIABLES
    now,        \* seconds, in units of the shortest period
    program,    \* state.programs[mint]
    pools,      \* state.rewardPools
    rows,       \* state.schedules, by the start of the period in their id
    opened,     \* places used in the insertion order of state.schedules
    changes     \* registrations so far

vars == <<now, program, pools, rows, opened, changes>>

(* "firsts" remembers every first period these terms have had: what a      *)
(* caller may have read before it registers.                               *)
Program == [length : Lengths, policy : Policies, first : Nat, firsts : SUBSET Nat]
NoProgram == [length |-> 0]

Pool == [status : {"none", "available", "assigned"}, amount : Nat, at : Nat]
NoPool == [status |-> "none", amount |-> 0, at |-> 0]

Statuses == {"none", "indexing", "blocked", "deferred", "skipped",
             "calculating", "prepared", "paid"}
Row == [status : Statuses, end : Nat, pools : SUBSET Fundings, place : Nat]
NoRow == [status |-> "none", end |-> 0, pools |-> {}, place |-> 0]

(* The row has a manifest. *)
Prepared(r) == r.pools # {}

(* Types; a row that will be paid has a manifest, and only a closed period *)
(* has one.                                                                *)
TypeOK ==
    /\ now \in 0 .. MaxTime
    /\ program \in Program \cup {NoProgram}
    /\ pools \in [Fundings -> Pool]
    /\ rows \in [Starts -> Row]
    /\ opened \in Nat
    /\ changes \in 0 .. MaxChanges
    /\ \A s \in Starts :
          /\ rows[s].status \in {"calculating", "prepared", "paid"} => Prepared(rows[s])
          /\ Prepared(rows[s]) => rows[s].end <= now

Init ==
    /\ now = 0
    /\ program = NoProgram
    /\ pools = [p \in Fundings |-> NoPool]
    /\ rows = [s \in Starts |-> NoRow]
    /\ opened = 0
    /\ changes = 0

-----------------------------------------------------------------------------
Floor(t, length) == length * (t \div length)

(* The first period that begins after the registration.                    *)
FirstStart(t, length) == Floor(t + length - 1, length)

Waiting(r) == r.status \in {"indexing", "blocked"} /\ ~Prepared(r)

(* Fault: rows of the replaced policy stay as they are.                    *)
Replan_Kept(r, s, length, first) == r

(* What a change of policy does to a row without a manifest: it starts     *)
(* over if the new periods contain it, and is retired otherwise.           *)
Replan(r, s, length, first) ==
    IF Prepared(r) \/ r.status \notin {"indexing", "blocked", "deferred"} THEN r
    ELSE IF r.end - s = length /\ s >= first THEN [r EXCEPT !.status = "indexing"]
    ELSE [r EXCEPT !.status = "skipped"]

(* register, by the worker's migration or by the enrolment of a funding.   *)
(* Both decide from an earlier read.  New terms replan the rows and begin  *)
(* with the next period.  Under the terms already in force only the first  *)
(* period is written: a caller that read other terms brings the next one,  *)
(* and one that only excludes a wallet brings back the one it has read.    *)
Register(length, policy) ==
    /\ changes < MaxChanges
    /\ LET next == FirstStart(now, length)
           inForce == /\ program # NoProgram
                      /\ program.length = length
                      /\ program.policy = policy
       IN  \/ /\ ~inForce
              /\ rows' = [s \in Starts |-> Replan(rows[s], s, length, next)]
              /\ program' = [length |-> length, policy |-> policy,
                             first |-> next, firsts |-> {next}]
           \/ /\ inForce
              /\ \E first \in program.firsts \cup {next} :
                    program' = [program EXCEPT !.first = first, !.firsts = @ \cup {first}]
              /\ UNCHANGED rows
    /\ changes' = changes + 1
    /\ UNCHANGED <<now, pools, opened>>

(* recordFundedPool, after the enrolment has registered the program.  The  *)
(* funding was finalized at "at", perhaps long before it is recorded.      *)
RecordFunded(p, amount, at) ==
    /\ program # NoProgram
    /\ pools[p] = NoPool
    /\ at <= now
    /\ pools' = [pools EXCEPT ![p] = [status |-> "available", amount |-> amount, at |-> at]]
    /\ UNCHANGED <<now, program, rows, opened, changes>>

-----------------------------------------------------------------------------
(* prepare begins: rows before the first period are skipped (in the   *)
(* short window of quality assurance only the short ones), and the last,   *)
(* the running and the next period get a row.                              *)
Skipped(s) ==
    IF /\ Waiting(rows[s])
       /\ s < program.first
       /\ program.length # QaLength \/ rows[s].end - s <= QaLength
    THEN [rows[s] EXCEPT !.status = "skipped"]
    ELSE rows[s]

Around == LET start == Floor(now, program.length)
          IN  <<start - program.length, start, start + program.length>>

(* A retired row without a manifest gives its id to one of another length. *)
Replaceable(r, s) ==
    \/ r.status = "none"
    \/ r.status = "skipped" /\ ~Prepared(r) /\ r.end - s # program.length

Opens(i) == Around[i] >= program.first /\ Replaceable(Skipped(Around[i]), Around[i])

(* A row that takes over an id keeps the place of the old one.             *)
OpenedRow(i) ==
    [status |-> "indexing", end |-> Around[i] + program.length, pools |-> {},
     place |-> IF rows[Around[i]].status = "none" THEN opened + i ELSE rows[Around[i]].place]

Ensured ==
    [s \in Starts |-> IF \E i \in 1 .. 3 : s = Around[i] /\ Opens(i)
                      THEN OpenedRow(CHOOSE i \in 1 .. 3 : s = Around[i])
                      ELSE Skipped(s)]

(* Fault: a blocked row is prepared again although it has a manifest.      *)
Due_AnyBlocked(r) == r.status \in {"indexing", "blocked"} /\ now >= r.end

Due(r) == Waiting(r) /\ now >= r.end

(* Fault: a pool is offered to every period that closed after it.          *)
Offered_Again(rs, s, winners) ==
    {p \in Fundings : pools[p].status # "none" /\ pools[p].at < rs[s].end}

(* The pools a row finds: waiting, funded before its cutoff, and not given *)
(* to a row that the same pass has prepared before.                        *)
Offered(rs, s, winners) ==
    {p \in Fundings :
        /\ pools[p].status = "available"
        /\ pools[p].at < rs[s].end
        /\ \A w \in winners : rs[w].place < rs[s].place => pools[p].at >= rs[w].end}

(* Fault: the minimum is not compared.                                     *)
Enough_Any(found) == TRUE

Enough(found) ==
    /\ found # {}
    /\ MapThenSumSet(LAMBDA p : pools[p].amount, found) >= Minimum[program.policy]

(* Fault: the registered default of one hour instead of none.              *)
PayoutAt_Default(r) == r.end + 1

PayoutAt(r) == r.end + PayoutDelay

(* prepare, the rest: "winners" are the rows whose snapshots and quote  *)
(* suffice; the other due rows are deferred for good when the funding does *)
(* not suffice, and deferred or blocked otherwise.                         *)
Decide(rs) ==
    \E winners \in SUBSET {s \in Starts : Due(rs[s])} :
        LET due == {s \in Starts : Due(rs[s])}
            found == [s \in due |-> Offered(rs, s, winners)]
        IN  /\ \A s \in winners : Enough(found[s])
            /\ \E blocked \in SUBSET {s \in due \ winners : Enough(found[s])} :
                 rows' = [s \in Starts |->
                   IF s \in winners
                     THEN [rs[s] EXCEPT !.pools = found[s],
                             !.status = IF now >= PayoutAt(rs[s]) THEN "prepared" ELSE "calculating"]
                   ELSE IF s \in blocked THEN [rs[s] EXCEPT !.status = "blocked"]
                   ELSE IF s \in due THEN [rs[s] EXCEPT !.status = "deferred"]
                   ELSE rs[s]]
            /\ pools' = [p \in Fundings |->
                 IF \E s \in winners : p \in found[s] THEN [pools[p] EXCEPT !.status = "assigned"]
                 ELSE pools[p]]

Prepare ==
    /\ program # NoProgram
    /\ Decide(Ensured)
    /\ opened' = IF \E i \in 1 .. 3 : Opens(i) THEN opened + 3 ELSE opened
    /\ UNCHANGED <<now, program, changes>>

-----------------------------------------------------------------------------
(* execute: a prepared row is paid, or held back when its manifest names a *)
(* wallet that must not be paid.                                           *)
Execute(s) ==
    /\ rows[s].status = "prepared"
    /\ now >= PayoutAt(rows[s])
    /\ \E status \in {"paid", "blocked"} : rows' = [rows EXCEPT ![s].status = status]
    /\ UNCHANGED <<now, program, pools, opened, changes>>

Tick == now < MaxTime /\ now' = now + 1 /\ UNCHANGED <<program, pools, rows, opened, changes>>

Next ==
    \/ \E length \in Lengths, policy \in Policies : Register(length, policy)
    \/ \E p \in Fundings, amount \in Amounts, at \in 0 .. MaxTime : RecordFunded(p, amount, at)
    \/ Prepare
    \/ \E s \in Starts : Execute(s)
    \/ Tick

Spec == Init /\ [][Next]_vars

(* Time goes on, and the worker executes what is prepared every minute.    *)
FairSpec ==
    /\ Spec
    /\ WF_vars(Tick)
    /\ \A s \in Starts : WF_vars(Execute(s))

-----------------------------------------------------------------------------
(* Properties *)

(* No funding is promised twice: it is in one manifest at most, and it is  *)
(* assigned exactly when it is in one, however many periods close in one   *)
(* pass or reuse an id (reward-scheduler.mjs:307-356).                     *)
FundingUsedOnce ==
    /\ \A s, t \in Starts : s # t => rows[s].pools \cap rows[t].pools = {}
    /\ \A p \in Fundings :
          pools[p].status = "assigned" <=> \E s \in Starts : p \in rows[s].pools

(* No moment of holding is rewarded twice: periods with a manifest do not  *)
(* overlap, though the length of the periods changes while they run        *)
(* (register, :167-183, and the first period of prepare, :285-304).        *)
PreparedPeriodsDisjoint ==
    \A s, t \in Starts : s < t /\ Prepared(rows[s]) /\ Prepared(rows[t]) => rows[s].end <= t

(* A manifest is immutable: no later pass or change of policy gives its    *)
(* period other pools or another cutoff, or hands its id to a new row.     *)
ManifestKept ==
    [][\A s \in Starts : Prepared(rows[s]) =>
          rows'[s].pools = rows[s].pools /\ rows'[s].end = rows[s].end]_vars

(* A period with a manifest is paid in the end, or visibly held back; the  *)
(* status calculating is one that no step leaves, so this holds because v3 *)
(* programs have no payout delay (v3-reward-funding.mjs:262).              *)
ManifestIsPaid ==
    \A s \in Starts : Prepared(rows[s]) ~> rows[s].status \in {"paid", "blocked"}
=============================================================================
