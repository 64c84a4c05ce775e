----------------------- MODULE KeeperCollection_proofs -----------------------
(***************************************************************************)
(* Proofs about KeeperCollection, for every number of requests,            *)
(* signatures and restarts.                                                *)
(*                                                                         *)
(* OneUnsettled is not inductive: what allows a request to record its      *)
(* signature is an alert nobody has signed under, so the invariant has to  *)
(* say that such an alert is only ever there while nothing is unsettled.   *)
(* SettledHasLanded follows the proof from the poll that sees it to the    *)
(* row a request writes long after.                                        *)
(***************************************************************************)
EXTENDS KeeperCollection, TLAPS

(* A request that has signed has its row in the table.                     *)
SignedIsRecorded ==
    \A r \in Requests : pc[r] \in {"send", "poll", "prove"} => collections[signed[r]] # "none"

(* While the lock is held without a signature, every collection is settled.*)
LockIsClear ==
    MayBroadcast => \A s \in Signatures : ~Unsettled(s)

KeeperInv == TypeOK /\ SignedIsRecorded /\ LockIsClear /\ OneUnsettled

LEMMA InitInv == Init => KeeperInv
  BY KeeperAssumption DEF Init, KeeperInv, TypeOK, Alert, Free, Signatures, NoSignature,
     SignedIsRecorded, LockIsClear, MayBroadcast, OneUnsettled, Unsettled

(* The catch takes the lock from whoever holds it and changes no row.      *)
LEMMA FailInv ==
  ASSUME KeeperInv, NEW r \in Requests, NEW status \in {"retryable", "review"}, Fail(r, status)
  PROVE  KeeperInv'
  BY DEF KeeperInv, TypeOK, Alert, Free, Signatures, NoSignature, SignedIsRecorded,
     LockIsClear, MayBroadcast, OneUnsettled, Unsettled, Fail, Goto

LEMMA StartInv ==
  ASSUME KeeperInv, NEW r \in Requests, Start(r)
  PROVE  KeeperInv'
  BY DEF KeeperInv, TypeOK, Alert, Free, Signatures, NoSignature, SignedIsRecorded,
     LockIsClear, MayBroadcast, OneUnsettled, Unsettled, Start, Goto

LEMMA BuildInv ==
  ASSUME KeeperInv, NEW r \in Requests, Build(r)
  PROVE  KeeperInv'
<1>1. CASE Fail(r, "review")
  BY <1>1, FailInv
<1>2. CASE Goto(r, "construct") /\ UNCHANGED <<ledger, outcome, signed, crashes>>
  BY <1>2 DEF KeeperInv, TypeOK, ledger, SignedIsRecorded, LockIsClear, MayBroadcast,
     OneUnsettled, Unsettled, Goto
<1> QED
  BY <1>1, <1>2 DEF Build

LEMMA ConstructInv ==
  ASSUME KeeperInv, NEW r \in Requests, Construct(r)
  PROVE  KeeperInv'
<1>1. CASE \E status \in {"retryable", "review"} : Fail(r, status)
  BY <1>1, FailInv
<1>2. CASE /\ alert' = [status |-> "nothing", sig |-> NoSignature]
           /\ Goto(r, "idle")
           /\ UNCHANGED <<collections, settlements, outcome, signed, crashes>>
  BY <1>2 DEF KeeperInv, TypeOK, Alert, Free, Signatures, NoSignature, SignedIsRecorded,
     LockIsClear, MayBroadcast, OneUnsettled, Unsettled, Goto
<1>3. CASE Goto(r, "sign") /\ UNCHANGED <<ledger, outcome, signed, crashes>>
  BY <1>3 DEF KeeperInv, TypeOK, ledger, SignedIsRecorded, LockIsClear, MayBroadcast,
     OneUnsettled, Unsettled, Goto
<1> QED
  BY <1>1, <1>2, <1>3 DEF Construct

(* The one step that adds an unsettled collection: by LockIsClear there    *)
(* was none, and the alert it leaves carries its signature.                *)
LEMMA OnSignedInv ==
  ASSUME KeeperInv, NEW r \in Requests, OnSigned(r)
  PROVE  KeeperInv'
<1>1. CASE ~MayBroadcast /\ Fail(r, "review")
  BY <1>1, FailInv
<1>2. ASSUME NEW s \in Signatures,
             MayBroadcast,
             collections[s] = "none",
             collections' = Journaled(s),
             alert' = [alert EXCEPT !.sig = s],
             signed' = [signed EXCEPT ![r] = s],
             Goto(r, "send"),
             UNCHANGED <<settlements, outcome, crashes>>
      PROVE  KeeperInv'
  <2>1. TypeOK'
    BY <1>2 DEF KeeperInv, TypeOK, Alert, Goto, Journaled
  <2>2. SignedIsRecorded'
    BY <1>2 DEF KeeperInv, TypeOK, SignedIsRecorded, Goto, Journaled
  <2>3. LockIsClear'
    BY <1>2 DEF KeeperInv, TypeOK, Alert, LockIsClear, MayBroadcast, Signatures, NoSignature
  <2>4. \A t \in Signatures : Unsettled(t)' => t = s
    BY <1>2 DEF KeeperInv, TypeOK, LockIsClear, Unsettled, Journaled
  <2> QED
    BY <2>1, <2>2, <2>3, <2>4 DEF KeeperInv, OneUnsettled
<1> QED
  BY <1>1, <1>2 DEF OnSigned

LEMMA AfterSigningInv ==
  ASSUME KeeperInv, NEW r \in Requests, Send(r) \/ Poll(r) \/ Result(r)
  PROVE  KeeperInv'
<1>1. CASE Send(r)
  BY <1>1 DEF KeeperInv, TypeOK, ledger, SignedIsRecorded, LockIsClear, MayBroadcast,
     OneUnsettled, Unsettled, Send, Goto
<1>2. CASE Poll(r)
  <2>1. CASE Fail(r, "review")
    BY <2>1, FailInv
  <2>2. CASE Goto(r, "prove") /\ UNCHANGED <<ledger, outcome, signed, crashes>>
    BY <1>2, <2>2 DEF KeeperInv, TypeOK, ledger, SignedIsRecorded, LockIsClear, MayBroadcast,
       OneUnsettled, Unsettled, Poll, Goto
  <2> QED
    BY <1>2, <2>1, <2>2 DEF Poll
<1>3. CASE Result(r)
  <2>1. signed[r] \in Signatures /\ collections[signed[r]] # "none"
    BY <1>3 DEF KeeperInv, TypeOK, SignedIsRecorded, Result
  <2>2. PICK proved \in BOOLEAN :
           /\ collections' = [collections EXCEPT ![signed[r]] = IF proved THEN "collected" ELSE "pending"]
           /\ alert' = [status |-> IF proved THEN "complete" ELSE "review", sig |-> signed[r]]
    BY <1>3 DEF Result
  <2>3. TypeOK'
    BY <1>3, <2>1, <2>2 DEF KeeperInv, TypeOK, Alert, Free, Result, Goto
  <2>4. SignedIsRecorded' /\ LockIsClear'
    BY <1>3, <2>1, <2>2 DEF KeeperInv, TypeOK, SignedIsRecorded, LockIsClear, MayBroadcast,
       Result, Goto
  <2>5. \A t \in Signatures : Unsettled(t)' => Unsettled(t)
    BY <1>3, <2>1, <2>2 DEF KeeperInv, TypeOK, Unsettled, Result
  <2> QED
    BY <2>3, <2>4, <2>5 DEF KeeperInv, OneUnsettled
<1> QED
  BY <1>1, <1>2, <1>3

LEMMA LedgerInv ==
  ASSUME KeeperInv, NEW s \in Signatures, Reconcile(s) \/ Settle(s) \/ Settled(s) \/ Land(s)
  PROVE  KeeperInv'
<1>1. CASE Reconcile(s)
  BY <1>1 DEF KeeperInv, TypeOK, Alert, Free, SignedIsRecorded, LockIsClear, MayBroadcast,
     OneUnsettled, Unsettled, Reconcile, Reconcilable
<1>2. CASE Settle(s)
  BY <1>2 DEF KeeperInv, TypeOK, SignedIsRecorded, LockIsClear, MayBroadcast,
     OneUnsettled, Unsettled, Settle
<1>3. CASE Settled(s)
  BY <1>3 DEF KeeperInv, TypeOK, SignedIsRecorded, LockIsClear, MayBroadcast,
     OneUnsettled, Unsettled, Settled
<1>4. CASE Land(s)
  BY <1>4 DEF KeeperInv, TypeOK, ledger, SignedIsRecorded, LockIsClear, MayBroadcast,
     OneUnsettled, Unsettled, Land
<1> QED
  BY <1>1, <1>2, <1>3, <1>4

LEMMA CrashInv == KeeperInv /\ Crash => KeeperInv'
  BY KeeperAssumption DEF KeeperInv, TypeOK, ledger, SignedIsRecorded, LockIsClear, MayBroadcast,
     OneUnsettled, Unsettled, Crash

LEMMA Invariance == Spec => []KeeperInv
<1>1. KeeperInv /\ [Next]_vars => KeeperInv'
  <2> SUFFICES ASSUME KeeperInv, [Next]_vars PROVE KeeperInv'
    OBVIOUS
  <2>1. ASSUME NEW r \in Requests,
               Start(r) \/ Build(r) \/ Construct(r) \/ OnSigned(r) \/ Send(r) \/ Poll(r) \/ Result(r)
        PROVE  KeeperInv'
    BY <2>1, StartInv, BuildInv, ConstructInv, OnSignedInv, AfterSigningInv
  <2>2. ASSUME NEW s \in Signatures, Reconcile(s) \/ Settle(s) \/ Settled(s) \/ Land(s)
        PROVE  KeeperInv'
    BY <2>2, LedgerInv
  <2>3. CASE Crash
    BY <2>3, CrashInv
  <2>4. CASE UNCHANGED vars
    BY <2>4 DEF KeeperInv, TypeOK, vars, ledger, SignedIsRecorded, LockIsClear,
       MayBroadcast, OneUnsettled, Unsettled
  <2> QED
    BY <2>1, <2>2, <2>3, <2>4 DEF Next
<1> QED
  BY <1>1, InitInv, PTL DEF Spec

(* Every reachable state of the collection protocol is well typed, and     *)
(* nothing was broadcast that is not in the table of collections.          *)
THEOREM TypeCorrect == Spec => []TypeOK
<1>1. KeeperInv => TypeOK
  BY DEF KeeperInv
<1> QED
  BY <1>1, Invariance, PTL

(* However many requests overlap, end late or die, a mint has at most one  *)
(* recorded collection without a finalized settlement.                     *)
THEOREM AtMostOneUnsettled == Spec => []OneUnsettled
<1>1. KeeperInv => OneUnsettled
  BY DEF KeeperInv
<1> QED
  BY <1>1, Invariance, PTL

-----------------------------------------------------------------------------
(* What the ledger claims and what the chain did *)

(* A request that writes a result has seen its transaction finalized.      *)
ProvedHasLanded == \A r \in Requests : pc[r] = "prove" => outcome[signed[r]] = "ok"

(* A finalized outcome is never taken back: what is sent or lands was not  *)
(* final, because a signature is sent by the one request that signed it.   *)
SentOnce ==
    /\ \A r \in Requests : pc[r] = "send" => outcome[signed[r]] = "unsent"
    /\ \A r, q \in Requests :
          pc[r] = "send" /\ pc[q] \in {"send", "poll", "prove"} /\ signed[r] = signed[q] => r = q
    /\ \A s \in Signatures : collections[s] = "none" => outcome[s] = "unsent"

ProofInv == SentOnce /\ ProvedHasLanded /\ SettledHasLanded

LEMMA FailProof ==
  ASSUME KeeperInv, ProofInv, NEW r \in Requests, NEW status, Fail(r, status)
  PROVE  ProofInv'
  BY DEF KeeperInv, TypeOK, ProofInv, SentOnce, ProvedHasLanded, SettledHasLanded, Fail, Goto

LEMMA BeforeSigningProof ==
  ASSUME KeeperInv, ProofInv, NEW r \in Requests, Start(r) \/ Build(r) \/ Construct(r)
  PROVE  ProofInv'
<1>1. CASE \E status : Fail(r, status)
  BY <1>1, FailProof
<1>2. ASSUME \E step \in {"build", "construct", "sign", "idle"} : Goto(r, step),
             UNCHANGED <<collections, settlements, outcome, signed, crashes>>
      PROVE  ProofInv'
  BY <1>2 DEF KeeperInv, TypeOK, ProofInv, SentOnce, ProvedHasLanded, SettledHasLanded, Goto
<1> QED
  BY <1>1, <1>2 DEF Start, Build, Construct, ledger

(* The signature is new: nobody else stands at it, and nothing is sent.    *)
LEMMA OnSignedProof ==
  ASSUME KeeperInv, ProofInv, NEW r \in Requests, OnSigned(r)
  PROVE  ProofInv'
<1>1. CASE Fail(r, "review")
  BY <1>1, FailProof
<1>2. ASSUME NEW s \in Signatures,
             collections[s] = "none",
             collections' = Journaled(s),
             signed' = [signed EXCEPT ![r] = s],
             Goto(r, "send"),
             UNCHANGED <<settlements, outcome, crashes>>
      PROVE  ProofInv'
  <2>1. outcome[s] = "unsent" /\ \A q \in Requests :
           pc[q] \in {"send", "poll", "prove"} => signed[q] # s
    BY <1>2 DEF KeeperInv, SignedIsRecorded, ProofInv, SentOnce
  <2>2. /\ \A q \in Requests : pc'[q] = (IF q = r THEN "send" ELSE pc[q])
        /\ \A q \in Requests : signed'[q] = (IF q = r THEN s ELSE signed[q])
        /\ \A t \in Signatures : collections'[t] = (IF t = s THEN "pending" ELSE collections[t])
    BY <1>2 DEF KeeperInv, TypeOK, Goto, Journaled
  <2>3. SentOnce'
    BY <1>2, <2>1, <2>2 DEF ProofInv, SentOnce
  <2>4. ProvedHasLanded' /\ SettledHasLanded'
    BY <1>2, <2>1, <2>2 DEF ProofInv, ProvedHasLanded, SettledHasLanded
  <2> QED
    BY <2>3, <2>4 DEF ProofInv
<1> QED
  BY <1>1, <1>2 DEF OnSigned

LEMMA AfterSigningProof ==
  ASSUME KeeperInv, ProofInv, NEW r \in Requests, Send(r) \/ Poll(r) \/ Result(r)
  PROVE  ProofInv'
<1>1. CASE Send(r)
  <2>1. signed[r] \in Signatures /\ outcome[signed[r]] = "unsent" /\ collections[signed[r]] # "none"
    BY <1>1 DEF KeeperInv, TypeOK, SignedIsRecorded, ProofInv, SentOnce, Send
  <2>2. /\ \A q \in Requests : pc'[q] = (IF q = r THEN "poll" ELSE pc[q])
        /\ \A t \in Signatures : outcome'[t] = (IF t = signed[r] THEN "open" ELSE outcome[t])
        /\ UNCHANGED <<alert, collections, settlements, signed>>
    BY <1>1 DEF KeeperInv, TypeOK, Send, Goto, ledger
  <2>3. \A q \in Requests : pc[q] \in {"send", "poll", "prove"} =>
           signed[q] \in Signatures /\ (q # r => signed[q] # signed[r])
    BY <1>1 DEF KeeperInv, TypeOK, ProofInv, SentOnce, Send
  <2>4. SentOnce' /\ ProvedHasLanded'
    BY <2>1, <2>2, <2>3 DEF ProofInv, SentOnce, ProvedHasLanded
  <2>5. SettledHasLanded'
    BY <2>1, <2>2 DEF ProofInv, SettledHasLanded
  <2> QED
    BY <2>4, <2>5 DEF ProofInv
<1>2. CASE Poll(r)
  <2>1. CASE Fail(r, "review")
    BY <2>1, FailProof
  <2>2. CASE /\ Confirmed(signed[r])
             /\ Goto(r, "prove")
             /\ UNCHANGED <<ledger, outcome, signed, crashes>>
    BY <2>2, <1>2 DEF KeeperInv, TypeOK, ProofInv, SentOnce, ProvedHasLanded, SettledHasLanded,
       Confirmed, Goto, ledger, Poll
  <2> QED
    BY <1>2, <2>1, <2>2 DEF Poll
<1>3. CASE Result(r)
  <2>1. signed[r] \in Signatures /\ outcome[signed[r]] = "ok"
    BY <1>3 DEF KeeperInv, TypeOK, ProofInv, ProvedHasLanded, Result
  <2>2. PICK status \in {"collected", "pending"} :
           collections' = [collections EXCEPT ![signed[r]] = status]
    BY <1>3 DEF Result
  <2>3. /\ \A q \in Requests : pc'[q] = (IF q = r THEN "idle" ELSE pc[q])
        /\ \A t \in Signatures :
              collections'[t] = (IF t = signed[r] THEN status ELSE collections[t])
        /\ UNCHANGED <<settlements, outcome, signed>>
    BY <1>3, <2>2 DEF KeeperInv, TypeOK, Result, Goto
  <2> QED
    BY <2>1, <2>3 DEF ProofInv, SentOnce, ProvedHasLanded, SettledHasLanded
<1> QED
  BY <1>1, <1>2, <1>3

LEMMA LedgerProof ==
  ASSUME KeeperInv, ProofInv, NEW s \in Signatures, Reconcile(s) \/ Settle(s) \/ Settled(s) \/ Land(s)
  PROVE  ProofInv'
<1>1. CASE Reconcile(s)
  BY <1>1 DEF KeeperInv, TypeOK, ProofInv, SentOnce, ProvedHasLanded, SettledHasLanded,
     Reconcile, Confirmed
<1>2. CASE Settle(s) \/ Settled(s)
  BY <1>2 DEF KeeperInv, TypeOK, ProofInv, SentOnce, ProvedHasLanded, SettledHasLanded,
     Settle, Settled
<1>3. CASE Land(s)
  BY <1>3 DEF KeeperInv, TypeOK, ledger, ProofInv, SentOnce, ProvedHasLanded, SettledHasLanded, Land
<1> QED
  BY <1>1, <1>2, <1>3

LEMMA StepProof ==
  ASSUME KeeperInv, ProofInv, [Next]_vars
  PROVE  ProofInv'
<1>1. ASSUME NEW r \in Requests,
             Start(r) \/ Build(r) \/ Construct(r) \/ OnSigned(r) \/ Send(r) \/ Poll(r) \/ Result(r)
      PROVE  ProofInv'
  BY <1>1, BeforeSigningProof, OnSignedProof, AfterSigningProof
<1>2. ASSUME NEW s \in Signatures, Reconcile(s) \/ Settle(s) \/ Settled(s) \/ Land(s)
      PROVE  ProofInv'
  BY <1>2, LedgerProof
<1>3. CASE Crash \/ UNCHANGED vars
  BY <1>3 DEF Crash, vars, ledger, ProofInv, SentOnce, ProvedHasLanded, SettledHasLanded
<1> QED
  BY <1>1, <1>2, <1>3 DEF Next

(* A row is collected, and a settlement divides it, only if the collection *)
(* landed, whichever requests overlap and whoever writes the row last.     *)
THEOREM LedgerFollowsChain == Spec => []SettledHasLanded
<1>1. Init => ProofInv
  BY DEF Init, ProofInv, SentOnce, ProvedHasLanded, SettledHasLanded
<1>2. KeeperInv /\ ProofInv /\ [Next]_vars => ProofInv'
  BY StepProof
<1>3. ProofInv => SettledHasLanded
  BY DEF ProofInv
<1> QED
  BY <1>1, <1>2, <1>3, Invariance, PTL DEF Spec
=============================================================================
