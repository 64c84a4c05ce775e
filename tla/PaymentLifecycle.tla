-------------------------- MODULE PaymentLifecycle --------------------------
(***************************************************************************)
(* What the server promises about one payment intent, whichever handler    *)
(* carries it out: the chain pays it at most once, the record names only   *)
(* the transaction that paid and never forgets it, and money is booked     *)
(* for use only after it is recorded.  DisbursementRoute and               *)
(* ExecutionJournal implement it.                                          *)
(***************************************************************************)
CONSTANT Signatures

VARIABLES paid,       \* signatures whose transaction moved the money
          recorded,   \* signatures the store calls finalized
          booked      \* signatures credited to a downstream reward pool

lifecycleVars == <<paid, recorded, booked>>

Init == paid = {} /\ recorded = {} /\ booked = {}

(* The chain executes the one transaction that moves the money. *)
Pay(s) == /\ paid = {}
          /\ paid' = {s}
          /\ UNCHANGED <<recorded, booked>>

(* The store learns of the payment. *)
Record == /\ recorded = {}
          /\ paid # {}
          /\ recorded' = paid
          /\ UNCHANGED <<paid, booked>>

(* The recorded payment is credited to a pool, once. *)
Book == /\ booked = {}
        /\ recorded # {}
        /\ booked' = recorded
        /\ UNCHANGED <<paid, recorded>>

Next == (\E s \in Signatures : Pay(s)) \/ Record \/ Book

Spec == Init /\ [][Next]_lifecycleVars
=============================================================================
