---------------------------- MODULE BudgetLedger ----------------------------
(***************************************************************************)
(* What the fee router of a mint promises, without accounts, vaults, keys  *)
(* or rates: everything collected is assigned to category budgets, an      *)
(* assignment is never taken back, and a budget is spent against receipts, *)
(* each used once, and never beyond what was assigned.                     *)
(***************************************************************************)
EXTENDS Integers

CONSTANTS Categories, ReceiptIds, Total(_)

VARIABLES
    collected,   \* lamports collected
    funded,      \* lamports assigned to each category
    spent,       \* lamports spent by each category
    receipts     \* what each receipt was spent on; amount 0: unused

vars == <<collected, funded, spent, receipts>>

Unused == [category |-> 0, amount |-> 0]

Init ==
    /\ collected = 0
    /\ funded = [c \in Categories |-> 0]
    /\ spent = [c \in Categories |-> 0]
    /\ receipts = [id \in ReceiptIds |-> Unused]

Collect ==
    /\ collected' > collected
    /\ \A c \in Categories : funded'[c] >= funded[c]
    /\ Total(funded') = collected'
    /\ UNCHANGED <<spent, receipts>>

Spend(id, c) ==
    LET amount == spent'[c] - spent[c]
    IN  /\ receipts[id] = Unused
        /\ amount > 0
        /\ spent'[c] <= funded[c]
        /\ spent' = [spent EXCEPT ![c] = @ + amount]
        /\ receipts' = [receipts EXCEPT ![id] = [category |-> c, amount |-> amount]]
        /\ UNCHANGED <<collected, funded>>

Next == Collect \/ \E id \in ReceiptIds, c \in Categories : Spend(id, c)

Spec == Init /\ [][Next]_vars
=============================================================================
