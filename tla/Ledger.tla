------------------------------- MODULE Ledger -------------------------------
(***************************************************************************)
(* What the refund console promises about one payment, without queues,     *)
(* processes or retries: a refund reserves its amount before any money     *)
(* moves, money moves at most once and only under a reservation, a refund  *)
(* is reported paid only if it moved and unpaid only if it did not (and    *)
(* then never will).  Refunds implements it (module RefundsProofs).        *)
(***************************************************************************)
EXTENDS Naturals

CONSTANTS
    Refunds,    \* the refunds that may be requested against the payment
    Amount,     \* [Refunds -> Nat], in minor units
    Captured,   \* the captured amount of the payment
    Total       \* [SUBSET Refunds -> Nat], the sum of Amount over a set

VARIABLES
    phase,      \* [Refunds -> {"open", "reserved", "paid", "unpaid", "void"}]
    moved       \* the refunds whose money has left the payment

lvars == <<phase, moved>>

Reserved == {r \in Refunds : phase[r] \in {"reserved", "paid"}}

Init ==
    /\ phase = [r \in Refunds |-> "open"]
    /\ moved = {}

Reserve(r) ==
    /\ phase[r] = "open"
    /\ Total[Reserved \ {r}] + Amount[r] <= Captured
    /\ phase' = [phase EXCEPT ![r] = "reserved"]
    /\ UNCHANGED moved

Move(r) ==
    /\ phase[r] = "reserved"
    /\ r \notin moved
    /\ moved' = moved \union {r}
    /\ UNCHANGED phase

ReportPaid(r) ==
    /\ phase[r] = "reserved"
    /\ r \in moved
    /\ phase' = [phase EXCEPT ![r] = "paid"]
    /\ UNCHANGED moved

ReportUnpaid(r) ==
    /\ phase[r] = "reserved"
    /\ r \notin moved
    /\ phase' = [phase EXCEPT ![r] = "unpaid"]
    /\ UNCHANGED moved

Void(r) ==
    /\ phase[r] = "open"
    /\ phase' = [phase EXCEPT ![r] = "void"]
    /\ UNCHANGED moved

Next == \E r \in Refunds :
    Reserve(r) \/ Move(r) \/ ReportPaid(r) \/ ReportUnpaid(r) \/ Void(r)

Spec == Init /\ [][Next]_lvars
=============================================================================
