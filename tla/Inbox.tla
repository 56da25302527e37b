------------------------------- MODULE Inbox -------------------------------
(***************************************************************************)
(* What webhook intake promises about one refund: its verdict is given     *)
(* once, by one intent; every event is entered in the book once, as the    *)
(* one that gave the verdict only if it did, and as converged only if      *)
(* there is a verdict.  Webhooks implements it.                            *)
(***************************************************************************)
CONSTANTS
    Events,     \* events about the refund
    Strays,     \* events about a refund that is not there
    Closing     \* the intents that give a verdict, some events among them

VARIABLES
    verdict,    \* {} or the one intent that gave it
    book        \* [Events \union Strays -> a disposition or "none"]

ivars == <<verdict, book>>

Init == verdict = {} /\ book = [e \in Events \union Strays |-> "none"]

Decide(k) ==
    /\ verdict = {}
    /\ verdict' = {k}
    /\ UNCHANGED book

Enter(e, disposition) ==
    /\ book[e] = "none"
    /\ book' = [book EXCEPT ![e] = disposition]
    /\ UNCHANGED verdict

Next ==
    \/ \E k \in Closing : Decide(k)
    \/ \E e \in Events : verdict = {e} /\ Enter(e, "applied")
    \/ \E e \in Events : verdict # {} /\ Enter(e, "converged")
    \/ \E e \in Strays : Enter(e, "unmatched")

Spec == Init /\ [][Next]_ivars
=============================================================================
