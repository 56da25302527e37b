------------------------------- MODULE Trail -------------------------------
(***************************************************************************)
(* What the audit trail promises, without locks, sequence numbers or       *)
(* hashes: one history, which only grows at its end, by one event at a     *)
(* time; a transaction adds one event at most, and its domain write takes  *)
(* effect in the same instant.  AuditChain implements it.                  *)
(***************************************************************************)
EXTENDS Sequences

CONSTANTS
    Txns,      \* the transactions
    Events     \* what an event may say

VARIABLES
    history,   \* the events so far, in order
    entry,     \* per transaction: {}, or the history its event completed
    written    \* the transactions whose domain write took effect

tvars == <<history, entry, written>>

Init ==
    /\ history = <<>>
    /\ entry = [t \in Txns |-> {}]
    /\ written = {}

Record(t, event) ==
    /\ entry[t] = {}
    /\ history' = Append(history, event)
    /\ entry' = [entry EXCEPT ![t] = {history'}]
    /\ written' \in {written, written \union {t}}

Next == \E t \in Txns, event \in Events : Record(t, event)

Spec == Init /\ [][Next]_tvars
=============================================================================
