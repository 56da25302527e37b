------------------------------ MODULE FourEyes ------------------------------
(***************************************************************************)
(* What the approval engine promises about one protected record: a parked  *)
(* change reaches the record at most once, only after a quorum of eligible *)
(* people other than its requester endorsed it, and only if the record is  *)
(* still the one they were shown.  Approvals implements it.                *)
(***************************************************************************)
EXTENDS Naturals

CONSTANTS
    Requests,     \* changes that may be proposed
    Principals,   \* the people
    Eligible,     \* those who may endorse
    Quorums       \* per request: the sets of endorsers that suffice

VARIABLES
    proposal,   \* [Requests -> a set: {} or one [by, baseline] record]
    endorsed,   \* [Requests -> SUBSET Principals]
    applied,    \* [Requests -> Nat], how often the change reached the record
    version     \* the version of the record

fvars == <<proposal, endorsed, applied, version>>

Init ==
    /\ proposal = [r \in Requests |-> {}]
    /\ endorsed = [r \in Requests |-> {}]
    /\ applied = [r \in Requests |-> 0]
    /\ version = 0

Propose(r, p) ==
    /\ proposal[r] = {}
    /\ proposal' = [proposal EXCEPT ![r] = {[by |-> p, baseline |-> version]}]
    /\ UNCHANGED <<endorsed, applied, version>>

Endorse(r, p) ==
    /\ p \in Eligible
    /\ \E c \in proposal[r] : c.by # p
    /\ endorsed' = [endorsed EXCEPT ![r] = @ \union {p}]
    /\ UNCHANGED <<proposal, applied, version>>

Apply(r) ==
    /\ \E c \in proposal[r] : c.baseline = version
    /\ applied[r] = 0
    /\ endorsed[r] \in Quorums[r]
    /\ applied' = [applied EXCEPT ![r] = 1]
    /\ version' = version + 1
    /\ UNCHANGED <<proposal, endorsed>>

\* A write that needs no approval moves the record under the parked ones.
Other ==
    /\ version' = version + 1
    /\ UNCHANGED <<proposal, endorsed, applied>>

Next ==
    \/ \E r \in Requests, p \in Principals : Propose(r, p) \/ Endorse(r, p)
    \/ \E r \in Requests : Apply(r)
    \/ Other

Spec == Init /\ [][Next]_fvars
=============================================================================
