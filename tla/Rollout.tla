------------------------------ MODULE Rollout ------------------------------
(***************************************************************************)
(* What the flag console promises about one config, without approvals,     *)
(* queues or retries: a write makes the next version and takes back that   *)
(* the config is live; the service takes versions that were written, in    *)
(* any order; and the config is live again only by the confirmation of its *)
(* current version, which the service took.  Flags implements it.          *)
(***************************************************************************)
EXTENDS Naturals

CONSTANT
    Versions    \* the versions there may be

VARIABLES
    current,    \* the version of the config
    live,       \* whether the console says the config is live
    confirmed,  \* the last version whose publish was confirmed
    taken       \* the versions the service ever took

rvars == <<current, live, confirmed, taken>>

Init == current = 1 /\ live = TRUE /\ confirmed = 1 /\ taken = {1}

Write ==
    /\ current + 1 \in Versions
    /\ current' = current + 1
    /\ live' = FALSE
    /\ UNCHANGED <<confirmed, taken>>

Take(v) ==
    /\ v <= current
    /\ taken' = taken \union {v}
    /\ UNCHANGED <<current, live, confirmed>>

Confirm ==
    /\ ~live
    /\ current \in taken
    /\ live' = TRUE
    /\ confirmed' = current
    /\ UNCHANGED <<current, taken>>

Next == Write \/ (\E v \in Versions : Take(v)) \/ Confirm

Spec == Init /\ [][Next]_rvars
=============================================================================
