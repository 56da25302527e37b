----------------------------- MODULE MCWebhooks -----------------------------
(* A refund submitted under a key, an event that says it was paid, the     *)
(* settlement of the call that says it failed, an event about another      *)
(* refund, and a keyed creation beside them.                               *)
EXTENDS Webhooks

CONSTANTS submit, failed, paid, request, stray

MCFrom ==
    [k \in Intents |->
        CASE k = submit -> {"draft"}
          [] k \in {paid, failed} -> {"submitted"}
          [] OTHER -> {}]

MCTo ==
    [k \in Intents |->
        CASE k = submit -> "submitted"
          [] k = paid -> "succeeded"
          [] k = failed -> "failed"
          [] OTHER -> "draft"]

MCRank ==
    [s \in States |->
        CASE s = "draft" -> 0 [] s = "submitted" -> 1 [] OTHER -> 2]
=============================================================================
