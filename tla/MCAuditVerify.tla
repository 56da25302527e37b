--------------------------- MODULE MCAuditVerify ---------------------------
(* A submit and a create against one payment, a submit of another refund,  *)
(* a denial, and a verification beside them that needs two batches.        *)
EXTENDS AuditVerify

CONSTANTS submit1, submit2, create, denial, refund1, refund2, payment

MCPlan ==
    [t \in Txns |->
        CASE t = submit1 -> <<refund1, payment>>
          [] t = submit2 -> <<refund2, payment>>
          [] t = create -> <<payment>>
          [] OTHER -> <<>>]

MCRank == [r \in Records |-> IF r = payment THEN 2 ELSE 1]
=============================================================================
