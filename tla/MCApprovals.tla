---------------------------- MODULE MCApprovals ----------------------------
(* Two requests of which one asks for one approver and one for two; people, *)
(* requests and calls are model values.                                    *)
EXTENDS Approvals

CONSTANTS ann, bob, cy, q1, q2

MCRequired == [r \in Requests |-> IF r = q2 THEN 2 ELSE 1]
=============================================================================
