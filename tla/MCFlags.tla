------------------------------ MODULE MCFlags ------------------------------
(* A small instance of Flags: rollouts that need no approval and rollouts  *)
(* just above the threshold.                                               *)
EXTENDS Flags

MCPercentages == {0, ApprovalPct + 1}
=============================================================================
