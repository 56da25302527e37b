----------------------------- MODULE MCRefunds -----------------------------
(* Small instances of Refunds: refunds and processes are model values.     *)
EXTENDS Refunds, FiniteSetsExt, TLC

CONSTANTS r1, r2, r3

\* r1 and r2 fit together only without r3; r2 needs an approval.
MCAmount == (r1 :> 1) @@ (r2 :> 3) @@ (r3 :> 2)
MCAmountIn == [r \in Refunds |-> MCAmount[r]]
MCTotal == [S \in SUBSET Refunds |-> MapThenSumSet(LAMBDA r : MCAmount[r], S)]
MCSymmetry == Permutations(Procs)
=============================================================================
