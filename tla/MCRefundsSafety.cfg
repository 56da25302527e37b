\* Two refunds that do not fit together, two processes, crashes and failing
\* settlements: 3 + 2 > 4.
CONSTANTS
    r1 = r1
    r2 = r2
    r3 = r3
    Refunds = {r2, r3}
    Procs = {p1, p2}
    Amount <- MCAmountIn
    Total <- MCTotal
    Captured = 4
    Threshold = 2
    Named = {0, 3}
    MaxAttempts = 2
    Faults = {"crash", "op", "settle", "record", "principal", "terminal"}
    FaultBudget = 1
SPECIFICATION Spec
SYMMETRY MCSymmetry
CHECK_DEADLOCK FALSE
INVARIANTS
    Inv
    MoneyWithinCaptured
    OneRunner
    VerdictTrue
PROPERTIES
    LedgerSpec
