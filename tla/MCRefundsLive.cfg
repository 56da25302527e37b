CONSTANTS
    r1 = r1
    r2 = r2
    r3 = r3
    Refunds = {r2}
    Procs = {p1, p2}
    Amount <- MCAmountIn
    Total <- MCTotal
    Captured = 4
    Threshold = 2
    Named = {0, 3}
    MaxAttempts = 2
    Faults = {"settle", "record", "terminal"}
    FaultBudget = 2
SPECIFICATION FairSpec
CHECK_DEADLOCK FALSE
PROPERTIES
    SubmittedSettles
    ReconcileSettles
