CONSTANTS
    r1 = r1
    r2 = r2
    r3 = r3
    Refunds = {r1}
    Procs = {p1, p2}
    Amount <- MCAmountIn
    Total <- MCTotal
    Captured = 4
    Threshold = 2
    Named = {0, 3}
    MaxAttempts = 1
    Faults = {"crash"}
    FaultBudget = 1
SPECIFICATION FairSpec
CHECK_DEADLOCK FALSE
PROPERTIES
    SubmittedSettles
