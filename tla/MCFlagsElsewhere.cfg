CONSTANTS
    Percentages <- MCPercentages
    ApprovalPct = 25
    MaxAttempts = 1
    MaxVersion = 3
    Faults = {}
    FaultBudget = 0
    MaxReplays = 1
SPECIFICATION Spec
CHECK_DEADLOCK FALSE
INVARIANTS
    LargeRolloutSigned
