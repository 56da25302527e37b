CONSTANTS
    Percentages <- MCPercentages
    ApprovalPct = 25
    MaxAttempts = 2
    MaxVersion = 3
    Faults = {"unknown", "settle", "crash"}
    FaultBudget = 1
    MaxReplays = 1
SPECIFICATION FairSpec
CHECK_DEADLOCK FALSE
INVARIANTS
    Inv
    LargeRolloutApproved
    ApprovedOnReviewed
PROPERTIES
    RolloutSpec
    RampsUp
    PublishSettles
