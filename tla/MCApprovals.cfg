CONSTANTS
    ann = ann
    bob = bob
    cy = cy
    q1 = q1
    q2 = q2
    Principals = {ann, bob, cy}
    Eligible = {bob, cy}
    Requests = {q1, q2}
    Calls = {c1, c2}
    Required <- MCRequired
    Faults = {"crash", "gone"}
    MaxVersion = 1
    MaxHit = 1
SPECIFICATION FairSpec
CHECK_DEADLOCK FALSE
INVARIANTS
    Inv
    FourEyesOnApplied
    OnePending
PROPERTIES
    FourEyesSpec
    RejectionStands
    ClaimsResolve
