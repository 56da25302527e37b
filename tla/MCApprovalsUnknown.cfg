CONSTANTS
    ann = ann
    bob = bob
    cy = cy
    q1 = q1
    q2 = q2
    Principals = {ann, bob, cy}
    Eligible = {bob, cy}
    Requests = {q1}
    Calls = {c1, c2}
    Required <- MCRequired
    Faults = {}
    MaxVersion = 1
    MaxHit = 0
SPECIFICATION Spec
CHECK_DEADLOCK FALSE
INVARIANTS
    StaleNotApplied
