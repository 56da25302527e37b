CONSTANTS
    ann = ann
    cleo = cleo
    both = both
    Analysts = {ann, both}
    Officers = {cleo, both}
    Reasons = {"fraud", "clean"}
    Nobody = Nobody
    MaxReplays = 2
SPECIFICATION Spec
CHECK_DEADLOCK FALSE
INVARIANTS
    EscalationsApproved
