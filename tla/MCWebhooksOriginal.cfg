CONSTANTS
    submit = submit
    failed = failed
    paid = paid
    request = request
    stray = stray
    NoEvent = NoEvent
    Calls = {c1, c2}
    Intents = {submit, failed, paid}
    Creations = {}
    Guarded = {submit}
    Effectful = {submit}
    States = {"draft", "submitted", "succeeded", "failed"}
    Initial = "draft"
    From <- MCFrom
    To <- MCTo
    Rank <- MCRank
    MaxFailures = 0
    Events = {paid}
    Strays = {}
SPECIFICATION Spec
CHECK_DEADLOCK FALSE
INVARIANTS
    OriginalReturned
