CONSTANTS
    submit = submit
    failed = failed
    paid = paid
    request = request
    stray = stray
    NoEvent = NoEvent
    Calls = {c1, c2}
    Intents = {submit, failed, paid, request}
    Creations = {request}
    Guarded = {submit}
    Effectful = {submit}
    States = {"draft", "submitted", "succeeded", "failed"}
    Initial = "draft"
    From <- MCFrom
    To <- MCTo
    Rank <- MCRank
    MaxFailures = 1
    Events = {paid}
    Strays = {stray}
SPECIFICATION FairSpec
CHECK_DEADLOCK FALSE
INVARIANTS
    Inv
    OncePerKey
    BookedAsDone
PROPERTIES
    InboxSpec
    EventRecorded
