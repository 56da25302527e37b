CONSTANTS
    Viewers <- MCViewers
    Records <- MCRecords
    Reveals = {{}, {"ssn"}}
    Nothing = Nothing
    MaxCalls = 2
SPECIFICATION Spec
CHECK_DEADLOCK FALSE
INVARIANTS
    DecidableIsTaken
