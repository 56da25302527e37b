CONSTANTS
    submit1 = submit1
    submit2 = submit2
    create = create
    denial = denial
    refund1 = refund1
    refund2 = refund2
    payment = payment
    Txns = {submit1, submit2, create, denial}
    Records = {refund1, refund2, payment}
    Plan <- MCPlan
    Rank <- MCRank
    Events = {"a", "b"}
    Nobody = Nobody
    BatchSize = 2
SPECIFICATION VerifySpec
CHECK_DEADLOCK FALSE
INVARIANTS
    VerifyInv
    ChainIntact
    NoFalseAlarm
    TamperingReported
PROPERTIES
    TrailSpec
    TransactionsEnd
