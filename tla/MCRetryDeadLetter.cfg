CONSTANTS
    m1 = m1
    m2 = m2
    Msg = {m1, m2}
    Passed <- MCPassed
    Compressor = {}
    None = None
    Policy <- MCPolicy
    Error <- MCError
    MayExpire = TRUE
    PlainError = PlainError
    CtxError = CtxError
    NoError = NoError
SPECIFICATION FairSpec
CHECK_DEADLOCK FALSE
INVARIANTS TypeOK CountersAccount RetryBudget  EndsSomewhere CountIsDead
PROPERTIES DeliveryEnds
