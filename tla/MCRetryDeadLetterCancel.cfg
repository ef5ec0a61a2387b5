CONSTANTS
    m1 = m1
    Msg = {m1}
    Passed <- MCPassed
    Compressor = {}
    None = None
    Policy = {}
    Error <- MCError
    MayExpire = FALSE
    PlainError = PlainError
    CtxError = CtxError
    NoError = NoError
SPECIFICATION Spec
CHECK_DEADLOCK FALSE
INVARIANTS DeadMeansExhausted
