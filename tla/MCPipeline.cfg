CONSTANTS
    l1 = l1
    p1 = p1
    None = None
    Msg <- MCMsg
    Passed <- MCPassed
    Compressor <- MCCompressor
    Loop = {l1}
    Stopper = {p1}
    Flusher = {}
    BatchSize = 2
    MayCancel = TRUE
SPECIFICATION FairSpec
CHECK_DEADLOCK FALSE
INVARIANTS ReadableByHeader OnePlace
PROPERTIES AddedIsHandled PublishedIsHandled
