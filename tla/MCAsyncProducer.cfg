CONSTANTS
    m1 = m1
    m2 = m2
    l1 = l1
    l2 = l2
    p1 = p1
    p2 = p2
    Msg = {m1, m2}
    Loop = {l1, l2}
    Stopper = {p1, p2}
    Cap = 1
    NoMsg = NoMsg
    MayCancel = TRUE
SPECIFICATION FairSpec
CHECK_DEADLOCK FALSE
INVARIANTS TypeOK Conservation InOrder StopDrainsPending
PROPERTIES StopReturns SendIsAttempted
