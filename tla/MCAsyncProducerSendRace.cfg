CONSTANTS
    m1 = m1
    m2 = m2
    l1 = l1
    p1 = p1
    Msg = {m1, m2}
    Loop = {l1}
    Stopper = {p1}
    Cap = 2
    NoMsg = NoMsg
    MayCancel = FALSE
SPECIFICATION Spec
CHECK_DEADLOCK FALSE
INVARIANTS NothingStranded
