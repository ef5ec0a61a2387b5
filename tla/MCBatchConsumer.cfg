CONSTANTS
    m1 = m1
    m2 = m2
    m3 = m3
    l1 = l1
    l2 = l2
    p1 = p1
    p2 = p2
    f1 = f1
    Msg = {m1, m2, m3}
    Loop = {l1, l2}
    Stopper = {p1, p2}
    Flusher = {f1}
    BatchSize = 2
    MayCancel = TRUE
SYMMETRY Symmetry
SPECIFICATION Spec
CHECK_DEADLOCK FALSE
INVARIANTS TypeOK BatchesAreTheStream NoLostWakeUp StopFlushesBuffer
