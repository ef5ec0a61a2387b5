CONSTANTS
    m1 = m1
    m2 = m2
    f1 = f1
    f2 = f2
    c1 = c1
    c2 = c2
    Msg = {m1, m2}
    Fn = {f1, f2}
    NoFn = NoFn
    Caller = {c1, c2}
    MaxSets = 2
SPECIFICATION FairSpec
CHECK_DEADLOCK FALSE
INVARIANTS TypeOK ClosedIsFinal NoStaleClient
PROPERTIES PublishReturns
