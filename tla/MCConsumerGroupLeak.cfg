CONSTANTS
    t1 = t1
    t2 = t2
    s1 = s1
    s2 = s2
    s3 = s3
    s4 = s4
    c1 = c1
    c2 = c2
    Topic = {t1, t2}
    Msg = {}
    Sub = {s1, s2, s3, s4}
    Caller = {c1, c2}
    Batcher = {}
    MaxBatch = 0
    MaxCalls = 3
    NoTopic = NoTopic
    NoSub = NoSub
    Nobody = Nobody
SPECIFICATION GroupSpec
CHECK_DEADLOCK FALSE
INVARIANTS StoppedOwnsNothing
