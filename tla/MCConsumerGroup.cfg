CONSTANTS
    t1 = t1
    t2 = t2
    Topic = {t1, t2}
    m1 = m1
    Msg = {m1}
    s1 = s1
    s2 = s2
    s3 = s3
    s4 = s4
    s5 = s5
    s6 = s6
    Sub = {s1, s2, s3, s4, s5, s6}
    c1 = c1
    c2 = c2
    Caller = {c1, c2}
    Batcher = {}
    MaxBatch = 0
    MaxCalls = 3
    NoTopic = NoTopic
    NoSub = NoSub
    Nobody = Nobody
SPECIFICATION GroupFairSpec
CHECK_DEADLOCK FALSE
INVARIANTS GroupTypeOK SerialStopOwnsNothing OnePerTopic
PROPERTIES CallsReturn
