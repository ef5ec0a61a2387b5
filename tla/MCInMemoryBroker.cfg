CONSTANTS
    t1 = t1
    t2 = t2
    Topic = {t1, t2}
    m1 = m1
    m2 = m2
    Msg = {m1, m2}
    s1 = s1
    s2 = s2
    Sub = {s1, s2}
    b1 = b1
    Batcher = {b1}
    MaxBatch = 2
    NoTopic = NoTopic
SPECIFICATION FairSpec
CHECK_DEADLOCK FALSE
INVARIANTS TypeOK AtMostOnce BatchIsPrefix
PROPERTIES UnsubscribedIsSilent PubSubSpec
