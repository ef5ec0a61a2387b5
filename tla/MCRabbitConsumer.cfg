CONSTANTS
    t1 = t1
    t2 = t2
    Topic = {t1, t2}
    s1 = s1
    s2 = s2
    Sub = {s1, s2}
    a1 = a1
    a2 = a2
    a3 = a3
    Agent = {a1, a2, a3}
    NoTopic = NoTopic
    NoSub = NoSub
    Nobody = Nobody
SPECIFICATION RabbitFairSpec
CHECK_DEADLOCK FALSE
INVARIANTS TypeOK CancelledOnce CloseCancelsMapped ChannelFollowsFlag
PROPERTIES CloseIsFinal CloseReturns
