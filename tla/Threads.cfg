\* The SIP thread runs between the steps of a command
SPECIFICATION Spec
CONSTANTS
    OwnCalls = {o1}
    PeerCalls = {p1}
    Tags = {t1}
    PoolSize = 2
    MaxSeq = 1
    NoCall = NoCall
    NoTag = NoTag
    OwnVia = OwnVia
    Env = {"preempt", "stray"}
INVARIANTS
    AckMatchesInvite
    WaitIsTimed
CHECK_DEADLOCK FALSE
