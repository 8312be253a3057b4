\* A 2xx before the command arms the INVITE timer
SPECIFICATION Spec
CONSTANTS
    OwnCalls = {o1}
    PeerCalls = {p1}
    Tags = {t1}
    PoolSize = 2
    MaxSeq = 2
    NoCall = NoCall
    NoTag = NoTag
    OwnVia = OwnVia
    Env = {"preempt"}
INVARIANTS
    InviteTimerStops
CHECK_DEADLOCK FALSE
