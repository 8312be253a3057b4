\* One call of each kind: challenges, unsupported codecs, stray messages
SPECIFICATION LiveSpec
CONSTANTS
    OwnCalls = {o1}
    PeerCalls = {p1}
    Tags = {t1}
    PoolSize = 2
    MaxSeq = 2
    NoCall = NoCall
    NoTag = NoTag
    OwnVia = OwnVia
    Env = {"nocodec", "challenge", "stray"}
INVARIANTS
    TimerMatchesState
    AlertingAndMedia
PROPERTIES
    CallIdentityStable
    WaitsEnd
