\* Two parties answer the same INVITE, sip_send() may fail, requests are rejected
SPECIFICATION Spec
CONSTANTS
    OwnCalls = {o1}
    PeerCalls = {p1}
    Tags = {t1, t2}
    PoolSize = 3
    MaxSeq = 1
    NoCall = NoCall
    NoTag = NoTag
    OwnVia = OwnVia
    Env = {"sendfail", "reject", "nocodec"}
INVARIANTS
    PoolNeverOverfilled
    UpIsEstablished
    
    CancelAfterProvisional
\* A fault may leave nothing to go on with
CHECK_DEADLOCK FALSE
