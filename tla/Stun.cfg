\* A server that answers every request, late or more than once
SPECIFICATION AnsweredSpec
CONSTANTS
    Tids = {t1, t2, t3}
    Addresses = {a1, a2}
    NoAddress = NoAddress
    Slots = 2
    Env = {"settings"}
INVARIANTS
    NoTransactionLost
PROPERTIES
    SipAddressIsOwn
    RtpAddressIsOwn
    
