\* This program at both ends, a proxy or none between them
SPECIFICATION Spec
CONSTANTS
    Parties = {alice, bob}
    Registered = {alice}
    G729 = {alice}
    Proxy = proxy
    MaxCalls = 1
    MaxRings = 2
    MaxTries = 1
INVARIANTS
    DialogsMirror
    MediaAgrees
    ConfirmedByCaller
CHECK_DEADLOCK FALSE
