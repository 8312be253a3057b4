\* Both threads, with every answer late, repeated or lost, and an interval that may be
\* shorter than Timer B
SPECIFICATION FairSpec
CONSTANTS
    Calls = {c1, c2, c3}
    NoCall = NoCall
    PoolSize = 2
    Env = {"preempt", "short"}
INVARIANTS
    
    RegisteringIsTimed
PROPERTIES
    
    RenewalStarts
