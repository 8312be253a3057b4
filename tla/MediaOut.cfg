\* Files, microphone and digits, two threads
SPECIFICATION LiveSpec
CONSTANTS
    Lengths = {0, 3}
    FrameSize = 2
    Period = 2
    DigitPackets = 2
    Card = TRUE
    MaxPlays = 2
    MaxCalls = 1
    MaxMics = 1
    MaxDigits = 1
    MaxLag = 1
INVARIANTS
    NoNumberSkipped
    
    QueueInCall
PROPERTIES
    FileEnds
\* The process may have died
CHECK_DEADLOCK FALSE
