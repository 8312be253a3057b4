\* Fragments of two, frames of three in a ring of eight, as 256 and 320 in 2048;
\* or two streams that start near the wrap of numbers and time stamps
SPECIFICATION AudioSpec
CONSTANTS
    Fragment = 2
    Fragments = 4
    Frame = 3
    Samples = 11
    MaxBreaks = 2
    Stale = 99
    SeqTop = 7
    TsTop = 15
    Tick = 2
    Speech <- Loud
    Begins = {0, 4}
    FirstSeqs = {6}
    FirstTs = {13}
    Poll = 2
    MaxPackets = 3
    MaxFlight = 2
    MaxNoise = 5
    MaxStreams = 2
INVARIANTS
    
    
    
    NoiseIsPaced
    SoundComesThrough

    
\* A stream ends with its bounds
CHECK_DEADLOCK FALSE
