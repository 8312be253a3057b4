\* Two sound devices, one recording that is cut off
SPECIFICATION Spec
CONSTANTS
    Devices = {dsp, dsp1}
    Default = dsp
    Null = Null
    NoDevice = NoDevice
    Record = Record
    Closed = Closed
    MaxFd = 6
    MaxCuts = 1
INVARIANTS
    DeviceIsOpen
    
    OnlyCutRecordingsLeak
CHECK_DEADLOCK FALSE
