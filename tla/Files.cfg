\* Three starts, a change and two faults; or three events in two seconds, two starts
SPECIFICATION FilesSpec
CONSTANTS
    MaxStarts = 3
    MaxChanges = 1
    MaxFaults = 2
    MaxEvents = 3
    MaxTime = 2
    MaxRuns = 2
INVARIANTS
    
    OneIsComplete
    ListIsHistory
    FileRestores
\* The starts are used up
CHECK_DEADLOCK FALSE
