SPECIFICATION FairSpec
CONSTANTS
    Requests = {r1}
    Windows = {w1}
    MaxCalls = 4
    MaxThreads = 2
    MaxTimeouts = 0
    MaxFaults = 1
PROPERTIES
    StartingAlwaysEnds
CHECK_DEADLOCK FALSE
\* With nobody asking anything and no scheduler thread the program rests.
