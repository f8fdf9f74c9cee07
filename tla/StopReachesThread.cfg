SPECIFICATION Spec
CONSTANTS
    Requests = {r1}
    Windows = {w1}
    MaxCalls = 3
    MaxThreads = 3
    MaxTimeouts = 0
    MaxFaults = 0
INVARIANTS
    StopReachesThread
CHECK_DEADLOCK FALSE
\* With nobody asking anything and no scheduler thread the program rests.
