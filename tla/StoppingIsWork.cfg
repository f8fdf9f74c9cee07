SPECIFICATION Spec
CONSTANTS
    Requests = {r1}
    Windows = {w1}
    MaxCalls = 3
    MaxThreads = 2
    MaxTimeouts = 1
    MaxFaults = 0
INVARIANTS
    StoppingIsWork
CHECK_DEADLOCK FALSE
\* With nobody asking anything and no scheduler thread the program rests.
