SPECIFICATION Spec
CONSTANTS
    Requests = {r1, r2}
    Windows = {w1, w2}
    MaxCalls = 3
    MaxThreads = 2
    MaxTimeouts = 0
    MaxFaults = 1
INVARIANTS
    OpenWindowIsActive
CHECK_DEADLOCK FALSE
\* With nobody asking anything and no scheduler thread the program rests.
