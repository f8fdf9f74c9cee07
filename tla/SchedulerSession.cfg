SPECIFICATION FairSpec
CONSTANTS
    Requests = {r1, r2}
    Windows = {w1}
    MaxCalls = 3
    MaxThreads = 4
    MaxTimeouts = 1
    MaxFaults = 1
INVARIANTS
    OnlyCrossedThreadsAreLost
    StopReachesUncrossedThread
PROPERTIES
    StartingEnds
CHECK_DEADLOCK FALSE
\* With nobody asking anything and no scheduler thread the program rests.
