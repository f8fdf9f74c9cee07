SPECIFICATION Spec
CONSTANTS
    Urls = {u1}
    Logo = Logo
    NoUrl = NoUrl
    Names = {n1}
    MaxRequests = 1
    MaxEdits = 1
    MaxFaults = 0
INVARIANTS
    StopIsBoth
CHECK_DEADLOCK FALSE
