SPECIFICATION FairSpec
CONSTANTS
    Urls = {u1, u2}
    Logo = Logo
    NoUrl = NoUrl
    Names = {n1}
    MaxRequests = 3
    MaxEdits = 1
    MaxFaults = 1
INVARIANTS
    EndedRequestWasTaken
PROPERTIES
    PendingRequestEnds
CHECK_DEADLOCK FALSE
