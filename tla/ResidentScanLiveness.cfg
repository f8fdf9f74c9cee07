SPECIFICATION FairSpec
CONSTANTS
    Workers = {w1, w2}
    NoWorker = NoWorker
    UserClock = 2
PROPERTIES
    ScansEnd
