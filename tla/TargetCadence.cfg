SPECIFICATION FairSpec
CONSTANTS
    feed = feed
    comments = comments
    Targets <- MCTargets
    Workers = {w1}
    Nobody = nobody
    Refresh <- MCRefresh
    RetryDelay = 3
    FailureLimit = 2
    SkipLimit = 2
    Mishaps <- MCMishaps
    Overdue = 1
    MaxEvents = 1
INVARIANTS ErrorIsEarned
PROPERTIES CadenceKept TargetsServed
