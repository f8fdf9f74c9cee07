SPECIFICATION FairSpec
CONSTANTS
    Targets = {t1, t2}
    Workers = {w1}
    Maintenance = {m1, m2}
    Nobody = Nobody
    WarningFor = 1
    MaxTime = 1
    MaxGeneration = 2
    MaxFaults = 1
INVARIANTS
    ActiveWasConfirmed
    PeersAreCancelled
    OneIncidentPerSession
    IncidentBeforeNextSession
    TaintedScanNeverCommits
PROPERTIES
    TripEndsSession
