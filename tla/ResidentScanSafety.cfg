SPECIFICATION Spec
CONSTANTS
    Workers = {w1, w2}
    NoWorker = NoWorker
    UserClock = 4
SYMMETRY WorkerSymmetry
INVARIANTS
    OpenIffRunning
    SingleFlight
    QueueEntryHasOwner
PROPERTIES
    ImplementsLease
    RequestsKept
