SPECIFICATION Spec
CONSTANTS
    Workers = {w1}
    NoWorker = NoWorker
    UserClock = 5
INVARIANT StartedIsActive
