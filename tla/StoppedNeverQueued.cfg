SPECIFICATION Spec
CONSTANTS
    Workers = {w1}
    NoWorker = NoWorker
    UserClock = 4
PROPERTY StoppedNeverQueued
