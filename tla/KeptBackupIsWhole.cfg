SPECIFICATION Spec
CONSTANTS
    Updaters = {u1, u2}
    Parts = {exe, internal}
    Versions = {1, 2, 3}
    Absent = Absent
    Torn = Torn
    MaxHandoffs = 2
    MaxFaults = 1
    MaxCrashes = 1
SYMMETRY Symmetric
INVARIANT
    KeptBackupIsWhole
CHECK_DEADLOCK FALSE
\* With every updater used up and no app running nothing more happens.
