\* All processes may be dead in the end: nothing runs then.
CONSTANTS
    Procs = {p1, p2, p3}
    NoOne = NoOne
    Overlap = FALSE
SPECIFICATION LockLiveSpec
INVARIANTS SingleWriter LockNamesWriter
PROPERTY StaleLockTakenOver
CHECK_DEADLOCK FALSE
