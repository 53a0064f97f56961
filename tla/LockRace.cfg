\* All processes may be dead in the end: nothing runs then.
CONSTANTS
    Procs = {p1, p2, p3}
    NoOne = NoOne
    Overlap = TRUE
SPECIFICATION LockSpec
INVARIANT SingleWriter
CHECK_DEADLOCK FALSE
