SPECIFICATION FairSpec
CHECK_DEADLOCK FALSE
CONSTANTS
    Nodes = {a, b}
    Links = {l1, l2}
    Ids = {i1}
    Networks = {main, other}
    MaxConnections = 1
    RejectLimit = 2
    None = None
INVARIANTS
    OutcomeJustified
    SlotsKeptOnlyFromNew
PROPERTIES LeavesClosed HandshakesEnd
