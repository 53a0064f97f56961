CONSTANTS
    G = G
    a1 = a1
    a2 = a2
    a3 = a3
    b2 = b2
    None = None
    Genesis <- G
    Blocks <- LongBlocks
    Parent <- LongParent
    MaxHeight = 3
    SnapshotInterval = 100
    SnapshotHeights = {}
    SwitchHeights = {0, 1, 2, 3}
    Faults = {}
SPECIFICATION Spec
INVARIANTS HeadDurable RecoveredIndexes
PROPERTIES TipNeverLost ImplementsDurableChain
