CONSTANTS
    G = G
    a1 = a1
    a2 = a2
    a3 = a3
    b2 = b2
    None = None
    Genesis <- G
    Blocks <- PairBlocks
    Parent <- PairParent
    MaxHeight = 2
    SnapshotInterval = 2
    SnapshotHeights = {1}
    SwitchHeights = {}
    Faults = {"torn", "cap", "corrupt", "unlinked"}
SPECIFICATION Spec
INVARIANTS TypeOK RecoveredTrimmed RecoveredIndexes
PROPERTY TipPublished
