CONSTANTS
    G = G
    a1 = a1
    a2 = a2
    a3 = a3
    b2 = b2
    None = None
    Genesis <- G
    Blocks <- ShortBlocks
    Parent <- ShortParent
    MaxHeight = 2
    SnapshotInterval = 2
    SnapshotHeights = {}
    SwitchHeights = {}
    Faults = {"torn"}
SPECIFICATION Spec
PROPERTY TipNeverLost
