SPECIFICATION Spec
CONSTANTS
    RetargetInterval = 2
    BlockTime = 1
    MaxRetargetFactor = 2
    MinTarget = 2
    MaxTarget = 5
    GenesisTarget = 4
    MedianCount = 3
    FutureDrift = 1
    WorkScale = 60
    NoBlock = NoBlock
    Nodes = {alice}
    Peers = {peer}
    PeerTimes = {0, 3}
    PeerTargets = {3, 4}
    MaxReorgDepth = 1
    MaxHeight = 3
    MaxTime = 1
INVARIANTS AcceptedAsValidated NextTargetPossible
PROPERTIES WorkGrows DeepBlocksKept
CHECK_DEADLOCK FALSE \* the bounded instance ends at MaxHeight and MaxTime
