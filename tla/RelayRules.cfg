SPECIFICATION FairSpec
CONSTANTS
    left = left
    middle = middle
    right = right
    b1 = b1
    b2 = b2
    Genesis = Genesis
    Nodes = {left, middle, right}
    Blocks = {b1, b2}
    Peers <- Ring
    Parent <- Tree
    Own <- Mining
    MaxPending = 1
    MaxInv = 2
    MaxSeen = 1
    MaxQueue = 1
INVARIANTS TypeOK Servable StoredAsTaken
PROPERTIES RelayedOnce RequestsEnd
