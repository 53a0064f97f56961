SPECIFICATION Spec
CONSTANTS
    RetargetInterval = 10
    BlockTime = 1
    MaxRetargetFactor = 2
    MinTarget = 2
    MaxTarget = 8
    GenesisTarget = 8
    MedianCount = 3
    FutureDrift = 1
    WorkScale = 60
    NoBlock = NoBlock
    p = p
    q = q
    Peers = {p, q}
    MaxHeight <- LongAndFork
    Gaps <- RegularAndHasty
INVARIANTS TypeOK LedgerValid LedgerIsStored StoredInOrder
