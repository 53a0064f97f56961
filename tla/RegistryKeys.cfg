SPECIFICATION Spec
CHECK_DEADLOCK FALSE \* the bounded instance ends at MaxHeight
CONSTANTS
    Curators = {alice, bob}
    Keys = {k1, k2, k3}
    None = None
    MaxHeight = 3
    MaxActivation = 5
INVARIANTS
    TypeOK
    KeyHasOneCurator
    SettledKey
    RevokedKeyInvalid
