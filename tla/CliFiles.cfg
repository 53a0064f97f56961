SPECIFICATION Spec
SYMMETRY Symmetry
CONSTANTS
    Operators = {p1, p2}
    Ledgers = {main}
    Networks = {alpha, other}
    Alpha = alpha
    Curators = {alice}
    Keys = {k1, k2}
    None = None
    MaxHeight = 3
    MaxGoverned = 2
    MaxActivation = 3
INVARIANTS
    LedgersVerify
    
PROPERTIES BlocksKeptUnlessOverlapped AttestationLasts
