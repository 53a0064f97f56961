SPECIFICATION TableSpec
CONSTANTS
    p1 = p1
    p2 = p2
    p3 = p3
    a1 = a1
    a2 = a2
    a3 = a3
    net = net
    BOOTSTRAP = BOOTSTRAP
    None = None
    Ids = {p1, p2, p3}
    Addresses = {a1, a2, a3}
    Prefix <- MCPrefix
    Sources = {BOOTSTRAP, PEX}
    Scores = {1, 2}
    MaxScore = 3
    Reward = 1
    Penalty = 2
    BanAfter = 2
    Bootstrap <- MCBootstrap
    MaxEntries = 2
    SharePercent = 50
    MaxSamePrefix = 1
    MaxOutbound = 4
INVARIANTS
    IndexMatches
    SelectionsGood
PROPERTIES RecordsKept
