SPECIFICATION FairSpec
CONSTANTS
    b1 = b1
    b2 = b2
    b3 = b3
    Batches = {b1, b2, b3}
    Limit = 2
    Walks = {TRUE, FALSE}
    Faults = {"error", "panic"}
INVARIANTS
    UnflaggedIsComplete
    TotalsAreWhole
    OnlyTheHistoryIsLeft
PROPERTIES
    BazarrEnds
