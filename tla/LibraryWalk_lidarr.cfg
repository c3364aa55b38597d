SPECIFICATION Spec
CONSTANTS
    i1 = i1
    i2 = i2
    i3 = i3
    Items = {i1, i2, i3}
    Limit = 2
    Confs <- WalkIsLast
INVARIANTS
    TotalsAreComplete
