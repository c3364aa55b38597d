SPECIFICATION Spec
CONSTANTS
    a1 = a1
    a2 = a2
    b1 = b1
    b2 = b2
    ta = ta
    tb = tb
    NoOne = NoOne
    Targets = {ta, tb}
    Requests = {a1, a2, b1}
    TargetOf <- MCTargetOf
    Capacity = 3
    FormTargets = {ta}
    MaxRetries = 2
SYMMETRY MCSymmetry
INVARIANTS
    TypeOK
    WaitsHoldNoSlot
    NothingLeftBehind
    OneLogin
PROPERTIES
    UsesPool
