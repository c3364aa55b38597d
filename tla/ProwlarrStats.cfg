SPECIFICATION Spec
CONSTANTS
    c1 = c1
    c2 = c2
    NoOne = NoOne
    Collections = {c1, c2}
    Second = 2
    Started = 1
    MaxTime = 6
SYMMETRY MCSymmetry
INVARIANTS
    EachEventOnce
PROPERTIES
    UpdatesAdvance
