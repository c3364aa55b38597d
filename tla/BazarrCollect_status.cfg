SPECIFICATION Spec
CONSTANTS
    b1 = b1
    b2 = b2
    b3 = b3
    Batches = {b1, b2}
    Limit = 2
    Walks = {TRUE}
    Faults = {"error"}
INVARIANTS
    StatusIsTold
