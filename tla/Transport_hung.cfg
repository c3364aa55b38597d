SPECIFICATION HungSpec
CONSTANTS
    a1 = a1
    a2 = a2
    b1 = b1
    b2 = b2
    ta = ta
    tb = tb
    NoOne = NoOne
    Targets = {ta, tb}
    Requests = {a1, a2, b1, b2}
    TargetOf <- MCTargetOf4
    Capacity = 3
    FormTargets = {tb}
    MaxRetries = 1
PROPERTIES
    IsolatedCallsReturn
    DeadlinesEndCalls
