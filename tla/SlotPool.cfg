SPECIFICATION Spec
CONSTANTS
    a1 = a1
    a2 = a2
    a3 = a3
    b1 = b1
    b2 = b2
    c1 = c1
    ta = ta
    tb = tb
    tc = tc
    Targets = {ta, tb, tc}
    Requests = {a1, a2, a3, b1, b2, c1}
    TargetOf <- MCTargetOf
    Capacity = 5
INVARIANTS
    TypeOK
    RoomForEveryTarget
    NoIdleSlotBesideWaiter
    SlotsAccounted
PROPERTIES
    ImplementsCap
