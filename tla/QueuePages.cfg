SPECIFICATION Spec
CONSTANTS
    PageSize = 2
    MaxQueuePages = 3
    MaxItems = 7
    MaxChanges = 2
INVARIANTS
    TypeOK
    WorkIsBounded
    CountedAtMostOnce
    MissedAreRemovals
