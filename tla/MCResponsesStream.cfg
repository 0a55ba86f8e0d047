SPECIFICATION FairSpec
CHECK_DEADLOCK FALSE
CONSTANTS
    Items = {i1, i2}
    None = None
    Capacity = 2
    MaxSaid = 3
INVARIANTS
    NothingLost
    AsksAgainForCalls
PROPERTIES
    Bracketed
    TaskEnds
