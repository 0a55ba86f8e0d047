SPECIFICATION FairSpec
CONSTANTS
    Tasks = {c1, c2}
    NoTask = NoTask
    Capacity = 1
    MaxChunks = 2
INVARIANTS
    ReadersHoldTheLock
    OwnAnswers
    StreamsAreComplete
PROPERTY CallsReturn
CHECK_DEADLOCK FALSE
