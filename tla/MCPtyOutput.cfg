SPECIFICATION FairSpec
CONSTANTS
    Clients = {c1}
    c1 = c1
    BufferLimit = 2
    Capacity = 1
    WsCapacity = 1
    MaxChunk = 2
    MaxOutput = 4
INVARIANTS
    OnlyLagAndSeamLose
PROPERTIES
    ImplementsPtyStream
    ClientsCatchUp
CHECK_DEADLOCK FALSE
