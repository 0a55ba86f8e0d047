SPECIFICATION FairSpec
CONSTANTS
    Tasks = {t1, t2, t3}
    NoTask = NoTask
    Sessions = {s1}
    Kinds <- EveryKind
    MaxCalls = 3
INVARIANTS
    RegisteredTokenIsLive
    EntriesHaveRuns
    BusyHasARun
    PromptsDoNotShareTokens
PROPERTIES
    CancelledRunReturns
    CallsAdvance
CHECK_DEADLOCK FALSE
