SPECIFICATION FairLoopSpec
CONSTANTS
    c1 = c1
    c2 = c2
    CallIds = {c1, c2}
    Histories <- EveryHistory
    Rewritten <- RewrittenAnswers
    MaxSteps = 2
    MinToCompact = 3
INVARIANTS
    LoopTypeOK
    ResultsFollowTheirCalls
    OwnCallsAreAnswered
    CancelClosesOpenCalls
PROPERTIES
    RunReturns
CHECK_DEADLOCK FALSE
