SPECIFICATION LoopSpec
CONSTANTS
    c1 = c1
    c2 = c2
    CallIds = {c1, c2}
    Histories <- OnlyFollowUp
    Rewritten <- NothingRewritten
    MaxSteps = 2
    MinToCompact = 10
INVARIANTS
    PromptIsAnswered
CHECK_DEADLOCK FALSE
