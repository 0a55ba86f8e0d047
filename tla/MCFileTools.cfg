SPECIFICATION FairSpec
CONSTANTS
    a = a
    b = b
    Files = {a, b}
    Calls = {c1, c2}
    NoCall = NoCall
    Old = Old
    Missing = Missing
    Plans <- AllPlans
INVARIANTS
    EditsSurviveEdits
    RefusedChangesNothing
    MoveNeverLoses
PROPERTY CallsReturn
CHECK_DEADLOCK FALSE
