SPECIFICATION Spec
CONSTANTS
    Sessions = {s1}
    NoSession = NoSession
    Prompts = {p1}
    Streams = {}
    MaxRequests = 4
INVARIANT DeletedStaysDeleted
CHECK_DEADLOCK FALSE
