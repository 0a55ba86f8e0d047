SPECIFICATION FairSpec
CONSTANTS
    Sessions = {s1, s2, s3}
    NoSession = NoSession
    Prompts = {p1, p2}
    Streams = {w1}
    MaxRequests = 5
INVARIANTS
    QuietChangesSurvive
    BusyHasATask
    NoSnapshotOutlivesItsRun
    OrphansWereDeleted
PROPERTIES
    OnlyPromptsReinsert
    BusyEnds
CHECK_DEADLOCK FALSE
