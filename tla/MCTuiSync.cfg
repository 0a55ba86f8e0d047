SPECIFICATION FairSpec
CONSTANTS
    Sessions = {s1, s2}
    Prompts = {p1, p2}
    Shells = {p2}
    p1 = p1
    p2 = p2
    s1 = s1
    s2 = s2
    Local = Local
    Home = Home
    None = None
    MaxQueue = 2
INVARIANTS
    NothingLeftBehind
    ShownOnce
PROPERTIES
    MessagesSettle
    StatusSettles
CHECK_DEADLOCK FALSE
