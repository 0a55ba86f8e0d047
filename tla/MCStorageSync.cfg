SPECIFICATION Spec
CONSTANTS
    Requests = {r1, r2}
    Sessions = {s1, s2}
    Msgs = {m1, m2}
    Gone = Gone
    NoRow = NoRow
SYMMETRY Symmetry
INVARIANTS
    NoStatementRefused
    SavedWhenIdle
    RowsBelong
PROPERTY ImplementsDurableSessions
CHECK_DEADLOCK FALSE
