SPECIFICATION Spec
CONSTANTS
    Requests = {r1, r2}
    Sessions = {s1}
    Msgs = {m1}
    Gone = Gone
    NoRow = NoRow
SYMMETRY Symmetry
INVARIANT OverlappingSyncsSave
CHECK_DEADLOCK FALSE
