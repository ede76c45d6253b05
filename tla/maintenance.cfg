SPECIFICATION Spec
CONSTANTS
    Package = {p1, p2}
    Size = {1, 2}
    Clocks <- MCClocks
    Ages = {1}
    Spaces = {2}
    None = None
    All = All
    MaxInitialRows = 3
    MaxRows = 3
    Reader = {r1, r2}
    MaxRequests = 2
SYMMETRY Symmetry
INVARIANTS TypeOK WithinLimits LeastRecentFirst
PROPERTIES OnlyWhileOver MarksOnlyLive
CHECK_DEADLOCK FALSE
