SPECIFICATION Spec
CONSTANTS
    Package = {p1, p2}
    Size = {1, 2}
    Clocks <- MCClocks
    Ages = {1}
    Spaces = {2}
    None = None
    All = All
    MaxInitialRows = 2
    MaxRows = 3
    Reader = {}
    MaxRequests = 1
SYMMETRY Symmetry
INVARIANTS UnusedRemovesUnaccessed
CHECK_DEADLOCK FALSE
