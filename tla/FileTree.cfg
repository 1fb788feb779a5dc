CONSTANTS
    x = x
    y = y
    Proc = {p1, p2}
    Name = {x, y}
    ninodes = 2
    NINODE = 3
    Calls <- MCCalls
    MaxCrash = 1
    NoProc = NoProc
SYMMETRY Symmetry
SPECIFICATION Safety
INVARIANT InodesAccounted TreeConsistent NoLockCycle
