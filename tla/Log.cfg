CONSTANTS
    Proc = {p1, p2}
    Block = {b1, b2, b3}
    Val = {v1, v2}
    NoBlock = NoBlock
    MAXOPBLOCKS = 2
    LOGSIZE = 4
    NLOG = 4
    OpBlocks = 2
SYMMETRY Symmetry
SPECIFICATION Safety
CHECK_DEADLOCK FALSE
INVARIANT LogInv SleeperHasWaker
PROPERTY CrashAtomic
