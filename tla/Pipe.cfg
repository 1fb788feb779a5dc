CONSTANTS
    Proc = {p1, p2}
    NoProc = NoProc
    Byte = {a, b}
    PIPESIZE = 2
    W = 6
    MaxN = 3
SYMMETRY Symmetry
SPECIFICATION Safety
CHECK_DEADLOCK FALSE
INVARIANT EndsAccounted NoSleeperForgotten
PROPERTY PipeIsFifo
