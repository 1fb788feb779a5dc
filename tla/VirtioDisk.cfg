CONSTANTS
    Proc = {p1, p2, p3}
    Buf = {b1, b2, b3}
    NUM = 7
    RING = 2
    W = 4
    NoBuf = NoBuf
SYMMETRY Symmetry
SPECIFICATION Safety
INVARIANT RequestsAccounted
PROPERTY ReturnsWhenDone
