CONSTANTS
    File = {f1}
    Byte = {v1, v2}
    BSIZE = 2
    NDIRECT = 1
    NINDIRECT = 2
    MAXOPBLOCKS = 6
    Block = {1, 2, 3, 4}
    Lens = {3, 5}
    OpBlocks = 5
    MaxOthers = 2
SPECIFICATION Spec
SYMMETRY Symmetry
INVARIANT BlocksAccounted  OpFits
