CONSTANTS
    NPROC = 2
    NPAGES = 15
    PGSIZE = 2
    FANOUT = 3
    LEVELS = 3
    USERSTACK = 1
    W = 64
    Headers <- MCHeaders
    Sbrks <- MCSbrks
    MaxHeaders = 2
    MaxArgs = 1
    MaxCalls = 4
    NALLOC = 4
    Units = {2, 3, 5}
    Gaps = {1}
    MaxBrk = 12
SPECIFICATION MCSpec
CHECK_DEADLOCK FALSE
INVARIANT PagesAccounted SpacesConsistent HeapConsistent
