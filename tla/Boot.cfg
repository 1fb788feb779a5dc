CONSTANTS
    Hart = {h0}
    BSIZE = 6
    FSSIZE = 7
    Content = {"good", "bad"}
    Zero = zero
    Sizes <- MCSizes
    MaxBlock = 7
    TrustedSize = 39
    TrustedImage <- MCTrusted
    SegBlocks = 2
    BssBlocks = 1
    Other = {h1}
    boot = b0
    NPROC = 2
    W = 4
    Args <- MCArgs
SPECIFICATION MCSpec
CHECK_DEADLOCK FALSE
INVARIANT TypeOK  MeasuredIsLoaded  SleepsLongEnough
PROPERTY  SleepEnds
