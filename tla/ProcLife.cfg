CONSTANTS
    NPROC = 4
    MaxPid = 4
    KillPids = {3}
SPECIFICATION Spec
INVARIANT  WaitNotMissed
PROPERTY OrphansCollected
