SPECIFICATION FairSpec
CONSTANTS
    Tasks = {t1, t2}
    Waits <- MCWaits
    MaxCompletes = 3
    MaxAlls = 2
    UintMax = 7
INVARIANTS
    Conserved
    NoneStranded
    QueuedOnce
PROPERTIES
    Delivered
    Ends
CHECK_DEADLOCK FALSE
