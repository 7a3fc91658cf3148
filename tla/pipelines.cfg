SPECIFICATION Spec
CONSTANTS
    Jobs = 2
    Lengths = {2, 3}
    Programs = {"filter", "head", "yes", "seq", "missing"}
    MaxFd = 6
    Capacity = 1
CHECK_DEADLOCK FALSE
INVARIANTS
    Connected
    WritersKnown
    HangIsLeak
    LeaksAllButLast
    PipefdsSet
PROPERTIES
    ImplementsFlow
