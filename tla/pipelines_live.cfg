SPECIFICATION FairSpec
CONSTANTS
    Jobs = 1
    Lengths = {2, 3}
    Programs = {"filter", "head", "yes", "seq", "missing"}
    MaxFd = 6
    Capacity = 1
CHECK_DEADLOCK FALSE
PROPERTIES
    WriterStops
    PipelineReturns
