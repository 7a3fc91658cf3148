SPECIFICATION Spec
CONSTANTS
    NCpus = 2
    Domains = {d1, d2}
    Period = 3
    Runtimes = {2, 3}
    MaxDelta = 1
    MaxTime = 3
    MaxDrift = 1
INVARIANT NeverWanting
CONSTRAINT Bounded
CHECK_DEADLOCK FALSE
