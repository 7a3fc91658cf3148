SPECIFICATION Spec
CONSTANTS
    NCpus = 2
    Domains = {d1, d2}
    Period = 3
    Runtimes = {2, 3, 5}
    MaxDelta = 2
    MaxTime = 6
    MaxDrift = 2
INVARIANTS
    Conserved
    WantingKnown
CONSTRAINT Bounded
SYMMETRY Symmetry
CHECK_DEADLOCK FALSE
