SPECIFICATION Spec
CONSTANTS
    t1 = t1
    t2 = t2
    t3 = t3
    NCpus = 2
    Tasks = {t1, t2, t3}
    MaxRtPrio = 4
    Start <- MCStart
    Prios <- MCPrios
    Masks <- MCMasks
    Callers = {a1}
    None = None
    Idle = Idle
    Stop = Stop
INVARIANTS
    Books
    InItsPlace
    HeadRuns
