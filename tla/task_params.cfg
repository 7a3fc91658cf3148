SPECIFICATION Spec
CONSTANTS
    Tasks = {1, 2}
    FirstTask = 1
    SetArgs <- MCSetArgs
    Addrs = {"edge", "low", "kernel"}
INVARIANTS
    InRange
    ReturnsOwn
    Whole
