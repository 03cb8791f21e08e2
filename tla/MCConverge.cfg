\* Whole passes, commands between them, lost answers: clients and hub agree at rest.
CONSTANTS
    Clients = {c1, c2}
    Ids = {m1}
    Values = {v1, v2}
    None = None
    Commands = {"save", "patch", "delete", "restore"}
    Legs = {"both"}
    Concurrent = FALSE
    MaxBatch = 1
    MaxOps = 3
    Faults = {"lost"}
    MaxFaults = 1
SPECIFICATION ConvergeSpec
INVARIANT Converged
INVARIANT CursorIsContiguous
PROPERTY Settles
