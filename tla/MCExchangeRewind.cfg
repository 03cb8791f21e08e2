\* A pass killed while it comes back for a hold.
CONSTANTS
    Clients = {c1, c2}
    Ids = {m1}
    Values = {v1, v2}
    None = None
    Commands = {"save", "delete", "patch"}
    Legs = {"both"}
    Concurrent = FALSE
    MaxBatch = 2
    MaxOps = 4
    Faults = {"killed"}
    MaxFaults = 1
SPECIFICATION Spec
SYMMETRY ExchangeSymmetry
INVARIANT CursorIsContiguous
