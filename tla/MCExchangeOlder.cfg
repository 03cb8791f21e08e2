\* Two saves pushed inline with a peer's between them, then a pull.
CONSTANTS
    Clients = {c1, c2}
    Ids = {m1}
    Values = {v1, v2}
    None = None
    Commands = {"save", "patch"}
    Legs = {"both", "push"}
    Concurrent = FALSE
    MaxBatch = 1
    MaxOps = 3
    Faults = {}
    MaxFaults = 0
SPECIFICATION Spec
SYMMETRY ExchangeSymmetry
PROPERTY NothingOlderApplied
