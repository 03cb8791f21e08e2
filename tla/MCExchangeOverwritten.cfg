\* An edit lands on a memory between the pull's decision to apply and the apply.
CONSTANTS
    Clients = {c1, c2}
    Ids = {m1}
    Values = {v1, v2}
    None = None
    Commands = {"save", "patch"}
    Legs = {"both"}
    Concurrent = TRUE
    MaxBatch = 1
    MaxOps = 3
    Faults = {}
    MaxFaults = 0
SPECIFICATION Spec
SYMMETRY ExchangeSymmetry
PROPERTY UnpushedNotOverwritten
