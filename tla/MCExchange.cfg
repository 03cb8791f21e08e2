\* Everything at once: concurrent commands, inline pushes, lost answers, kills.
CONSTANTS
    Clients = {c1, c2}
    Ids = {m1}
    Values = {v1, v2}
    None = None
    Commands = {"save", "patch", "delete", "restore", "resave"}
    Legs = {"both", "push"}
    Concurrent = TRUE
    MaxBatch = 2
    MaxOps = 3
    Faults = {"lost", "stalled", "killed"}
    MaxFaults = 1
SPECIFICATION Spec
SYMMETRY ExchangeSymmetry
INVARIANT TypeOK
 
 
PROPERTY ImplementsLog
