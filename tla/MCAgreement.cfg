CONSTANTS
    m2 = m2
    p2 = p2
    Ids = {m1, m2}
    Attrs = {a1, a2}
    Procs = {p1, p2}
    None = None
    Kinds = {"save", "delete", "patch", "restore", "refresh", "prune", "gc"}
    MaxOps = 4
    MaxCrashes = 2
    MaxFailures = 1
SPECIFICATION MCSpec
INVARIANT Agreement
PROPERTY CommandsEnd
