\* A delete that fails after its move, then prune, then a new session.
CONSTANTS
    Ids = {m1}
    Attrs = {a1, a2}
    Procs = {p1}
    None = None
    Kinds = {"delete", "prune"}
    MaxOps = 2
    MaxCrashes = 0
    MaxFailures = 1
SPECIFICATION Spec
SYMMETRY MemorySymmetry
INVARIANT DeletionReachesPeers
