\* One patch while another process reconciles; nothing crashes.
CONSTANTS
    Ids = {m1}
    Attrs = {a1, a2}
    Procs = {p1, p2}
    None = None
    Kinds = {"patch"}
    MaxOps = 1
    MaxCrashes = 0
    MaxFailures = 0
SPECIFICATION Spec
SYMMETRY MemorySymmetry
INVARIANT EditReachesPeers
