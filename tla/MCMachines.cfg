\* Every command, two processes, one memory, a crash and a failure; and two
\* machines, three generations of two contents.
CONSTANTS
    Ids = {m1}
    Attrs = {a1, a2}
    Procs = {p1, p2}
    None = None
    Kinds = {"save", "delete", "patch", "restore", "refresh", "prune", "gc"}
    MaxOps = 3
    MaxCrashes = 1
    MaxFailures = 1
    x = x
    y = y
    s1 = s1
    Machines = {x, y}
    Contents = {s1, s2}
    NoIndex = NoIndex
    MaxPlans = 3
    MaxIndexed = 3
    MaxMemories = 1
    MaxBreaks = 1
SPECIFICATION MCSpec
SYMMETRY MemorySymmetry
INVARIANT TypeOK
INVARIANT OwedIsUnjournaled
INVARIANT CodeTypeOK
INVARIANT OwedIsRecorded
INVARIANT FollowsUpstream
PROPERTY FeedFollowsDisk
PROPERTY RowFollowsDisk
