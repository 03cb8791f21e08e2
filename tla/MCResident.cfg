\* Three jobs of which one finished is kept; two hook processes and the worker on
\* two checkouts, one not its label's own; two coordinators, one killed.
CONSTANTS
    None = None
    Request = Request
    JobIds = {1, 2, 3}
    Repos = {r1}
    Kinds = {"read", "write", r1}
    Streams = {s1}
    MaxFinished = 1
    MaxReports = 1
    NoOne = NoOne
    Worker = Worker
    ByHand = ByHand
    Checkouts = {a, b}
    Covered = {a}
    t1 = t1
    t2 = t2
    d1 = d1
    d2 = d2
    Triggers = {t1, t2}
    Calls = {k1}
    MaxHead = 1
    MaxTicks = 0
    MaxFaults = 1
    MaxByHand = 0
    Nobody = Nobody
    Coordinators = {d1, d2}
    Numbers = {1, 2, 3, 4, 5, 6}
    MaxKilled = 1
SPECIFICATION MCSpec
CHECK_DEADLOCK FALSE
INVARIANT JobsTypeOK
INVARIANT CancelledNeverRuns
INVARIANT RegistryTellsTheWorker
INVARIANT OneJobPerRepo
INVARIANT OneWriterShows
INVARIANT StreamsAreWhole
INVARIANT PassesTypeOK
 
INVARIANT DaemonTypeOK
INVARIANT RecordIsTheServers
PROPERTY EveryJobEnds
PROPERTY EveryTriggerEnds
PROPERTY StaysReachable
