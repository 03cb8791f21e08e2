\* One backup or two, kills of any command or a lost manifest, and a copy by hand;
\* and two workspaces, one pass, logins and logouts that race it or break off;
\* and two hook processes and the worker on two checkouts, one not its label's own.
CONSTANTS
    None = None
    Entities = {m1}
    Dirs = {b1}
    StampsAnywhere = FALSE
    MaxSaves = 2
    MaxErases = 2
    MaxEpochs = 2
    MaxKills = 2
    MaxLosses = 1
    MaxCopies = 1
    NoKey = NoKey
    User = User
    Keys = {A, B}
    Passes = {p1}
    Memories = {e1}
    HandEdits = TRUE
    MaxRows = 2
    MaxSwitches = 3
    MaxBroken = 1
    NoOne = NoOne
    Worker = Worker
    ByHand = ByHand
    Checkouts = {a, b}
    Covered = {a}
    Triggers = {t1, t2}
    Calls = {k1}
    MaxHead = 2
    MaxTicks = 1
    MaxFaults = 1
    MaxByHand = 1
    A = A
    t1 = t1
    t2 = t2
SPECIFICATION MCSpec
CHECK_DEADLOCK FALSE
INVARIANT TypeOK
INVARIANT LedgerCovers
 
INVARIANT KeysTypeOK
INVARIANT KeptForItsKey
INVARIANT OneBatchAfterLogout
 
 
 
 
PROPERTY RestoreIsWhole
