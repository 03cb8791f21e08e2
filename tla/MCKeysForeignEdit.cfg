\* Two workspaces, one pass, one change, no edit of the credential by hand.
CONSTANTS
    NoKey = NoKey
    User = User
    Keys = {A, B}
    Passes = {p1}
    Memories = {e1}
    HandEdits = FALSE
    MaxRows = 1
    MaxSwitches = 3
    MaxBroken = 0
SPECIFICATION KeysSpec
CHECK_DEADLOCK FALSE
INVARIANT ForeignEditStaysHome
