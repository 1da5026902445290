SPECIFICATION Spec
CONSTANTS
    c1 = c1
    c2 = c2
    Clients = {c1}
    Batch = 1
    SourceMax = 3
    ClientMax = 4
    Sizes = {}
    Lines = 2
    Syncs = 2
INVARIANT
    SyncSendsLog
CHECK_DEADLOCK FALSE
