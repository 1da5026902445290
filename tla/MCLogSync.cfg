SPECIFICATION LiveSpec
CONSTANTS
    c1 = c1
    c2 = c2
    Clients = {c1, c2}
    Batch = 1
    SourceMax = 2
    ClientMax = 2
    Sizes = {1}
    Lines = 3
    Syncs = 1
INVARIANTS
    TypeOK
    LogBounded
    FirstSyncExact
PROPERTY
    SyncFinishes
CHECK_DEADLOCK FALSE
