SPECIFICATION Spec
CONSTANTS
    NTables = 1
    Shards <- OneOnly
    MaxDelete = 1
    MaxTime = 2
    MaxFaults = 1
INVARIANT
    EmptyViewsAreTrue
