SPECIFICATION FairSpec
CONSTANTS
    NTables = 2
    Shards <- OneEach
    MaxDelete = 1
    MaxTime = 2
    MaxFaults = 1
INVARIANTS
    TypeOK
    MirrorIsWhole
    GaugeIsLastSuccess
    CleanGaugeMeansSynced
    
    WipeIsCapped
PROPERTIES
    AttachSurvivesDeletes
    CatchesUp
    OrphansAreSwept
