SPECIFICATION FairSpec
CONSTANTS
    HeadSize = 3
    TailSize = 3
    ChunkSize = 2
    MaxTotal = 10
    Ground <- GroundOf10
    StorageMayFail = TRUE
INVARIANTS HistoryIsHonest TailIsKept CutsAtBoundaries StoredInv
PROPERTIES SnapshotReturns
CHECK_DEADLOCK FALSE
